------------------------ MODULE SnapshotTargetsProofs ------------------------
(***************************************************************************)
(* Theorems about SnapshotTargets, for any targets, types and actions:     *)
(* types, the agreement of the issue registry with the counters, that one  *)
(* settings list is counted once, and that one kind of an issue is shown.  *)
(***************************************************************************)
EXTENDS SnapshotTargets, TLAPS

USE DEF Threshold

-----------------------------------------------------------------------------
\* What a step does to the counters and the issues of missing targets.

LEMMA InstallType ==
    ASSUME TypeOK, NEW listed \in SUBSET Targets, Install(listed)
    PROVE  /\ settings' \in SUBSET Targets
           /\ counted' \in BOOLEAN
           /\ lacking' \in [Targets -> 0 .. Threshold]
           /\ UNCHANGED <<bucket, count, missingIssue, carried>>
<1>1. counted' \in BOOLEAN
  <2>1. counted' \in {FALSE} \/ counted' \in BOOLEAN
    BY Zenon DEF Install
  <2> QED
    BY <2>1, Zenon
<1>2. lacking' \in [Targets -> 0 .. Threshold]
  BY DEF TypeOK, Install, Increment
<1> QED
  BY <1>1, <1>2 DEF Install

LEMMA ListenType ==
    ASSUME TypeOK, Listen
    PROVE  /\ counted' \in BOOLEAN
           /\ bucket' \in SUBSET Targets
           /\ count' \in [Targets -> 0 .. Threshold]
           /\ missingIssue' \in SUBSET Targets
           /\ lacking' \in [Targets -> 0 .. Threshold]
           /\ carried' \in SUBSET Targets
<1>1. CASE enabled
  BY <1>1 DEF TypeOK, Listen, CountMissing, UpdateMissingIssues, Increment
<1>2. CASE ~enabled
  BY <1>2 DEF TypeOK, Listen, tracking
<1> QED
  BY <1>1, <1>2 DEF TypeOK

\* What a reader or a service may do to the settings.
ReadsOnly ==
    /\ \E listed \in SUBSET Targets : Install(listed)
    /\ supported' \in {"unknown", "yes", "no"}
    /\ at' \in [Readers -> Stages]
    /\ enabled' = enabled

\* A step that leaves the counters alone.
CountersIdle == UNCHANGED <<enabled, settings, counted, tracking>>

LEMMA ReadStep ==
    ASSUME TypeOK, NEW r \in Readers, ReadEnds(r)
    PROVE  ReadsOnly /\ readIssue' \in SUBSET Kinds /\ UNCHANGED <<actionIssue, calls>>
<1>1. CASE ReadUnsupported(r)
  BY <1>1 DEF TypeOK, ReadUnsupported, ReadsOnly, Stages
<1>2. CASE ReadListed(r)
  BY <1>2, TargetAssumption DEF TypeOK, ReadListed, ReadsOnly, Stages
<1>3. CASE ReadErrorStatus(r)
  BY <1>3 DEF TypeOK, ReadErrorStatus, ReadsOnly, Stages
<1>4. CASE ReadUnreachable(r)
  BY <1>4 DEF TypeOK, ReadUnreachable, ReadsOnly, Stages
<1>5. ASSUME NEW kind \in Kinds, ReadRefused(r, kind)
      PROVE  ReadsOnly /\ readIssue' \in SUBSET Kinds /\ UNCHANGED <<actionIssue, calls>>
  BY <1>5 DEF TypeOK, ReadRefused, RaiseReadIssue, ReadsOnly, Stages
<1> QED
  BY <1>1, <1>2, <1>3, <1>4, <1>5 DEF ReadEnds

\* Every step either installs a list, runs the listener, reloads the entry, or
\* leaves the counters alone.
LEMMA StepKinds ==
    ASSUME TypeOK, [Next]_vars
    PROVE  \/ \E listed \in SUBSET Targets : Install(listed)
           \/ Listen /\ settings' = settings
           \/ Reload
           \/ CountersIdle
<1>1. ASSUME NEW r \in Readers, ReadEnds(r)
      PROVE  \E listed \in SUBSET Targets : Install(listed)
  BY <1>1, ReadStep DEF ReadsOnly
<1>2. ASSUME NEW r \in Readers, InventoryDone(r)
      PROVE  CountersIdle
  BY <1>2 DEF InventoryDone, CountersIdle
<1>3. ASSUME NEW r \in Readers, Publish(r)
      PROVE  Listen /\ settings' = settings
  BY <1>3 DEF Publish
<1>4. CASE BudgetEnds
  BY <1>4 DEF BudgetEnds, CountersIdle
<1>5. CASE DisabledPoll
  BY <1>5 DEF DisabledPoll
<1>6. CASE ServiceAnswered
  BY <1>6, TargetAssumption DEF ServiceAnswered
<1>7. ASSUME NEW a \in Actions, NEW t \in Targets, ActionEnds(a, t)
      PROVE  CountersIdle
  BY <1>7 DEF ActionEnds, CountersIdle, reading
<1>8. CASE UNCHANGED vars
  BY <1>8 DEF vars, reading, CountersIdle
<1>9. ASSUME NEW r \in Readers, ReadAsks(r)
      PROVE  CountersIdle
  BY <1>9 DEF ReadAsks, CountersIdle
<1>10. CASE ServiceAsks \/ ServiceReadFails \/ OrphanEnds
  BY <1>10 DEF ServiceAsks, ServiceReadFails, OrphanEnds, CountersIdle, reading
<1> QED
  BY <1>1, <1>2, <1>3, <1>4, <1>5, <1>6, <1>7, <1>8, <1>9, <1>10 DEF Next

-----------------------------------------------------------------------------
LEMMA TypeStep == TypeOK /\ [Next]_vars => TypeOK'
<1> SUFFICES ASSUME TypeOK, [Next]_vars PROVE TypeOK'
  OBVIOUS
<1> USE TargetAssumption
<1>1. ASSUME NEW r \in Readers, ReadEnds(r) PROVE TypeOK'
  BY <1>1, ReadStep, InstallType DEF TypeOK, ReadsOnly, calls
<1>2. ASSUME NEW r \in Readers, InventoryDone(r) PROVE TypeOK'
  BY <1>2 DEF TypeOK, InventoryDone, UpdateReadIssue, calls, tracking, Kinds, Stages
<1>3. ASSUME NEW r \in Readers, Publish(r) PROVE TypeOK'
  BY <1>3, ListenType DEF TypeOK, Publish, calls, Stages
<1>4. CASE BudgetEnds
  BY <1>4 DEF TypeOK, BudgetEnds, calls, tracking, Stages
<1>5. CASE DisabledPoll
  BY <1>5, InstallType DEF TypeOK, DisabledPoll, calls
<1>6. CASE ServiceAnswered
  <2>1. UNCHANGED <<actionIssue, enabled, at, orphans>>
    BY <1>6, TargetAssumption DEF ServiceAnswered
  <2>2. supported' \in {"unknown", "yes", "no"}
    BY <1>6 DEF TypeOK, ServiceAnswered
  <2>3. readIssue' \in SUBSET Kinds
    BY <1>6 DEF TypeOK, ServiceAnswered, UpdateReadIssue, Kinds
  <2>4. \E listed \in SUBSET Targets : Install(listed)
    BY <1>6, TargetAssumption DEF ServiceAnswered
  <2>5. asking' \in 0 .. MaxServiceReads /\ orphans' \in 0 .. MaxServiceReads - asking'
    BY <1>6 DEF TypeOK, ServiceAnswered
  <2> QED
    BY <2>1, <2>2, <2>3, <2>4, <2>5, InstallType DEF TypeOK
<1>7. ASSUME NEW a \in Actions, NEW t \in Targets, ActionEnds(a, t) PROVE TypeOK'
  <2>1. TypeOf[t] \in Types
    BY TargetAssumption
  <2>2. actionIssue' \in SUBSET (Actions \X Types \X Kinds)
    BY <1>7, <2>1 DEF TypeOK, ActionEnds, ClearActionIssues, RaiseActionIssue
  <2> QED
    BY <1>7, <2>2 DEF TypeOK, ActionEnds, reading, calls, tracking
<1>8. CASE Reload
  <2>1. asking' \in 0 .. MaxServiceReads /\ orphans' \in 0 .. MaxServiceReads - asking'
    BY <1>8 DEF TypeOK, Reload
  <2> QED
    BY <1>8, <2>1 DEF TypeOK, Reload, Stages
<1>9. CASE UNCHANGED vars
  BY <1>9 DEF TypeOK, vars, reading, calls, tracking
<1>10. ASSUME NEW r \in Readers, ReadAsks(r) PROVE TypeOK'
  BY <1>10 DEF TypeOK, ReadAsks, calls, tracking, Stages
<1>11. CASE ServiceAsks
  <2>1. asking' \in 0 .. MaxServiceReads /\ orphans' \in 0 .. MaxServiceReads - asking'
    BY <1>11 DEF TypeOK, ServiceAsks
  <2> QED
    BY <1>11, <2>1 DEF TypeOK, ServiceAsks, reading, tracking
<1>12. CASE ServiceReadFails
  <2>1. asking' \in 0 .. MaxServiceReads /\ orphans' \in 0 .. MaxServiceReads - asking'
    BY <1>12 DEF TypeOK, ServiceReadFails
  <2>2. readIssue' \in SUBSET Kinds
    BY <1>12 DEF TypeOK, ServiceReadFails, RaiseReadIssue, Kinds
  <2> QED
    BY <1>12, <2>1, <2>2 DEF TypeOK, ServiceReadFails, reading, tracking
<1>13. CASE OrphanEnds
  <2>1. asking' \in 0 .. MaxServiceReads /\ orphans' \in 0 .. MaxServiceReads - asking'
    BY <1>13 DEF TypeOK, OrphanEnds
  <2>2. readIssue' \in SUBSET Kinds
    BY <1>13 DEF TypeOK, OrphanEnds, UpdateReadIssue, RaiseReadIssue, Kinds
  <2> QED
    BY <1>13, <2>1, <2>2 DEF TypeOK, OrphanEnds, reading, tracking
<1> QED
  BY <1>1, <1>2, <1>3, <1>4, <1>5, <1>6, <1>7, <1>8, <1>9, <1>10, <1>11, <1>12, <1>13
     DEF Next

\* Every variable keeps its type, for any set of targets, types and actions.
THEOREM TypeCorrect == Spec => []TypeOK
<1>1. Init => TypeOK
  <2>1. 0 \in 0 .. MaxServiceReads /\ 0 \in 0 .. MaxServiceReads - 0
    BY TargetAssumption
  <2> QED
    BY <2>1 DEF Init, TypeOK, Stages
<1> QED
  BY <1>1, TypeStep, PTL DEF Spec

-----------------------------------------------------------------------------
\* The registry agrees with the counters, whatever the readers, services,
\* polls and reloads do.
THEOREM IssuesFollowCounts == Spec => []MissingIssueFollowsCount
<1>1. Init => MissingIssueFollowsCount
  BY DEF Init, MissingIssueFollowsCount
<1>2. TypeOK /\ MissingIssueFollowsCount /\ [Next]_vars => MissingIssueFollowsCount'
  <2> SUFFICES ASSUME TypeOK, MissingIssueFollowsCount, [Next]_vars
               PROVE  MissingIssueFollowsCount'
    OBVIOUS
  <2>1. ASSUME NEW listed \in SUBSET Targets, Install(listed)
        PROVE  MissingIssueFollowsCount'
    BY <2>1 DEF Install, MissingIssueFollowsCount
  <2>2. CASE Listen
    <3>1. CASE enabled
      <4> DEFINE missing == bucket \ settings
                 returned == {t \in settings : count[t] > 0}
      <4>1. /\ carried' = carried \ (missing \cup returned)
            /\ missingIssue' = (missingIssue \ (missing \cup returned))
                                  \cup {t \in missing : count'[t] >= Threshold}
            /\ \A t \in Targets :
                 count'[t] = IF t \in settings THEN 0
                             ELSE IF t \in missing /\ ~counted THEN Increment(count[t])
                             ELSE count[t]
        BY <2>2, <3>1 DEF Listen, CountMissing, UpdateMissingIssues
      <4>2. carried' \subseteq missingIssue'
        BY <4>1 DEF MissingIssueFollowsCount
      <4>3. ASSUME NEW t \in Targets, t \notin carried'
            PROVE  t \in missingIssue' <=> count'[t] >= Threshold
        <5>1. count[t] \in 0 .. Threshold
          BY DEF TypeOK
        <5>2. CASE t \in missing
          BY <4>1, <5>2
        <5>3. CASE t \in settings
          BY <4>1, <4>3, <5>1, <5>3 DEF MissingIssueFollowsCount
        <5>4. CASE t \notin settings /\ t \notin missing
          BY <4>1, <4>3, <5>1, <5>4 DEF MissingIssueFollowsCount
        <5> QED
          BY <5>2, <5>3, <5>4
      <4> QED
        BY <4>2, <4>3 DEF MissingIssueFollowsCount
    <3>2. CASE ~enabled
      BY <2>2, <3>2 DEF Listen, tracking, MissingIssueFollowsCount
    <3> QED
      BY <3>1, <3>2
  <2>3. CASE Reload
    BY <2>3 DEF Reload, MissingIssueFollowsCount
  <2>4. CASE CountersIdle
    BY <2>4 DEF CountersIdle, tracking, MissingIssueFollowsCount
  <2> QED
    BY <2>1, <2>2, <2>3, <2>4, StepKinds
<1> QED
  BY <1>1, <1>2, TypeCorrect, PTL DEF Spec

-----------------------------------------------------------------------------
\* A list that has not been counted leaves room for one more count of each
\* target it lacks.
LackInv ==
    \A t \in Targets :
        /\ count[t] <= lacking[t]
        /\ ~counted /\ t \notin settings
             => count[t] < lacking[t] \/ lacking[t] = Threshold

\* No list is counted twice for a target.
THEOREM ListsCountOnce == Spec => []EachListCountsOnce
<1>1. Init => LackInv
  <2> SUFFICES ASSUME Init, NEW t \in Targets
               PROVE  /\ count[t] <= lacking[t]
                      /\ counted
    BY Zenon DEF LackInv
  <2> QED
    BY DEF Init
<1>2. TypeOK /\ LackInv /\ [Next]_vars => LackInv'
  <2> SUFFICES ASSUME TypeOK, LackInv, [Next]_vars PROVE LackInv'
    OBVIOUS
  <2>1. ASSUME NEW listed \in SUBSET Targets, Install(listed) PROVE LackInv'
    <3>1. ASSUME NEW t \in Targets
          PROVE  /\ count[t] <= lacking'[t]
                 /\ t \notin listed => count[t] < lacking'[t] \/ lacking'[t] = Threshold
      BY <2>1, <3>1 DEF TypeOK, LackInv, Install, Increment
    <3> QED
      BY <2>1, <3>1 DEF Install, LackInv
  <2>2. CASE Listen /\ settings' = settings
    <3>1. CASE enabled
      <4>1. counted' = TRUE
        BY <2>2, <3>1 DEF Listen
      <4>2. ASSUME NEW t \in Targets PROVE count'[t] <= lacking'[t]
        <5>1. CASE t \in settings
          BY <2>2, <3>1, <5>1 DEF TypeOK, Listen, CountMissing
        <5>2. CASE t \notin settings
          BY <2>2, <3>1, <5>2 DEF TypeOK, LackInv, Listen, CountMissing, Increment
        <5> QED
          BY <5>1, <5>2
      <4> QED
        BY <4>1, <4>2 DEF LackInv
    <3>2. CASE ~enabled
      BY <2>2, <3>2 DEF Listen, tracking, LackInv
    <3> QED
      BY <3>1, <3>2
  <2>3. CASE Reload
    BY <2>3 DEF Reload, LackInv
  <2>4. CASE CountersIdle
    BY <2>4 DEF CountersIdle, tracking, LackInv
  <2> QED
    BY <2>1, <2>2, <2>3, <2>4, StepKinds
<1>3. LackInv => EachListCountsOnce
  BY DEF LackInv, EachListCountsOnce
<1> QED
  BY <1>1, <1>2, <1>3, TypeCorrect, PTL DEF Spec

-----------------------------------------------------------------------------
\* Of the two kinds of an issue at most one is shown.
THEOREM KindsExclude == Spec => []OneKindPerIssue
<1>1. Init => OneKindPerIssue
  BY DEF Init, OneKindPerIssue, Kinds
<1>2. TypeOK /\ OneKindPerIssue /\ [Next]_vars => OneKindPerIssue'
  <2> SUFFICES ASSUME TypeOK, OneKindPerIssue, [Next]_vars PROVE OneKindPerIssue'
    OBVIOUS
  <2> DEFINE Single(issues) == \A i, j \in issues : <<i[1], i[2]>> = <<j[1], j[2]>> => i = j
  <2>1. readIssue' # Kinds
    <3>1. \/ readIssue' = readIssue
          \/ readIssue' = {}
          \/ \E kind \in Kinds : readIssue' = {kind}
      <4>1. ASSUME NEW r \in Readers, ReadEnds(r)
            PROVE  readIssue' = readIssue \/ \E kind \in Kinds : readIssue' = {kind}
        BY <4>1 DEF ReadEnds, ReadUnsupported, ReadListed, ReadErrorStatus, ReadUnreachable,
           ReadRefused, RaiseReadIssue
      <4>2. ASSUME NEW r \in Readers, InventoryDone(r) PROVE
            readIssue' = readIssue \/ readIssue' = {} \/ \E kind \in Kinds : readIssue' = {kind}
        BY <4>2 DEF InventoryDone, UpdateReadIssue, Kinds
      <4>3. CASE ServiceAnswered \/ ServiceReadFails \/ OrphanEnds
        BY <4>3 DEF ServiceAnswered, ServiceReadFails, OrphanEnds, UpdateReadIssue,
           RaiseReadIssue, Kinds
      <4> QED
        BY <4>1, <4>2, <4>3 DEF Next, ReadAsks, Publish, BudgetEnds, DisabledPoll,
           ServiceAsks, ActionEnds, Reload, vars
    <3> QED
      BY <3>1 DEF OneKindPerIssue, Kinds
  <2>2. Single(actionIssue')
    <3>1. ASSUME NEW a \in Actions, NEW t \in Targets, ActionEnds(a, t)
          PROVE  Single(actionIssue')
      <4> DEFINE rest == {i \in actionIssue : <<i[1], i[2]>> # <<a, TypeOf[t]>>}
      <4>1. actionIssue' = rest
              \/ \E kind \in Kinds : actionIssue' = rest \cup {<<a, TypeOf[t], kind>>}
        BY <3>1 DEF ActionEnds, ClearActionIssues, RaiseActionIssue
      <4> QED
        BY <4>1 DEF OneKindPerIssue
    <3>2. CASE actionIssue' = {} \/ actionIssue' = actionIssue
      BY <3>2 DEF OneKindPerIssue
    <3> QED
      BY <3>1, <3>2, ReadStep DEF Next, ReadAsks, InventoryDone, Publish, BudgetEnds,
         DisabledPoll, ServiceAsks, ServiceAnswered, ServiceReadFails, OrphanEnds, Reload, vars
  <2> QED
    BY <2>1, <2>2 DEF OneKindPerIssue
<1> QED
  BY <1>1, <1>2, TypeCorrect, PTL DEF Spec
=============================================================================
