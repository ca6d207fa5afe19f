----------------------- MODULE SnapshotInventoryProofs -----------------------
(***************************************************************************)
(* Proofs about SnapshotInventory, for any targets: the type invariant,    *)
(* what becomes of requests, and that only refusals of the console make a  *)
(* target skipped or take its button away.                                 *)
(***************************************************************************)
EXTENDS SnapshotInventory, TLAPS

\* The disjuncts of Next, one alternative each.
LEMMA StepKinds ==
    ASSUME Next
    PROVE  \/ \E r \in Readers, listed \in SUBSET Targets : RefreshDue(r, listed)
           \/ \E r \in Readers, listed \in SUBSET Targets : RefreshNotDue(r, listed)
           \/ \E r \in Readers, t \in Targets : TargetRead(r, t)
           \/ \E r \in Readers, t \in Targets : TargetGone(r, t)
           \/ \E r \in Readers, t \in Targets : TargetForbidden(r, t)
           \/ \E r \in Readers, t \in Targets : TargetFails(r, t)
           \/ \E r \in Readers, t \in Targets : PathMissing(r, t)
           \/ \E r \in Readers : SettingsFail(r)
           \/ \E r \in Readers : RefreshEnds(r)
           \/ \E r \in Readers : RefreshFails(r)
           \/ \E listed \in SUBSET Targets : ServiceAnswered(listed)
           \/ ServiceAsks \/ ServiceReadFails
           \/ RefreshCut \/ Publish \/ Request \/ TimePasses \/ Reload
  BY InventoryAssumption DEF Next, TargetAnswers

-----------------------------------------------------------------------------
\* Types of what the operators return.
LEMMA PruneType ==
    ASSUME NEW f \in [Targets -> Statuses], NEW listed \in SUBSET Targets
    PROVE  Prune(f, listed) \in [Targets -> Statuses]
  BY DEF Prune, Statuses

LEMMA NothingType ==
    /\ Nothing \in [Targets -> Statuses]
    /\ Nothing \in [Targets -> Statuses \cup {"pending"}]
  BY DEF Nothing, Statuses

\* A refresh ends with a status for every target.
LEMMA EndType ==
    ASSUME TypeOK, NEW r \in Readers, \A t \in Targets : ~Pending(r, t), Reading(r)
    PROVE  result[r] \in [Targets -> Statuses]
  BY DEF TypeOK, Pending

LEMMA RecordType ==
    ASSUME TypeOK, NEW r \in Readers, NEW t \in Targets, NEW outcome \in Statuses,
           Record(r, t, outcome)
    PROVE  result' \in [Readers -> [Targets -> Statuses \cup {"pending"}]]
  BY DEF TypeOK, Record

LEMMA LeaveType ==
    ASSUME TypeOK, NEW r \in Readers, Leave(r)
    PROVE  /\ at' \in [Readers -> {"idle", "reading", "done"}]
           /\ honours' \in SUBSET Readers
           /\ asked' \in [Readers -> BOOLEAN]
           /\ result' \in [Readers -> [Targets -> Statuses \cup {"pending"}]]
  BY NothingType DEF TypeOK, Leave, Rest

LEMMA ListedType ==
    ASSUME TypeOK, NEW r \in Readers, NEW listed \in SUBSET Targets, Listed(r, listed)
    PROVE  /\ settings' \in SUBSET Targets /\ keys' \in SUBSET Targets
           /\ status' \in [Targets -> Statuses]
           /\ overlapped' \in BOOLEAN /\ displaced' \in BOOLEAN
           /\ asking' \in 0 .. MaxServiceReads
           /\ missingFor' \in SUBSET {"shared", "mydrive"}
           /\ known' \in SUBSET Targets /\ buttons' \in SUBSET Targets
           /\ refused' \in SUBSET Targets
  BY PruneType DEF TypeOK, Listed, entity

LEMMA TypeStep == TypeOK /\ [Next]_vars => TypeOK'
<1> SUFFICES ASSUME TypeOK, [Next]_vars PROVE TypeOK'
  OBVIOUS
<1> USE InventoryAssumption, NothingType
<1>1. ASSUME NEW r \in Readers, NEW listed \in SUBSET Targets, RefreshDue(r, listed)
      PROVE  TypeOK'
  <2>1. Listed(r, listed)
    BY <1>1 DEF RefreshDue
  <2>2. RequestedFor(listed) \in BOOLEAN
    BY Zenon DEF RequestedFor, TypeOK
  <2>3. asked' \in [Readers -> BOOLEAN]
    BY <1>1, <2>2 DEF RefreshDue, TypeOK
  <2>4. skip' \in SUBSET Targets
    BY <1>1 DEF RefreshDue, SkippedNow
  <2>5. result' \in [Readers -> [Targets -> Statuses \cup {"pending"}]]
    <3> DEFINE f == [t \in Targets |-> CASE t \notin listed -> "none"
                                         [] t \in skip'      -> "refused"
                                         [] OTHER            -> "pending"]
    <3>1. f \in [Targets -> Statuses \cup {"pending"}]
      BY DEF Statuses
    <3>2. result' = [result EXCEPT ![r] = f]
      BY <1>1 DEF RefreshDue
    <3> HIDE DEF f
    <3> QED
      BY <3>1, <3>2 DEF TypeOK
  <2>6. /\ requested' \in BOOLEAN /\ recent' \in BOOLEAN /\ owed' \in BOOLEAN
    BY <1>1, Zenon DEF RefreshDue, TypeOK
  <2>7. /\ at' \in [Readers -> {"idle", "reading", "done"}]
        /\ honours' \in SUBSET Readers
    BY <1>1 DEF RefreshDue, TypeOK
  <2> QED
    BY <2>1, <2>3, <2>4, <2>5, <2>6, <2>7, ListedType DEF TypeOK
<1>2. ASSUME NEW r \in Readers, NEW listed \in SUBSET Targets, RefreshNotDue(r, listed)
      PROVE  TypeOK'
  <2>1. Listed(r, listed)
    BY <1>2 DEF RefreshNotDue
  <2>2. /\ requested' \in BOOLEAN /\ recent' \in BOOLEAN /\ owed' \in BOOLEAN
    BY <1>2, Zenon DEF RefreshNotDue, TypeOK
  <2> QED
    BY <1>2, <2>1, <2>2, ListedType DEF RefreshNotDue, TypeOK, Rest
<1>3. ASSUME NEW r \in Readers, NEW t \in Targets, TargetRead(r, t) PROVE TypeOK'
  <2>1. result' \in [Readers -> [Targets -> Statuses \cup {"pending"}]]
    BY <1>3, RecordType DEF TargetRead, Statuses
  <2> QED
    BY <1>3, <2>1 DEF TargetRead, TypeOK, entity, past
<1>4. ASSUME NEW r \in Readers, NEW t \in Targets, TargetGone(r, t) PROVE TypeOK'
  <2>1. result' \in [Readers -> [Targets -> Statuses \cup {"pending"}]]
    BY <1>4, RecordType DEF TargetGone, Statuses
  <2> QED
    BY <1>4, <2>1 DEF TargetGone, TypeOK, entity, OfType
<1>5. ASSUME NEW r \in Readers, NEW t \in Targets, TargetForbidden(r, t) PROVE TypeOK'
  <2>1. result' \in [Readers -> [Targets -> Statuses \cup {"pending"}]]
    BY <1>5, RecordType DEF TargetForbidden, Statuses
  <2> QED
    BY <1>5, <2>1 DEF TargetForbidden, TypeOK, entity
<1>6. ASSUME NEW r \in Readers, NEW t \in Targets, TargetFails(r, t) PROVE TypeOK'
  <2>1. result' \in [Readers -> [Targets -> Statuses \cup {"pending"}]]
    BY <1>6, RecordType DEF TargetFails, Statuses
  <2> QED
    BY <1>6, <2>1 DEF TargetFails, TypeOK, cache, entity, past
<1>7. ASSUME NEW r \in Readers, NEW t \in Targets, PathMissing(r, t) PROVE TypeOK'
  BY <1>7 DEF PathMissing, TypeOK, cache, reader, entity, OfType
<1>8. ASSUME NEW r \in Readers, SettingsFail(r) PROVE TypeOK'
  <2>1. overlapped' \in BOOLEAN /\ displaced' \in BOOLEAN
    BY <1>8, Zenon DEF SettingsFail
  <2> QED
    BY <1>8, <2>1 DEF SettingsFail, TypeOK, entity, Rest
<1>9. ASSUME NEW r \in Readers, RefreshEnds(r) PROVE TypeOK'
  <2>1. Leave(r)
    BY <1>9 DEF RefreshEnds
  <2>2. status' \in [Targets -> Statuses]
    BY <1>9, EndType DEF RefreshEnds
  <2>3. requested' \in BOOLEAN /\ owed' \in BOOLEAN /\ overlapped' \in BOOLEAN /\ displaced' \in BOOLEAN
    BY <1>9, Zenon DEF RefreshEnds, TypeOK
  <2> QED
    BY <1>9, <2>1, <2>2, <2>3, LeaveType DEF RefreshEnds, TypeOK, entity
<1>10. ASSUME NEW r \in Readers, RefreshFails(r) PROVE TypeOK'
  <2>1. Leave(r)
    BY <1>10 DEF RefreshFails
  <2>2. requested' \in BOOLEAN /\ owed' \in BOOLEAN /\ overlapped' \in BOOLEAN /\ displaced' \in BOOLEAN
    BY <1>10, Zenon DEF RefreshFails, TypeOK
  <2> QED
    BY <1>10, <2>1, <2>2, LeaveType DEF RefreshFails, TypeOK, entity
<1>11. CASE RefreshCut
  <2>1. Leave("poll") /\ "poll" \in Readers
    BY <1>11 DEF RefreshCut, Readers
  <2>2. owed' \in BOOLEAN /\ overlapped' \in BOOLEAN /\ displaced' \in BOOLEAN
    BY <1>11, Zenon DEF RefreshCut, TypeOK
  <2> QED
    BY <1>11, <2>1, <2>2, LeaveType DEF RefreshCut, TypeOK, cache, entity
<1>12. CASE Publish
  BY <1>12 DEF Publish, TypeOK, cache, reader, past
<1>13. CASE Request
  BY <1>13 DEF Request, TypeOK, reader, entity
<1>14. CASE ServiceAsks \/ ServiceReadFails
  <2>1. asking' \in 0 .. MaxServiceReads
    BY <1>14 DEF ServiceAsks, ServiceReadFails, TypeOK
  <2> QED
    BY <1>14, <2>1 DEF ServiceAsks, ServiceReadFails, TypeOK, cache, reader, entity, past
<1>18. ASSUME NEW listed \in SUBSET Targets, ServiceAnswered(listed) PROVE TypeOK'
  <2>1. asking' \in 0 .. MaxServiceReads
    BY <1>18 DEF ServiceAnswered, TypeOK
  <2>2. displaced' \in BOOLEAN
    BY <1>18, Zenon DEF ServiceAnswered
  <2> QED
    BY <1>18, <2>1, <2>2 DEF ServiceAnswered, TypeOK, reader, entity
<1>15. CASE TimePasses
  BY <1>15 DEF TimePasses, TypeOK, reader, entity, past
<1>16. CASE Reload
  <2>1. 0 \in 0 .. MaxServiceReads
    OBVIOUS
  <2> QED
    BY <1>16, <2>1 DEF Reload, TypeOK
<1>17. CASE UNCHANGED vars
  BY <1>17 DEF vars, cache, reader, entity, past, TypeOK
<1> QED
  BY <1>1, <1>2, <1>3, <1>4, <1>5, <1>6, <1>7, <1>8, <1>9, <1>10, <1>11, <1>12,
     <1>13, <1>14, <1>15, <1>16, <1>17, <1>18, StepKinds

\* Type correctness of the inventory's state.
THEOREM TypeCorrect == Spec => []TypeOK
<1>1. Init => TypeOK
  <2>1. 0 \in 0 .. MaxServiceReads
    BY InventoryAssumption
  <2> QED
    BY <2>1, NothingType DEF Init, TypeOK
<1> QED
  BY <1>1, TypeStep, PTL DEF Spec

-----------------------------------------------------------------------------
\* Everything the cache, the readers and the client hold against a target goes
\* back to a refusal.
RefusedIsBacked ==
    /\ skip \subseteq refused
    /\ \A t \in Targets : status[t] = "refused" => t \in refused
    /\ \A r \in Readers, t \in Targets : result[r][t] = "refused" => t \in refused
    /\ \A t \in Targets : TypeOf[t] \in missingFor => t \in refused
    /\ known \ buttons \subseteq refused

LEMMA RecordBacked ==
    ASSUME TypeOK, RefusedIsBacked, NEW r \in Readers, NEW t \in Targets,
           NEW outcome, Record(r, t, outcome), refused \subseteq refused',
           outcome = "refused" => t \in refused'
    PROVE  \A o \in Readers, u \in Targets : result'[o][u] = "refused" => u \in refused'
  BY DEF TypeOK, RefusedIsBacked, Record

LEMMA LeaveBacked ==
    ASSUME TypeOK, RefusedIsBacked, NEW r \in Readers, Leave(r)
    PROVE  \A o \in Readers, u \in Targets : result'[o][u] = "refused" => u \in refused
  BY DEF TypeOK, RefusedIsBacked, Leave, Nothing

LEMMA BackedStep == TypeOK /\ RefusedIsBacked /\ [Next]_vars => RefusedIsBacked'
<1> SUFFICES ASSUME TypeOK, RefusedIsBacked, [Next]_vars PROVE RefusedIsBacked'
  OBVIOUS
<1>1. ASSUME NEW r \in Readers, NEW listed \in SUBSET Targets, RefreshDue(r, listed)
      PROVE  RefusedIsBacked'
  <2>1. skip' = SkippedNow(listed)
    BY <1>1 DEF RefreshDue
  <2>2. skip' \subseteq refused
    BY <2>1 DEF SkippedNow, RefusedIsBacked
  <2>3. \A t \in Targets : status'[t] = "refused" => t \in refused
    BY <1>1 DEF RefreshDue, Listed, Prune, RefusedIsBacked
  <2>4. \A o \in Readers, t \in Targets : result'[o][t] = "refused" => t \in refused
    <3> DEFINE f == [t \in Targets |-> CASE t \notin listed -> "none"
                                         [] t \in skip'      -> "refused"
                                         [] OTHER            -> "pending"]
    <3>1. \A t \in Targets : f[t] = "refused" => t \in refused
      BY <2>2
    <3>2. result' = [result EXCEPT ![r] = f]
      BY <1>1 DEF RefreshDue
    <3> HIDE DEF f
    <3> QED
      BY <3>1, <3>2 DEF TypeOK, RefusedIsBacked
  <2> QED
    BY <1>1, <2>2, <2>3, <2>4 DEF RefreshDue, Listed, entity, RefusedIsBacked
<1>2. ASSUME NEW r \in Readers, NEW listed \in SUBSET Targets, RefreshNotDue(r, listed)
      PROVE  RefusedIsBacked'
  <2>1. \A t \in Targets : status'[t] = "refused" => t \in refused
    BY <1>2 DEF RefreshNotDue, Listed, Prune, RefusedIsBacked
  <2> QED
    BY <1>2, <2>1 DEF RefreshNotDue, Listed, entity, RefusedIsBacked
<1>3. ASSUME NEW r \in Readers, NEW t \in Targets, TargetRead(r, t) PROVE RefusedIsBacked'
  BY <1>3, RecordBacked DEF TargetRead, entity, past, RefusedIsBacked
<1>4. ASSUME NEW r \in Readers, NEW t \in Targets, TargetGone(r, t) PROVE RefusedIsBacked'
  <2>1. \A o \in Readers, u \in Targets : result'[o][u] = "refused" => u \in refused'
    BY <1>4, RecordBacked DEF TargetGone, OfType
  <2> QED
    BY <1>4, <2>1 DEF TargetGone, entity, OfType, RefusedIsBacked
<1>5. ASSUME NEW r \in Readers, NEW t \in Targets, TargetForbidden(r, t)
      PROVE  RefusedIsBacked'
  BY <1>5, RecordBacked DEF TargetForbidden, entity, RefusedIsBacked
<1>6. ASSUME NEW r \in Readers, NEW t \in Targets, TargetFails(r, t) PROVE RefusedIsBacked'
  BY <1>6, RecordBacked DEF TargetFails, cache, entity, past, RefusedIsBacked
<1>7. ASSUME NEW r \in Readers, NEW t \in Targets, PathMissing(r, t) PROVE RefusedIsBacked'
  BY <1>7 DEF PathMissing, cache, reader, entity, OfType, RefusedIsBacked
<1>8. ASSUME NEW r \in Readers, SettingsFail(r) PROVE RefusedIsBacked'
  BY <1>8 DEF SettingsFail, Nothing, entity, RefusedIsBacked
<1>9. ASSUME NEW r \in Readers, RefreshEnds(r) PROVE RefusedIsBacked'
  <2>1. Leave(r) /\ status' = result[r]
    BY <1>9 DEF RefreshEnds
  <2> QED
    BY <1>9, <2>1, LeaveBacked DEF RefreshEnds, entity, RefusedIsBacked
<1>10. ASSUME NEW r \in Readers, RefreshFails(r) PROVE RefusedIsBacked'
  BY <1>10, LeaveBacked DEF RefreshFails, entity, RefusedIsBacked
<1>11. CASE RefreshCut
  <2>1. "poll" \in Readers
    BY DEF Readers
  <2> QED
    BY <1>11, <2>1, LeaveBacked DEF RefreshCut, cache, entity, RefusedIsBacked
<1>12. CASE Publish
  BY <1>12 DEF Publish, CreateSupported, cache, reader, past, TypeOK, RefusedIsBacked
<1>13. CASE Request
  BY <1>13 DEF Request, reader, entity, RefusedIsBacked
<1>14. CASE ServiceAsks \/ ServiceReadFails \/ \E listed \in SUBSET Targets : ServiceAnswered(listed)
  BY <1>14 DEF ServiceAsks, ServiceReadFails, ServiceAnswered, cache, reader, entity, past,
               RefusedIsBacked
<1>15. CASE TimePasses
  BY <1>15 DEF TimePasses, reader, entity, past, RefusedIsBacked
<1>16. CASE Reload
  BY <1>16 DEF Reload, Nothing, RefusedIsBacked
<1>17. CASE UNCHANGED vars
  BY <1>17 DEF vars, cache, reader, entity, past, RefusedIsBacked
<1> QED
  BY <1>1, <1>2, <1>3, <1>4, <1>5, <1>6, <1>7, <1>8, <1>9, <1>10, <1>11, <1>12,
     <1>13, <1>14, <1>15, <1>16, <1>17, StepKinds

LEMMA RefusalsBack == Spec => []RefusedIsBacked
<1>1. Init => RefusedIsBacked
  BY DEF Init, Nothing, RefusedIsBacked
<1> QED
  BY <1>1, BackedStep, TypeCorrect, PTL DEF Spec

\* Only a refusal of the console makes a target skipped: no connection failure,
\* server error or unusable answer does, whatever both readers do.
THEOREM OnlyRefusedAreSkipped == Spec => []SkippedWasRefused
<1>1. RefusedIsBacked => SkippedWasRefused
  BY DEF RefusedIsBacked, SkippedWasRefused
<1> QED
  BY <1>1, RefusalsBack, PTL

\* Only a refusal of the console takes a create button away.
THEOREM OnlyRefusedLoseButtons == Spec => []ButtonLostWasRefused
<1>1. RefusedIsBacked => ButtonLostWasRefused
  BY DEF RefusedIsBacked, ButtonLostWasRefused
<1> QED
  BY <1>1, RefusalsBack, PTL

-----------------------------------------------------------------------------
\* A request that is owed is asked for, or a refresh took it and will ask for it
\* again if it fails.
RequestIsCarried ==
    owed => requested \/ \E r \in honours : Reading(r) /\ asked[r]

LEMMA CarriedStep == TypeOK /\ RequestIsCarried /\ [Next]_vars => RequestIsCarried'
<1> SUFFICES ASSUME TypeOK, RequestIsCarried, [Next]_vars, owed' PROVE RequestIsCarried'
  BY DEF RequestIsCarried
<1> USE DEF RequestIsCarried, Reading
<1>1. ASSUME NEW r \in Readers, NEW listed \in SUBSET Targets, RefreshDue(r, listed)
      PROVE  RequestIsCarried'
  <2>1. owed /\ honours' = honours \cup {r} /\ at[r] # "reading"
    BY <1>1 DEF RefreshDue, Listed
  <2>2. /\ asked' = [asked EXCEPT ![r] = RequestedFor(listed)]
        /\ at' = [at EXCEPT ![r] = "reading"]
    BY <1>1 DEF RefreshDue
  <2>3. CASE requested
    <3>1. RequestedFor(listed) = TRUE
      BY <2>3, Zenon DEF RequestedFor, TypeOK
    <3> QED
      BY <2>1, <2>2, <3>1 DEF TypeOK
  <2>4. CASE ~requested
    <3>1. PICK o \in honours : at[o] = "reading" /\ asked[o]
      BY <2>1, <2>4
    <3>2. o \in honours' /\ at'[o] = "reading" /\ asked'[o]
      BY <2>1, <2>2, <3>1 DEF TypeOK
    <3> QED
      BY <3>2
  <2> QED
    BY <2>3, <2>4
<1>2. ASSUME NEW r \in Readers, NEW listed \in SUBSET Targets, RefreshNotDue(r, listed)
      PROVE  RequestIsCarried'
  BY <1>2 DEF RefreshNotDue, Listed, TypeOK
<1>3. ASSUME NEW r \in Readers, RefreshEnds(r) PROVE RequestIsCarried'
  <2>1. owed /\ r \notin honours
    BY <1>3 DEF RefreshEnds
  <2> QED
    BY <1>3, <2>1 DEF RefreshEnds, Leave, TypeOK
<1>4. ASSUME NEW r \in Readers, RefreshFails(r) PROVE RequestIsCarried'
  <2>1. /\ owed
        /\ requested' = (requested \/ asked[r])
        /\ Leave(r)
    BY <1>4 DEF RefreshFails
  <2>2. CASE requested \/ asked[r]
    BY <2>1, <2>2
  <2>3. CASE ~(requested \/ asked[r])
    <3>1. PICK o \in honours : at[o] = "reading" /\ asked[o]
      BY <2>1, <2>3
    <3>2. o # r /\ o \in honours' /\ at'[o] = "reading" /\ asked'[o]
      BY <2>1, <2>3, <3>1 DEF Leave, TypeOK
    <3> QED
      BY <3>2
  <2> QED
    BY <2>2, <2>3
<1>5. CASE RefreshCut
  <2>1. owed /\ "poll" \notin honours
    BY <1>5 DEF RefreshCut
  <2> QED
    BY <1>5, <2>1 DEF RefreshCut, Leave, cache, TypeOK
<1>6. ASSUME NEW r \in Readers, SettingsFail(r) PROVE RequestIsCarried'
  BY <1>6 DEF SettingsFail
<1>7. CASE Request
  BY <1>7 DEF Request
<1>8. CASE Reload
  BY <1>8 DEF Reload
<1>9. CASE UNCHANGED <<owed, requested, honours, at, asked>>
  BY <1>9
<1>10. ASSUME NEW r \in Readers, NEW t \in Targets,
              \/ TargetRead(r, t) \/ TargetGone(r, t) \/ TargetForbidden(r, t)
              \/ TargetFails(r, t) \/ PathMissing(r, t)
       PROVE  RequestIsCarried'
  BY <1>9, <1>10 DEF TargetRead, TargetGone, TargetForbidden, TargetFails, PathMissing,
                     cache, reader, past
<1>11. CASE \/ \E listed \in SUBSET Targets : ServiceAnswered(listed)
            \/ ServiceAsks \/ ServiceReadFails \/ Publish \/ TimePasses \/ UNCHANGED vars
  BY <1>9, <1>11 DEF ServiceAnswered, ServiceAsks, ServiceReadFails, Publish, TimePasses,
                     vars, cache, reader, past
<1> QED
  BY <1>1, <1>2, <1>3, <1>4, <1>5, <1>6, <1>7, <1>8, <1>10, <1>11, StepKinds

\* A refresh a user action asked for is carried through both readers: only a
\* failed read of the settings or the end of the poll's budget drops it.
THEOREM RequestsSurvive == Spec => []RequestSurvives
<1>1. Init => RequestIsCarried
  BY DEF Init, RequestIsCarried
<1>2. RequestIsCarried => RequestSurvives
  BY DEF RequestIsCarried, RequestSurvives
<1> QED
  BY <1>1, <1>2, CarriedStep, TypeCorrect, PTL DEF Spec

-----------------------------------------------------------------------------
\* Unless one reader has overtaken the other, a refresh under way is about
\* the readers' latest list too.
OneReader ==
    ~overlapped =>
        \A t \in Targets \ keys :
            /\ status[t] = "none" /\ t \notin skip
            /\ \A r \in Readers : Reading(r) => result[r][t] = "none"

\* The cached settings name what the readers listed last, unless a service's late
\* answer has replaced them; without settings there is nothing to replace.
ListStands == ~displaced => keys \subseteq settings

LEMMA StandsStep == ListStands /\ [Next]_vars => ListStands'
<1> SUFFICES ASSUME ListStands, [Next]_vars PROVE ListStands'
  OBVIOUS
<1>1. ASSUME NEW r \in Readers, NEW listed \in SUBSET Targets,
             RefreshDue(r, listed) \/ RefreshNotDue(r, listed)
      PROVE  ListStands'
  BY <1>1 DEF RefreshDue, RefreshNotDue, Listed, ListStands
<1>2. ASSUME NEW listed \in SUBSET Targets, ServiceAnswered(listed) PROVE ListStands'
  BY <1>2 DEF ServiceAnswered, ListStands
<1>3. ASSUME NEW r \in Readers, SettingsFail(r) PROVE ListStands'
  BY <1>3 DEF SettingsFail, ListStands
<1>4. CASE Reload
  BY <1>4 DEF Reload, ListStands
<1>5. CASE UNCHANGED <<settings, keys, displaced>>
  BY <1>5 DEF ListStands
<1>6. ASSUME NEW r \in Readers, NEW t \in Targets,
             \/ TargetRead(r, t) \/ TargetGone(r, t) \/ TargetForbidden(r, t)
             \/ TargetFails(r, t) \/ PathMissing(r, t)
      PROVE  ListStands'
  BY <1>5, <1>6 DEF TargetRead, TargetGone, TargetForbidden, TargetFails, PathMissing,
                    cache, past
<1>7. ASSUME NEW r \in Readers, RefreshEnds(r) \/ RefreshFails(r) PROVE ListStands'
  BY <1>5, <1>7 DEF RefreshEnds, RefreshFails
<1>8. CASE \/ RefreshCut \/ ServiceAsks \/ ServiceReadFails \/ Publish \/ Request
           \/ TimePasses \/ UNCHANGED vars
  BY <1>5, <1>8 DEF RefreshCut, ServiceAsks, ServiceReadFails, Publish, Request, TimePasses,
                    vars, cache, past
<1> QED
  BY <1>1, <1>2, <1>3, <1>4, <1>6, <1>7, <1>8, StepKinds

LEMMA OneReaderStep == TypeOK /\ OneReader /\ [Next]_vars => OneReader'
<1> SUFFICES ASSUME TypeOK, OneReader, [Next]_vars, ~overlapped',
                    NEW t \in Targets, t \notin keys'
             PROVE  /\ status'[t] = "none" /\ t \notin skip'
                    /\ \A r \in Readers : Reading(r)' => result'[r][t] = "none"
  BY DEF OneReader
<1> USE DEF Reading
<1>1. ASSUME NEW r \in Readers, NEW listed \in SUBSET Targets, RefreshDue(r, listed)
      PROVE  /\ status'[t] = "none" /\ t \notin skip'
             /\ \A o \in Readers : at'[o] = "reading" => result'[o][t] = "none"
  <2>1. t \notin listed /\ \A o \in Readers : at[o] # "reading"
    BY <1>1 DEF RefreshDue, Listed
  <2>2. status'[t] = "none" /\ t \notin skip'
    BY <1>1, <2>1 DEF RefreshDue, Listed, Prune, SkippedNow
  <2>3. result'[r][t] = "none"
    <3> DEFINE f == [u \in Targets |-> CASE u \notin listed -> "none"
                                         [] u \in skip'      -> "refused"
                                         [] OTHER            -> "pending"]
    <3>1. f[t] = "none"
      BY <2>1, <2>2
    <3>2. result' = [result EXCEPT ![r] = f]
      BY <1>1 DEF RefreshDue
    <3> HIDE DEF f
    <3> QED
      BY <3>1, <3>2 DEF TypeOK
  <2>4. \A o \in Readers \ {r} : at'[o] # "reading"
    BY <1>1, <2>1 DEF RefreshDue, TypeOK
  <2> QED
    BY <2>2, <2>3, <2>4
<1>2. ASSUME NEW r \in Readers, NEW listed \in SUBSET Targets, RefreshNotDue(r, listed)
      PROVE  /\ status'[t] = "none" /\ t \notin skip'
             /\ \A o \in Readers : at'[o] = "reading" => result'[o][t] = "none"
  <2>1. t \notin listed /\ \A o \in Readers : at[o] # "reading"
    BY <1>2 DEF RefreshNotDue, Listed
  <2> QED
    BY <1>2, <2>1 DEF RefreshNotDue, Listed, Prune, Rest, TypeOK
<1>3. ASSUME NEW r \in Readers, NEW u \in Targets, NEW outcome,
             Pending(r, u), Record(r, u, outcome),
             /\ UNCHANGED <<keys, status, at, overlapped>>
             /\ skip' \subseteq skip \cup {u}
      PROVE  /\ status'[t] = "none" /\ t \notin skip'
             /\ \A o \in Readers : at'[o] = "reading" => result'[o][t] = "none"
  BY <1>3 DEF Pending, Record, OneReader, TypeOK
<1>4. ASSUME NEW r \in Readers, NEW u \in Targets,
             \/ TargetRead(r, u) \/ TargetGone(r, u) \/ TargetForbidden(r, u)
             \/ TargetFails(r, u)
      PROVE  /\ status'[t] = "none" /\ t \notin skip'
             /\ \A o \in Readers : at'[o] = "reading" => result'[o][t] = "none"
  BY <1>3, <1>4 DEF TargetRead, TargetGone, TargetForbidden, TargetFails, cache, past
<1>5. ASSUME NEW r \in Readers, SettingsFail(r)
      PROVE  /\ status'[t] = "none" /\ t \notin skip'
             /\ \A o \in Readers : at'[o] = "reading" => result'[o][t] = "none"
  BY <1>5 DEF SettingsFail, Nothing, Rest, TypeOK
<1>6. ASSUME NEW r \in Readers, RefreshEnds(r)
      PROVE  /\ status'[t] = "none" /\ t \notin skip'
             /\ \A o \in Readers : at'[o] = "reading" => result'[o][t] = "none"
  BY <1>6 DEF RefreshEnds, Leave, Active, Nothing, OneReader, TypeOK
<1>7. ASSUME NEW r \in Readers, RefreshFails(r)
      PROVE  /\ status'[t] = "none" /\ t \notin skip'
             /\ \A o \in Readers : at'[o] = "reading" => result'[o][t] = "none"
  BY <1>7 DEF RefreshFails, Leave, Nothing, OneReader, TypeOK
<1>8. CASE RefreshCut
  BY <1>8 DEF RefreshCut, Leave, Nothing, cache, OneReader, TypeOK, Readers
<1>9. CASE \/ \E listed \in SUBSET Targets : ServiceAnswered(listed)
           \/ ServiceAsks \/ ServiceReadFails
  BY <1>9 DEF ServiceAnswered, ServiceAsks, ServiceReadFails, cache, reader, past, OneReader
<1>10. CASE Reload
  BY <1>10 DEF Reload, Nothing
<1>11. CASE UNCHANGED <<keys, status, skip, at, result, overlapped>>
  BY <1>11 DEF OneReader
<1>12. CASE \/ \E r \in Readers, u \in Targets : PathMissing(r, u)
            \/ Publish \/ Request \/ TimePasses \/ UNCHANGED vars
  BY <1>11, <1>12 DEF PathMissing, Publish, Request, TimePasses, vars, cache, reader, past
<1> QED
  BY <1>1, <1>2, <1>4, <1>5, <1>6, <1>7, <1>8, <1>9, <1>10, <1>12, StepKinds

\* The cached inventory is about the targets the readers listed last, unless a
\* refresh has ended over a newer list; and those are the targets in the cached
\* settings, unless a service was answered after settings had been cached.
THEOREM InventoryListed == Spec => []InventoryIsListed
<1>1. Init => OneReader /\ ListStands
  BY DEF Init, Nothing, OneReader, ListStands, Reading
<1>2. OneReader /\ ListStands => InventoryIsListed
  BY DEF OneReader, ListStands, InventoryIsListed
<1> QED
  BY <1>1, <1>2, OneReaderStep, StandsStep, TypeCorrect, PTL DEF Spec
=============================================================================
