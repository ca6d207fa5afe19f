------------------------- MODULE SnapshotWritesProofs -------------------------
(***************************************************************************)
(* Proofs about SnapshotWrites, for any tasks, targets, firmwares, inputs  *)
(* and bounds: types (a body is a setting whatever was asked for), that    *)
(* what is reported has happened, when writes are switched off, and that a *)
(* write changes what was asked for and nothing else.                      *)
(***************************************************************************)
EXTENDS SnapshotWrites, FiniteSetTheorems, TLAPS

Jobs == FreeJobs \cup FetchJobs \cup CallJobs

\* The first path of this attempt has refused PUT, or the target is gone.
FirstPathRefused(j, present, offers) ==
    j.target \notin present \/ <<"PUT", 1>> \notin offers

\* What holds of a job: an attempt without errors has applied nothing, so that
\* an error is the only reason for anything to be applied before the end.
UnderWay(j, present, offers) ==
    /\ j.applied <= (IF j.again THEN 1 ELSE 0)
                       + (IF j.step = "call" /\ ~j.unsupported THEN j.path - 1 ELSE 0)
    /\ j.doubtful \/ j.applied = 0
    /\ j.op = "settings" => j.method \in {"PUT", "DELETE"}
    /\ j.step = "call" /\ j.method = "PUT" /\ j.unsupported /\ j.path = 2 =>
          FirstPathRefused(j, present, offers)

Reported(j) ==
    ~j.doubtful =>
        /\ j.result = "done" => j.applied = 1
        /\ j.result \in {"unsupported", "permission"} => j.applied = 0
        /\ j.applied <= 1

Sound(j, present, offers) ==
    /\ j.step \in {"auth", "call"} => UnderWay(j, present, offers)
    /\ j.step = "free" => Reported(j)

Inv == TypeOK /\ \A k \in Tasks : Sound(job[k], existing, served)

\* The disjuncts of Next, one alternative each.
LEMMA StepKinds ==
    ASSUME Next
    PROVE  \/ \E k \in Tasks, t \in Targets : ButtonPressed(k, t)
           \/ \E k \in Tasks, t \in Targets, ask \in EntityAsks : EntityWrites(k, t, ask)
           \/ \E k \in Tasks, wanted \in SUBSET Targets : ServiceCalled(k, "create", KeepAll, wanted)
           \/ \E k \in Tasks, wanted \in SUBSET Targets : ServiceFetches(k, "create", KeepAll, wanted)
           \/ \E k \in Tasks, wanted \in SUBSET Targets, ask \in ServiceAsks :
                 ServiceCalled(k, "settings", ask, wanted)
           \/ \E k \in Tasks, wanted \in SUBSET Targets, ask \in ServiceAsks :
                 ServiceFetches(k, "settings", ask, wanted)
           \/ \E k \in Tasks : Fetched(k)
           \/ \E k \in Tasks, result \in {"permission", "failed"} : FetchFails(k, result)
           \/ \E k \in Tasks, result \in {"permission", "failed"} : AuthenticationFails(k, result)
           \/ \E k \in Tasks : Authenticated(k)
           \/ \E k \in Tasks : RefusedByFlag(k)
           \/ \E k \in Tasks : AnswerOk(k)
           \/ \E k \in Tasks : UnavailableHere(k)
           \/ \E k \in Tasks : CreationUnavailable(k)
           \/ \E k \in Tasks : DeleteUnavailable(k)
           \/ \E k \in Tasks : PutUnavailable(k)
           \/ \E k \in Tasks : UnavailableAfterError(k)
           \/ \E k \in Tasks : AnswerError(k)
           \/ \E k \in Tasks : AnswerExpired(k)
           \/ \E k \in Tasks : AnswerExpiredAgain(k)
           \/ \E k \in Tasks : NoAnswer(k)
           \/ RefreshReads
           \/ RefreshFails
           \/ \E t \in Targets : ConsoleEdits(t)
           \/ \E t \in Targets : ConsoleRemoves(t)
<1>1. \A wanted \in {Matching(filter) : filter \in Filters} : wanted \in SUBSET Targets
  BY DEF Matching
<1>2. ASSUME NEW k \in Tasks, Begin(k)
      PROVE  \/ \E t \in Targets : ButtonPressed(k, t)
             \/ \E t \in Targets, ask \in EntityAsks : EntityWrites(k, t, ask)
             \/ \E wanted \in SUBSET Targets : ServiceCalled(k, "create", KeepAll, wanted)
             \/ \E wanted \in SUBSET Targets : ServiceFetches(k, "create", KeepAll, wanted)
             \/ \E wanted \in SUBSET Targets, ask \in ServiceAsks :
                   ServiceCalled(k, "settings", ask, wanted)
             \/ \E wanted \in SUBSET Targets, ask \in ServiceAsks :
                   ServiceFetches(k, "settings", ask, wanted)
  BY <1>1, <1>2 DEF Begin
<1> QED BY <1>2 DEF Next, Proceed, Failed

(***************************************************************************)
(* What callers ask for, and the body made of it.                          *)
(***************************************************************************)

LEMMA AskTypes == KeepAll \in Ask /\ EntityAsks \subseteq Ask /\ ServiceAsks \subseteq Ask
<1>1. KeepAll \in Ask
  BY DEF KeepAll, Ask
<1>2. Times \subseteq Clock
  <2>1. ASSUME NEW text \in TimeInputs, ScheduleTimeValid(text) PROVE ScheduleTimeParts(text) \in Clock
    BY <2>1 DEF ScheduleTimeValid, ScheduleTimeParts
  <2> QED BY <2>1 DEF Times
<1>3. WeekdayChoices \subseteq SUBSET Weekdays /\ MonthdayChoices \subseteq SUBSET Monthdays
  BY DEF WeekdayChoices, MonthdayChoices
<1>4. Limits \subseteq MIN_SNAPSHOT_LIMIT .. MAX_SNAPSHOT_LIMIT
  <2>1. LimitInputs \subseteq Int
    BY WritesAssumption
  <2>2. \A n \in Limits : n \in Int /\ n >= 1 /\ n <= 256
    BY <2>1 DEF Limits, MIN_SNAPSHOT_LIMIT, MAX_SNAPSHOT_LIMIT
  <2>3. \A n \in Int : n >= 1 /\ n <= 256 => n \in 1 .. 256
    OBVIOUS
  <2> QED BY <2>2, <2>3 DEF MIN_SNAPSHOT_LIMIT, MAX_SNAPSHOT_LIMIT
<1>5. LimitAsks \subseteq Ask
  BY <1>1, <1>4 DEF LimitAsks, Ask
<1>6. EntityAsks \subseteq Ask
  <2>1. ASSUME NEW on \in BOOLEAN PROVE [KeepAll EXCEPT !.enabled = on] \in Ask
    BY <1>1 DEF Ask
  <2>2. ASSUME NEW f \in SNAPSHOT_SCHEDULE_OPTIONS PROVE [KeepAll EXCEPT !.frequency = f] \in Ask
    BY <1>1 DEF Ask
  <2>3. ASSUME NEW d \in SUBSET Weekdays
        PROVE  [KeepAll EXCEPT !.frequency = "Weekly", !.weekdays = d] \in Ask
    BY DEF KeepAll, Ask, SNAPSHOT_SCHEDULE_OPTIONS
  <2>4. ASSUME NEW d \in SUBSET Monthdays
        PROVE  [KeepAll EXCEPT !.frequency = "Monthly", !.monthdays = d] \in Ask
    BY DEF KeepAll, Ask, SNAPSHOT_SCHEDULE_OPTIONS
  <2>5. ASSUME NEW t \in Clock PROVE [KeepAll EXCEPT !.time = t] \in Ask
    BY <1>1 DEF Ask
  <2> QED BY <1>2, <1>3, <1>5, <2>1, <2>2, <2>3, <2>4, <2>5 DEF EntityAsks
<1>7. ServiceAsks \subseteq Ask
  BY <1>2, <1>3, <1>5 DEF ServiceAsks, Ask
<1> QED BY <1>1, <1>6, <1>7

LEMMA DaysType ==
    ASSUME NEW range \in {Weekdays, Monthdays}, NEW asked \in {Keep} \cup SUBSET range, NEW current
    PROVE  ScheduleDays(asked, current, range) \in SUBSET range
<1>1. 1 \in range
  BY DEF Weekdays, Monthdays
<1> QED BY <1>1 DEF ScheduleDays, Given, FirstNonEmpty, ExistingDays

LEMMA ConstantsApart ==
    /\ Missing \notin BOOLEAN /\ Missing \notin Clock
    /\ Missing \notin {"custom"} \cup SNAPSHOT_SCHEDULE_OPTIONS
BY WritesAssumption

\* The frequency that is read has a name or is the one without.
LEMMA FrequencyType ==
    ASSUME NEW policy \in Policy
    PROVE  Frequency(policy) \in {"custom"} \cup SNAPSHOT_SCHEDULE_OPTIONS
<1>1. FrequencyOfDays(policy) \in SNAPSHOT_SCHEDULE_OPTIONS
  BY DEF FrequencyOfDays, SNAPSHOT_SCHEDULE_OPTIONS
<1>2. policy.frequency # Missing => policy.frequency \in {"custom"} \cup SNAPSHOT_SCHEDULE_OPTIONS
  BY DEF Policy
<1>3. CASE policy.enable = FALSE
  BY <1>3 DEF Frequency, SNAPSHOT_SCHEDULE_OPTIONS
<1>4. CASE policy.enable # FALSE /\ policy.frequency # Missing
  BY <1>2, <1>4 DEF Frequency
<1>5. CASE policy.enable # FALSE /\ policy.frequency = Missing
  BY <1>1, <1>5 DEF Frequency
<1> QED BY <1>3, <1>4, <1>5

\* Whatever the console holds, it is read as a setting.
LEMMA ItemType ==
    ASSUME NEW policy \in Policy
    PROVE  SettingFromItem(policy) \in Setting
<1>. DEFINE setting == SettingFromItem(policy)
<1>1. setting.enabled \in BOOLEAN
  <2>1. policy.enabled # Missing => policy.enabled \in BOOLEAN
    BY DEF Policy
  <2>2. policy.max \in Nat
    BY DEF Policy
  <2>3. (policy.max > 0) \in BOOLEAN
    BY <2>2
  <2>4. setting.enabled = IF policy.enabled = Missing THEN policy.max > 0 ELSE policy.enabled
    BY DEF SettingFromItem
  <2>5. CASE policy.enabled = Missing
    BY <2>3, <2>4, <2>5, Zenon
  <2>6. CASE policy.enabled # Missing
    BY <2>1, <2>4, <2>6, Zenon
  <2> QED BY <2>5, <2>6
<1>2. setting.enable \in BOOLEAN
  BY Zenon DEF SettingFromItem
<1>3. setting.frequency \in {"custom"} \cup SNAPSHOT_SCHEDULE_OPTIONS
  BY FrequencyType DEF SettingFromItem
<1>4. /\ setting.max \in Nat /\ setting.time \in {Missing} \cup Clock
      /\ setting.weekdays \in SUBSET Int /\ setting.monthdays \in SUBSET Int
  BY DEF SettingFromItem, Policy
<1>5. setting = [enabled |-> setting.enabled, max |-> setting.max, enable |-> setting.enable,
                 frequency |-> setting.frequency, weekdays |-> setting.weekdays,
                 monthdays |-> setting.monthdays, time |-> setting.time]
  BY DEF SettingFromItem
<1>. HIDE DEF setting
<1>6. setting \in Setting
  BY <1>1, <1>2, <1>3, <1>4, <1>5 DEF Setting
<1> QED BY <1>6 DEF setting

\* Whatever is asked for, the body of a write is something the console can hold.
LEMMA BodyType ==
    ASSUME NEW setting \in Setting, NEW ask \in Ask
    PROVE  WriteBody(setting, ask) \in Policy
<1>. DEFINE enabled == Given(ask.enabled, setting.enabled)
            frequency == Given(ask.frequency, setting.frequency)
            wanted == WantedLimit(setting, ask, enabled)
            body == WriteBody(setting, ask)
<1>1. enabled \in BOOLEAN
  BY Zenon DEF Given, Setting, Ask
<1>2. wanted \in Nat
  <2>1. setting.max \in Nat /\ (ask.limit # Keep => ask.limit \in Nat)
    BY DEF Setting, Ask, MIN_SNAPSHOT_LIMIT, MAX_SNAPSHOT_LIMIT
  <2>2. CASE ask.limit # Keep
    BY <2>1, <2>2 DEF WantedLimit
  <2>3. CASE ask.limit = Keep /\ setting.max >= MIN_SNAPSHOT_LIMIT
    BY <2>1, <2>3 DEF WantedLimit
  <2>4. CASE ask.limit = Keep /\ ~(setting.max >= MIN_SNAPSHOT_LIMIT)
    BY <2>1, <2>4 DEF WantedLimit, DEFAULT_SNAPSHOT_LIMIT, MIN_SNAPSHOT_LIMIT
  <2> QED BY <2>2, <2>3, <2>4
<1>3. body.time \in Clock
  <2>1. <<0, 0>> \in Clock
    BY DEF Clock
  <2>2. setting.time \in {Missing} \cup Clock /\ ask.time \in {Keep} \cup Clock
    BY DEF Setting, Ask
  <2> QED BY <2>1, <2>2 DEF WriteBody, Given
<1>4. ScheduleDays(ask.weekdays, setting.weekdays, Weekdays) \in SUBSET Weekdays
  BY DaysType DEF Ask
<1>5. ScheduleDays(ask.monthdays, setting.monthdays, Monthdays) \in SUBSET Monthdays
  BY DaysType DEF Ask
<1>6. body.enabled \in BOOLEAN
  BY <1>1, Zenon DEF WriteBody
<1>7. body.max \in Nat
  <2>1. body.max = IF wanted > MAX_SNAPSHOT_LIMIT THEN MAX_SNAPSHOT_LIMIT ELSE wanted
    BY DEF WriteBody
  <2>. HIDE DEF body, wanted
  <2> QED BY <1>2, <2>1 DEF MAX_SNAPSHOT_LIMIT
<1>8. body.enable \in BOOLEAN
  <2>1. body.enable = (frequency # "Never" /\ (ask.frequency # Keep \/ setting.enable))
    BY DEF WriteBody
  <2>. HIDE DEF body, frequency
  <2> QED BY <2>1, Zenon
<1>9. body.weekdays \in SUBSET Int
  <2>0. Weekdays \subseteq Int /\ Star \in Int
    BY DEF Weekdays, Star
  <2>1. CASE frequency = "Weekly"
    BY <1>4, <2>0, <2>1 DEF WriteBody
  <2>2. CASE frequency = "Monthly"
    BY <2>2 DEF WriteBody
  <2>3. CASE frequency \notin {"Weekly", "Monthly"}
    BY <2>0, <2>3 DEF WriteBody
  <2> QED BY <2>1, <2>2, <2>3
<1>10. body.monthdays \in SUBSET Int
  <2>1. Monthdays \subseteq Int
    BY DEF Monthdays
  <2> QED BY <1>5, <2>1 DEF WriteBody
<1>11. body.frequency = Missing /\ body.daily = TRUE
  BY Zenon DEF WriteBody
<1>12. body = [enabled |-> body.enabled, max |-> body.max, enable |-> body.enable,
               frequency |-> body.frequency, daily |-> body.daily,
               weekdays |-> body.weekdays, monthdays |-> body.monthdays, time |-> body.time]
  BY DEF WriteBody
<1>. HIDE DEF body
<1>13. body \in Policy
  BY <1>3, <1>6, <1>7, <1>8, <1>9, <1>10, <1>11, <1>12 DEF Policy
<1> QED BY <1>13 DEF body

(***************************************************************************)
(* Jobs, one at a time.                                                    *)
(***************************************************************************)

LEMMA ConstantTypes ==
    /\ \A t \in Targets : Paths[t] \in {1, 2} /\ TypeOf[t] \in Types
    /\ Edits \subseteq Policy
    /\ MaxCalls \in Nat /\ MaxEdits \in Nat
    /\ Nothing \notin Setting
BY WritesAssumption

LEMMA JobKinds ==
    ASSUME TypeOK, NEW k \in Tasks
    PROVE  /\ job[k].step = "free" => job[k] \in FreeJobs
           /\ job[k].step = "fetch" => job[k] \in FetchJobs
           /\ job[k].step \in {"auth", "call"} => job[k] \in CallJobs
BY DEF TypeOK, FreeJobs, FetchJobs, CallJobs

\* One job changes to a sound one: all are sound.
LEMMA JobsFollow ==
    ASSUME Inv, NEW k \in Tasks, NEW j \in Jobs, Sound(j, existing, served),
           job' = [job EXCEPT ![k] = j], UNCHANGED <<existing, served>>
    PROVE  /\ job' \in [Tasks -> Jobs]
           /\ \A l \in Tasks : Sound(job'[l], existing', served')
BY DEF Inv, TypeOK, Jobs

\* A call goes to the client.
LEMMA CalledSound ==
    ASSUME NEW op \in Operations, NEW ask \in Ask, NEW t \in Targets, NEW base \in Setting
    PROVE  Called(op, ask, t, base) \in Jobs /\ Sound(Called(op, ask, t, base), existing, served)
<1>1. Called(op, ask, t, base) \in CallJobs
  BY DEF Called, CallJobs
<1>2. Sound(Called(op, ask, t, base), existing, served)
  BY DEF Called, Sound, UnderWay
<1> QED BY <1>1, <1>2 DEF Jobs

\* A call ends with what it has applied so far, or with one more.
LEMMA EndedSound ==
    ASSUME NEW result \in Results, NEW made \in 0 .. 3, NEW doubt \in BOOLEAN,
           Reported([step |-> "free", result |-> result, applied |-> made, doubtful |-> doubt])
    PROVE  LET j == [step |-> "free", result |-> result, applied |-> made, doubtful |-> doubt]
           IN  j \in Jobs /\ Sound(j, existing, served)
BY DEF Jobs, FreeJobs, Sound

\* What a call under way has applied.
LEMMA Applied ==
    ASSUME Inv, NEW k \in Tasks, job[k].step \in {"auth", "call"}
    PROVE  /\ job[k] \in CallJobs
           /\ job[k].applied \in 0 .. 2
           /\ UnderWay(job[k], existing, served)
           /\ job[k].doubtful \in BOOLEAN
           /\ ~job[k].doubtful => job[k].applied = 0
<1>1. job[k] \in CallJobs /\ UnderWay(job[k], existing, served)
  BY JobKinds DEF Inv, Sound
<1>2. job[k].doubtful \in BOOLEAN /\ job[k].applied \in 0 .. 2
  BY <1>1 DEF CallJobs
<1>3. ~job[k].doubtful => job[k].applied = 0
  BY <1>1 DEF UnderWay
<1> QED BY <1>1, <1>2, <1>3

\* A call that ends without a further effect.
LEMMA EndKeeps ==
    ASSUME Inv, NEW k \in Tasks, job[k].step \in {"auth", "call"},
           NEW result \in {"unsupported", "permission", "failed"}, Ended(k, result),
           UNCHANGED <<existing, served>>
    PROVE  /\ job' \in [Tasks -> Jobs]
           /\ \A l \in Tasks : Sound(job'[l], existing', served')
<1>. DEFINE j == [step |-> "free", result |-> result, applied |-> job[k].applied,
                  doubtful |-> job[k].doubtful]
<1>1. job[k].applied \in 0 .. 3 /\ job[k].doubtful \in BOOLEAN
      /\ (~job[k].doubtful => job[k].applied = 0)
  BY Applied
<1>2. Reported(j)
  BY <1>1 DEF Reported
<1>3. j \in Jobs /\ Sound(j, existing, served)
  BY <1>1, <1>2, EndedSound DEF Results
<1>4. job' = [job EXCEPT ![k] = j]
  BY DEF Ended
<1> QED BY <1>3, <1>4, JobsFollow

(***************************************************************************)
(* Steps.                                                                  *)
(***************************************************************************)

LEMMA ReadType ==
    ASSUME console \in [Targets -> Policy]
    PROVE  /\ Read \in [Targets -> Setting \cup {Nothing}]
           /\ \A t \in existing \cap Targets : Read[t] \in Setting
<1>1. \A t \in Targets : SettingFromItem(console[t]) \in Setting
  BY ItemType
<1> QED BY <1>1 DEF Read

LEMMA ConsoleType ==
    ASSUME TypeOK, NEW j \in CallJobs, CarryOut(j)
    PROVE  console' \in [Targets -> Policy]
<1>1. WriteBody(j.base, j.ask) \in Policy /\ NoSetting \in Policy
  <2>1. NoSetting \in Policy
    BY DEF NoSetting, Policy
  <2> QED BY <2>1, BodyType DEF CallJobs
<1>2. CASE j.method = "PUT"
  BY <1>1, <1>2 DEF CarryOut, TypeOK
<1>3. CASE j.method = "DELETE"
  BY <1>1, <1>3 DEF CarryOut, TypeOK
<1>4. CASE j.method \notin {"PUT", "DELETE"}
  BY <1>4 DEF CarryOut, TypeOK
<1> QED BY <1>2, <1>3, <1>4

LEMMA FlagType ==
    ASSUME TypeOK, NEW op \in Operations, NEW t \in Targets, NEW value \in {"yes", "no"},
           SetFlag(op, t, value)
    PROVE  flag' \in [Operations \X Types -> {"unknown", "yes", "no"}]
BY ConstantTypes DEF SetFlag, TypeOK

\* A call begins.
LEMMA MayCallType ==
    ASSUME TypeOK, NEW k, MayCall(k)
    PROVE  calls' \in 0 .. MaxCalls
BY ConstantTypes DEF MayCall, TypeOK

Sounds == \A k \in Tasks : Sound(job[k], existing, served)

\* The job may change, but nothing else of what is shared.
LEMMA JobStep ==
    ASSUME Inv, job' \in [Tasks -> Jobs], calls' \in 0 .. MaxCalls,
           UNCHANGED <<console, existing, served, cached, flag, edits>>
    PROVE  TypeOK'
BY DEF Inv, TypeOK, Jobs

LEMMA BeginStep ==
    ASSUME Inv, NEW k \in Tasks,
           \/ \E t \in Targets : ButtonPressed(k, t)
           \/ \E t \in Targets, ask \in EntityAsks : EntityWrites(k, t, ask)
           \/ \E wanted \in SUBSET Targets, op \in Operations, ask \in {KeepAll} \cup ServiceAsks :
                 ServiceCalled(k, op, ask, wanted) \/ ServiceFetches(k, op, ask, wanted)
    PROVE  TypeOK' /\ Sounds'
<1>1. ASSUME NEW op \in Operations, NEW ask \in Ask, NEW t \in Listed,
             job' = [job EXCEPT ![k] = Called(op, ask, t, cached[t])], MayCall(k),
             UNCHANGED <<console, existing, served, cached, flag, edits>>
      PROVE  TypeOK' /\ Sounds'
  <2>1. t \in Targets /\ cached[t] \in Setting
    BY DEF Listed, Inv, TypeOK
  <2>2. job' \in [Tasks -> Jobs] /\ Sounds'
    BY <1>1, <2>1, CalledSound, JobsFollow DEF Sounds
  <2>3. calls' \in 0 .. MaxCalls
    BY <1>1, MayCallType DEF Inv
  <2> QED BY <1>1, <2>2, <2>3, JobStep
<1>2. ASSUME NEW t \in Targets, ButtonPressed(k, t) PROVE TypeOK' /\ Sounds'
  BY <1>1, <1>2, AskTypes DEF ButtonPressed, Operations
<1>3. ASSUME NEW t \in Targets, NEW ask \in EntityAsks, EntityWrites(k, t, ask)
      PROVE  TypeOK' /\ Sounds'
  BY <1>1, <1>3, AskTypes DEF EntityWrites, Operations
<1>4. ASSUME NEW wanted \in SUBSET Targets, NEW op \in Operations,
             NEW ask \in {KeepAll} \cup ServiceAsks, ServiceCalled(k, op, ask, wanted)
      PROVE  TypeOK' /\ Sounds'
  <2>1. PICK t \in Targets : /\ Listed \cap wanted = {t}
                             /\ job' = [job EXCEPT ![k] = Called(op, ask, t, cached[t])]
    BY <1>4 DEF ServiceCalled, Select
  <2>2. t \in Listed
    BY <2>1
  <2> QED BY <1>1, <1>4, <2>1, <2>2, AskTypes DEF ServiceCalled
<1>5. ASSUME NEW wanted \in SUBSET Targets, NEW op \in Operations,
             NEW ask \in {KeepAll} \cup ServiceAsks, ServiceFetches(k, op, ask, wanted)
      PROVE  TypeOK' /\ Sounds'
  <2>. DEFINE j == [step |-> "fetch", op |-> op, ask |-> ask, wanted |-> wanted]
  <2>1. j \in Jobs
    BY AskTypes DEF Jobs, FetchJobs
  <2>2. Sound(j, existing, served)
    BY DEF Sound
  <2>3. /\ job' = [job EXCEPT ![k] = j] /\ MayCall(k)
        /\ UNCHANGED <<console, existing, served, cached, flag, edits>>
    BY <1>5 DEF ServiceFetches
  <2>4. job' \in [Tasks -> Jobs] /\ Sounds'
    BY <2>1, <2>2, <2>3, JobsFollow DEF Sounds
  <2>5. calls' \in 0 .. MaxCalls
    BY <2>3, MayCallType DEF Inv
  <2> QED BY <2>3, <2>4, <2>5, JobStep
<1> QED BY <1>2, <1>3, <1>4, <1>5

\* A job that has ended without doing anything.
LEMMA IdleSound ==
    ASSUME NEW result \in {"permission", "failed"}
    PROVE  LET j == [step |-> "free", result |-> result, applied |-> 0, doubtful |-> FALSE]
           IN  j \in Jobs /\ Sound(j, existing, served)
<1>1. Reported([step |-> "free", result |-> result, applied |-> 0, doubtful |-> FALSE])
  BY DEF Reported
<1> QED BY <1>1 DEF Jobs, FreeJobs, Sound, Results

LEMMA FetchStep ==
    ASSUME Inv, NEW k \in Tasks,
           Fetched(k) \/ \E result \in {"permission", "failed"} : FetchFails(k, result)
    PROVE  TypeOK' /\ Sounds'
<1>0. job[k] \in FetchJobs
  BY JobKinds DEF Inv, Fetched, FetchFails
<1>1. CASE Fetched(k)
  <2>. DEFINE matching == existing \cap job[k].wanted
              target == CHOOSE t \in matching : TRUE
              idle == [step |-> "free", result |-> "failed", applied |-> 0, doubtful |-> FALSE]
              j == IF Cardinality(matching) = 1
                     THEN Called(job[k].op, job[k].ask, target, Read[target]) ELSE idle
  <2>1. /\ job' = [job EXCEPT ![k] = j] /\ cached' = Read
        /\ UNCHANGED <<console, existing, served, flag, calls, edits>>
    BY <1>1 DEF Fetched
  <2>2. idle \in Jobs /\ Sound(idle, existing, served)
    BY IdleSound
  <2>3. Cardinality(matching) = 1 => target \in existing \cap Targets
    <3>1. Cardinality(matching) = 1 => matching # {}
      BY FS_EmptySet
    <3>2. matching \subseteq Targets
      BY DEF Inv, TypeOK
    <3> QED BY <3>1, <3>2
  <2>. HIDE DEF idle, target, matching
  <2>4. j \in Jobs /\ Sound(j, existing, served)
    <3>1. CASE Cardinality(matching) = 1
      <4>1. Read[target] \in Setting
        BY <2>3, <3>1, ReadType DEF Inv, TypeOK
      <4> QED BY <1>0, <2>3, <3>1, <4>1, CalledSound DEF FetchJobs
    <3>2. CASE Cardinality(matching) # 1
      BY <2>2, <3>2
    <3> QED BY <3>1, <3>2
  <2>. HIDE DEF j
  <2>5. job' \in [Tasks -> Jobs] /\ Sounds'
    BY <2>1, <2>4, JobsFollow DEF Sounds
  <2> QED BY <2>1, <2>5, ReadType DEF Inv, TypeOK, Jobs
<1>2. ASSUME NEW result \in {"permission", "failed"}, FetchFails(k, result) PROVE TypeOK' /\ Sounds'
  <2>1. job' \in [Tasks -> Jobs] /\ Sounds'
    BY <1>2, IdleSound, JobsFollow DEF FetchFails, Sounds
  <2> QED BY <1>2, <2>1, JobStep DEF FetchFails, Inv, TypeOK
<1> QED BY <1>1, <1>2

\* A call under way goes on as `j`.
LEMMA CallGoesOn ==
    ASSUME Inv, NEW k \in Tasks, NEW j \in CallJobs, UnderWay(j, existing, served),
           job' = [job EXCEPT ![k] = j],
           UNCHANGED <<console, existing, served, cached, flag, calls, edits>>
    PROVE  TypeOK' /\ Sounds'
<1>1. j \in Jobs /\ Sound(j, existing, served)
  BY DEF Jobs, Sound, CallJobs
<1>2. job' \in [Tasks -> Jobs] /\ Sounds'
  BY <1>1, JobsFollow DEF Sounds
<1> QED BY <1>2, JobStep DEF Inv, TypeOK

LEMMA NextPathSound ==
    ASSUME Inv, NEW k \in Tasks, job[k].step = "call", NEW unsupported \in BOOLEAN,
           NEW made \in 0 .. 2, NEW doubt \in BOOLEAN, NextPath(k, unsupported, made, doubt),
           made <= (IF job[k].again THEN 1 ELSE 0) + (IF ~unsupported THEN 1 ELSE 0),
           doubt \/ made = 0,
           job[k].method = "PUT" /\ unsupported => FirstPathRefused(job[k], existing, served),
           UNCHANGED <<existing, served>>
    PROVE  job' \in [Tasks -> Jobs] /\ Sounds'
<1>. DEFINE j == [job[k] EXCEPT !.path = 2, !.unsupported = unsupported,
                               !.applied = made, !.doubtful = doubt]
<1>1. job[k] \in CallJobs /\ UnderWay(job[k], existing, served)
  BY Applied
<1>2. /\ j \in CallJobs
      /\ j.step = "call" /\ j.again = job[k].again /\ j.op = job[k].op
      /\ j.method = job[k].method /\ j.target = job[k].target
      /\ j.path = 2 /\ j.unsupported = unsupported /\ j.applied = made /\ j.doubtful = doubt
  BY <1>1 DEF CallJobs
<1>3. job' = [job EXCEPT ![k] = j]
  BY DEF NextPath
<1>. HIDE DEF j
<1>4. UnderWay(j, existing, served)
  BY <1>1, <1>2 DEF UnderWay, FirstPathRefused
<1>5. j \in Jobs /\ Sound(j, existing, served)
  BY <1>2, <1>4 DEF Jobs, Sound
<1> QED BY <1>3, <1>5, JobsFollow DEF Sounds

LEMMA AuthStep ==
    ASSUME Inv, NEW k \in Tasks,
           \/ Authenticated(k)
           \/ RefusedByFlag(k)
           \/ \E result \in {"permission", "failed"} : AuthenticationFails(k, result)
    PROVE  TypeOK' /\ Sounds'
<1>1. job[k].step = "auth"
  BY DEF Authenticated, RefusedByFlag, AuthenticationFails
<1>2. job[k] \in CallJobs /\ UnderWay(job[k], existing, served)
  BY <1>1, Applied
<1>3. CASE Authenticated(k)
  <2>. DEFINE j == [job[k] EXCEPT !.step = "call", !.method = FirstMethod(job[k]),
                                  !.path = 1, !.unsupported = TRUE]
  <2>1. /\ FirstMethod(job[k]) \in {"PUT", "DELETE", "POST"}
        /\ job[k].op = "settings" => FirstMethod(job[k]) \in {"PUT", "DELETE"}
    BY <1>2 DEF FirstMethod, CallJobs, Operations
  <2>2. /\ j \in CallJobs
        /\ j.step = "call" /\ j.path = 1 /\ j.unsupported /\ j.method = FirstMethod(job[k])
        /\ j.again = job[k].again /\ j.op = job[k].op
        /\ j.applied = job[k].applied /\ j.doubtful = job[k].doubtful
    BY <1>2, <2>1 DEF CallJobs
  <2>3. UnderWay(j, existing, served)
    <3>. HIDE DEF j
    <3> QED BY <1>1, <1>2, <2>1, <2>2 DEF UnderWay
  <2> QED BY <1>3, <2>2, <2>3, CallGoesOn DEF Authenticated
<1>4. CASE RefusedByFlag(k)
  <2>1. job' \in [Tasks -> Jobs] /\ Sounds'
    BY <1>1, <1>4, EndKeeps DEF RefusedByFlag, Sounds
  <2> QED BY <1>4, <2>1, JobStep DEF RefusedByFlag, Inv, TypeOK
<1>5. ASSUME NEW result \in {"permission", "failed"}, AuthenticationFails(k, result)
      PROVE  TypeOK' /\ Sounds'
  <2>1. job' \in [Tasks -> Jobs] /\ Sounds'
    BY <1>1, <1>5, EndKeeps DEF AuthenticationFails, Sounds
  <2> QED BY <1>5, <2>1, JobStep DEF AuthenticationFails, Inv, TypeOK
<1> QED BY <1>3, <1>4, <1>5

LEMMA CallStep ==
    ASSUME Inv, NEW k \in Tasks, job[k].step = "call",
           \/ AnswerOk(k) \/ UnavailableHere(k) \/ CreationUnavailable(k) \/ DeleteUnavailable(k)
           \/ PutUnavailable(k) \/ UnavailableAfterError(k) \/ AnswerError(k)
           \/ AnswerExpired(k) \/ AnswerExpiredAgain(k) \/ NoAnswer(k)
    PROVE  TypeOK' /\ Sounds'
<1>1. /\ job[k] \in CallJobs
      /\ UnderWay(job[k], existing, served)
      /\ job[k].applied \in 0 .. 2
      /\ job[k].doubtful \in BOOLEAN
      /\ ~job[k].doubtful => job[k].applied = 0
      /\ job[k].target \in Targets
      /\ job[k].op \in Operations
      /\ job[k].path \in {1, 2}
      /\ job[k].unsupported \in BOOLEAN
  BY Applied DEF CallJobs
<1>2. job[k].path < Paths[job[k].target] => job[k].path = 1
  BY <1>1, ConstantTypes
<1>3. /\ job[k].applied <= 2
      /\ job[k].path = 1 => job[k].applied <= (IF job[k].again THEN 1 ELSE 0)
      /\ job[k].unsupported => job[k].applied <= (IF job[k].again THEN 1 ELSE 0)
  BY <1>1 DEF UnderWay
<1>4. job[k].applied + 1 \in 0 .. 3
  BY <1>1
<1>5. TypeOK
  BY DEF Inv
<1>6. CASE AnswerOk(k)
  <2>1. Reported([step |-> "free", result |-> "done", applied |-> job[k].applied + 1,
                  doubtful |-> job[k].doubtful])
    BY <1>1 DEF Reported
  <2>2. job' \in [Tasks -> Jobs] /\ Sounds'
    BY <1>1, <1>4, <1>6, <2>1, EndedSound, JobsFollow DEF AnswerOk, Results, Sounds
  <2>3. console' \in [Targets -> Policy]
    BY <1>1, <1>5, <1>6, ConsoleType DEF AnswerOk
  <2>4. flag' \in [Operations \X Types -> {"unknown", "yes", "no"}]
    BY <1>1, <1>5, <1>6, FlagType DEF AnswerOk
  <2> QED BY <1>5, <1>6, <2>2, <2>3, <2>4 DEF AnswerOk, TypeOK, Jobs
<1>7. CASE UnavailableHere(k)
  <2>1. job[k].method = "PUT" => FirstPathRefused(job[k], existing, served)
    BY <1>2, <1>7 DEF UnavailableHere, Unavailable, NextPath, Serves, FirstPathRefused
  <2>2. job[k].applied <= (IF job[k].again THEN 1 ELSE 0) + (IF ~job[k].unsupported THEN 1 ELSE 0)
    BY <1>1, <1>2, <1>3, <1>7 DEF UnavailableHere, NextPath
  <2>3. job' \in [Tasks -> Jobs] /\ Sounds'
    BY <1>1, <1>7, <2>1, <2>2, NextPathSound DEF UnavailableHere
  <2>4. flag' \in [Operations \X Types -> {"unknown", "yes", "no"}]
    <3>1. CASE SetFlag("create", job[k].target, "no")
      BY <1>1, <1>5, <3>1, FlagType DEF Operations
    <3>2. CASE UNCHANGED flag
      BY <1>5, <3>2 DEF TypeOK
    <3> QED BY <1>7, <3>1, <3>2 DEF UnavailableHere
  <2> QED BY <1>5, <1>7, <2>3, <2>4 DEF UnavailableHere, TypeOK, Jobs
<1>8. CASE CreationUnavailable(k)
  <2>1. job' \in [Tasks -> Jobs] /\ Sounds'
    BY <1>8, EndKeeps DEF CreationUnavailable, Sounds
  <2>2. flag' \in [Operations \X Types -> {"unknown", "yes", "no"}]
    BY <1>1, <1>5, <1>8, FlagType DEF CreationUnavailable, Operations
  <2> QED BY <1>5, <1>8, <2>1, <2>2 DEF CreationUnavailable, TypeOK, Jobs
<1>9. CASE DeleteUnavailable(k)
  <2>. DEFINE j == [job[k] EXCEPT !.method = "PUT", !.path = 1, !.unsupported = TRUE]
  <2>1. /\ j \in CallJobs
        /\ j.step = "call" /\ j.path = 1 /\ j.unsupported /\ j.method = "PUT"
        /\ j.again = job[k].again /\ j.op = job[k].op
        /\ j.applied = job[k].applied /\ j.doubtful = job[k].doubtful
    BY <1>1 DEF CallJobs
  <2>2. job[k].unsupported
    BY <1>9 DEF DeleteUnavailable
  <2>3. UnderWay(j, existing, served)
    <3>. HIDE DEF j
    <3> QED BY <1>1, <1>3, <2>1, <2>2 DEF UnderWay
  <2> QED BY <1>9, <2>1, <2>3, CallGoesOn DEF DeleteUnavailable
<1>10. CASE PutUnavailable(k)
  <2>1. job' \in [Tasks -> Jobs] /\ Sounds'
    BY <1>10, EndKeeps DEF PutUnavailable, Sounds
  <2>2. flag' \in [Operations \X Types -> {"unknown", "yes", "no"}]
    BY <1>1, <1>5, <1>10, FlagType DEF PutUnavailable, Operations
  <2> QED BY <1>5, <1>10, <2>1, <2>2 DEF PutUnavailable, TypeOK, Jobs
<1>11. CASE UnavailableAfterError(k)
  <2>1. job' \in [Tasks -> Jobs] /\ Sounds'
    BY <1>11, EndKeeps DEF UnavailableAfterError, Sounds
  <2> QED BY <1>5, <1>11, <2>1 DEF UnavailableAfterError, TypeOK, Jobs
<1>12. CASE AnswerError(k)
  <2>1. PICK made \in {0, 1} :
           /\ IF made = 1 THEN CarryOut(job[k]) ELSE UNCHANGED console
           /\ \/ NextPath(k, FALSE, job[k].applied + made, TRUE)
              \/ /\ job[k].path = Paths[job[k].target]
                 /\ job' = [job EXCEPT ![k] = [step |-> "free", result |-> "unsupported",
                                               applied |-> job[k].applied + made, doubtful |-> TRUE]]
    BY <1>12 DEF AnswerError
  <2>2. console' \in [Targets -> Policy]
    <3>1. CASE made = 1
      BY <1>1, <1>5, <2>1, <3>1, ConsoleType
    <3>2. CASE made = 0
      BY <1>5, <2>1, <3>2 DEF TypeOK
    <3> QED BY <3>1, <3>2
  <2>3. UNCHANGED <<existing, served, cached, flag, calls, edits>>
    BY <1>12 DEF AnswerError
  <2>4. CASE NextPath(k, FALSE, job[k].applied + made, TRUE)
    <3>1. /\ job[k].applied + made \in 0 .. 2
          /\ job[k].applied + made <= (IF job[k].again THEN 1 ELSE 0) + 1
      BY <1>1, <1>2, <1>3, <2>4 DEF NextPath
    <3>2. job' \in [Tasks -> Jobs] /\ Sounds'
      BY <2>3, <2>4, <3>1, NextPathSound
    <3> QED BY <1>5, <2>2, <2>3, <3>2 DEF TypeOK, Jobs
  <2>5. CASE job' = [job EXCEPT ![k] = [step |-> "free", result |-> "unsupported",
                                        applied |-> job[k].applied + made, doubtful |-> TRUE]]
    <3>1. job[k].applied + made \in 0 .. 3
      BY <1>1
    <3>2. Reported([step |-> "free", result |-> "unsupported",
                    applied |-> job[k].applied + made, doubtful |-> TRUE])
      BY DEF Reported
    <3>3. job' \in [Tasks -> Jobs] /\ Sounds'
      BY <2>3, <2>5, <3>1, <3>2, EndedSound, JobsFollow DEF Results, Sounds
    <3> QED BY <1>5, <2>2, <2>3, <3>3 DEF TypeOK, Jobs
  <2> QED BY <2>1, <2>4, <2>5
<1>13. CASE AnswerExpired(k)
  <2>. DEFINE j == [job[k] EXCEPT !.step = "auth", !.again = TRUE]
  <2>1. /\ j \in CallJobs
        /\ j.step = "auth" /\ j.again /\ j.op = job[k].op /\ j.method = job[k].method
        /\ j.applied = job[k].applied /\ j.doubtful = job[k].doubtful
    BY <1>1 DEF CallJobs
  <2>2. ~job[k].again
    BY <1>13 DEF AnswerExpired
  <2>3. job[k].applied <= 1
    BY <1>1, <2>2 DEF UnderWay
  <2>4. UnderWay(j, existing, served)
    <3>. HIDE DEF j
    <3> QED BY <1>1, <2>1, <2>3 DEF UnderWay
  <2> QED BY <1>13, <2>1, <2>4, CallGoesOn DEF AnswerExpired
<1>14. CASE AnswerExpiredAgain(k)
  <2>1. job' \in [Tasks -> Jobs] /\ Sounds'
    BY <1>14, EndKeeps DEF AnswerExpiredAgain, Sounds
  <2> QED BY <1>5, <1>14, <2>1 DEF AnswerExpiredAgain, TypeOK, Jobs
<1>15. CASE NoAnswer(k)
  <2>1. UNCHANGED <<existing, served, cached, flag, calls, edits>>
    BY <1>15 DEF NoAnswer
  <2>2. CASE UNCHANGED console /\ Ended(k, "failed")
    <3>1. job' \in [Tasks -> Jobs] /\ Sounds'
      BY <2>1, <2>2, EndKeeps DEF Sounds
    <3> QED BY <1>5, <2>1, <2>2, <3>1 DEF TypeOK, Jobs
  <2>3. CASE /\ CarryOut(job[k])
             /\ job' = [job EXCEPT ![k] = [step |-> "free", result |-> "failed",
                                           applied |-> job[k].applied + 1,
                                           doubtful |-> job[k].doubtful]]
    <3>1. Reported([step |-> "free", result |-> "failed", applied |-> job[k].applied + 1,
                    doubtful |-> job[k].doubtful])
      BY <1>1 DEF Reported
    <3>2. job' \in [Tasks -> Jobs] /\ Sounds'
      BY <1>1, <1>4, <2>1, <2>3, <3>1, EndedSound, JobsFollow DEF Results, Sounds
    <3>3. console' \in [Targets -> Policy]
      BY <1>1, <1>5, <2>3, ConsoleType
    <3> QED BY <1>5, <2>1, <3>2, <3>3 DEF TypeOK, Jobs
  <2> QED BY <1>15, <2>2, <2>3 DEF NoAnswer
<1> QED
  BY <1>6, <1>7, <1>8, <1>9, <1>10, <1>11, <1>12, <1>13, <1>14, <1>15

\* Refreshes, the console's own interface, and stuttering: jobs stay as they are.
LEMMA OtherStep ==
    ASSUME Inv,
           \/ RefreshReads
           \/ RefreshFails
           \/ \E t \in Targets : ConsoleEdits(t)
           \/ \E t \in Targets : ConsoleRemoves(t)
           \/ UNCHANGED vars
    PROVE  TypeOK' /\ Sounds'
<1>1. CASE RefreshReads
  BY <1>1, ReadType DEF RefreshReads, Inv, TypeOK, Sounds
<1>2. CASE RefreshFails
  BY <1>2 DEF RefreshFails, Inv, TypeOK, Sounds
<1>3. ASSUME NEW t \in Targets, ConsoleEdits(t) PROVE TypeOK' /\ Sounds'
  <2>1. edits' \in 0 .. MaxEdits
    BY <1>3, ConstantTypes DEF ConsoleEdits, Inv, TypeOK
  <2>2. console' \in [Targets -> Policy]
    BY <1>3, ConstantTypes DEF ConsoleEdits, Inv, TypeOK
  <2> QED BY <1>3, <2>1, <2>2 DEF ConsoleEdits, Inv, TypeOK, Sounds
<1>4. ASSUME NEW t \in Targets, ConsoleRemoves(t) PROVE TypeOK' /\ Sounds'
  <2>1. edits' \in 0 .. MaxEdits
    BY <1>4, ConstantTypes DEF ConsoleRemoves, Inv, TypeOK
  <2>2. \A j : Sound(j, existing, served) => Sound(j, existing \ {t}, served)
    BY DEF Sound, UnderWay, FirstPathRefused
  <2>3. Sounds'
    BY <1>4, <2>2 DEF ConsoleRemoves, Inv, Sounds
  <2> QED BY <1>4, <2>1, <2>3 DEF ConsoleRemoves, Inv, TypeOK
<1>5. CASE UNCHANGED vars
  BY <1>5 DEF vars, Inv, TypeOK, Sounds
<1> QED BY <1>1, <1>2, <1>3, <1>4, <1>5

LEMMA InvInitial == Init => Inv
<1>. SUFFICES ASSUME Init PROVE Inv
  OBVIOUS
<1>. DEFINE j == [step |-> "free", result |-> "failed", applied |-> 0, doubtful |-> FALSE]
<1>1. j \in Jobs /\ Sound(j, existing, served)
  BY IdleSound
<1>2. job = [k \in Tasks |-> j]
  BY DEF Init
<1>. HIDE DEF j
<1>3. job \in [Tasks -> Jobs] /\ \A k \in Tasks : Sound(job[k], existing, served)
  BY <1>1, <1>2
<1>4. console \in [Targets -> Policy]
  BY ConstantTypes DEF Init
<1>5. cached \in [Targets -> Setting \cup {Nothing}]
  BY <1>4, ReadType DEF Init
<1>6. calls \in 0 .. MaxCalls /\ edits \in 0 .. MaxEdits
  BY ConstantTypes DEF Init
<1> QED BY <1>3, <1>4, <1>5, <1>6 DEF Init, Inv, TypeOK, Jobs

LEMMA InvStep == Inv /\ [Next]_vars => Inv'
<1>. SUFFICES ASSUME Inv, [Next]_vars PROVE TypeOK' /\ Sounds'
  BY DEF Inv, Sounds
<1>1. ASSUME NEW k \in Tasks,
             \/ \E t \in Targets : ButtonPressed(k, t)
             \/ \E t \in Targets, ask \in EntityAsks : EntityWrites(k, t, ask)
             \/ \E wanted \in SUBSET Targets : ServiceCalled(k, "create", KeepAll, wanted)
             \/ \E wanted \in SUBSET Targets : ServiceFetches(k, "create", KeepAll, wanted)
             \/ \E wanted \in SUBSET Targets, ask \in ServiceAsks :
                   ServiceCalled(k, "settings", ask, wanted)
             \/ \E wanted \in SUBSET Targets, ask \in ServiceAsks :
                   ServiceFetches(k, "settings", ask, wanted)
      PROVE  TypeOK' /\ Sounds'
  BY <1>1, BeginStep DEF Operations
<1>2. ASSUME NEW k \in Tasks,
             \/ Fetched(k)
             \/ \E result \in {"permission", "failed"} : FetchFails(k, result)
      PROVE  TypeOK' /\ Sounds'
  BY <1>2, FetchStep
<1>3. ASSUME NEW k \in Tasks,
             \/ Authenticated(k)
             \/ RefusedByFlag(k)
             \/ \E result \in {"permission", "failed"} : AuthenticationFails(k, result)
      PROVE  TypeOK' /\ Sounds'
  BY <1>3, AuthStep
<1>4. ASSUME NEW k \in Tasks,
             \/ AnswerOk(k) \/ UnavailableHere(k) \/ CreationUnavailable(k) \/ DeleteUnavailable(k)
             \/ PutUnavailable(k) \/ UnavailableAfterError(k) \/ AnswerError(k)
             \/ AnswerExpired(k) \/ AnswerExpiredAgain(k) \/ NoAnswer(k)
      PROVE  TypeOK' /\ Sounds'
  <2>1. job[k].step = "call"
    BY <1>4 DEF AnswerOk, UnavailableHere, CreationUnavailable, DeleteUnavailable, PutUnavailable,
                UnavailableAfterError, Unavailable, AnswerError, AnswerExpired,
                AnswerExpiredAgain, NoAnswer
  <2> QED BY <1>4, <2>1, CallStep
<1>5. CASE Next
  BY <1>1, <1>2, <1>3, <1>4, <1>5, StepKinds, OtherStep
<1>6. CASE UNCHANGED vars
  BY <1>6, OtherStep
<1> QED BY <1>5, <1>6

\* What a step does to the flags.
LEMMA FlagSteps ==
    ASSUME Inv, [Next]_vars
    PROVE  \/ UNCHANGED flag
           \/ \E t \in Targets : SetFlag("create", t, "no")
           \/ \E t \in Targets, op \in Operations : SetFlag(op, t, "yes")
           \/ \E k \in Tasks : PutUnavailable(k)
<1>1. ASSUME NEW k \in Tasks, job[k].step = "call"
      PROVE  job[k].target \in Targets /\ job[k].op \in Operations
  BY <1>1, Applied DEF CallJobs
<1>2. ASSUME NEW k \in Tasks, AnswerOk(k)
      PROVE  \E t \in Targets, op \in Operations : SetFlag(op, t, "yes")
  BY <1>1, <1>2 DEF AnswerOk
<1>3. ASSUME NEW k \in Tasks, UnavailableHere(k)
      PROVE  UNCHANGED flag \/ \E t \in Targets : SetFlag("create", t, "no")
  BY <1>1, <1>3 DEF UnavailableHere, Unavailable
<1>4. ASSUME NEW k \in Tasks, CreationUnavailable(k)
      PROVE  \E t \in Targets : SetFlag("create", t, "no")
  BY <1>1, <1>4 DEF CreationUnavailable, Unavailable
<1>5. CASE Next
  <2>1. ASSUME NEW k \in Tasks,
               \/ \E t \in Targets : ButtonPressed(k, t)
               \/ \E t \in Targets, ask \in EntityAsks : EntityWrites(k, t, ask)
               \/ \E wanted \in SUBSET Targets : ServiceCalled(k, "create", KeepAll, wanted)
               \/ \E wanted \in SUBSET Targets : ServiceFetches(k, "create", KeepAll, wanted)
               \/ \E wanted \in SUBSET Targets, ask \in ServiceAsks :
                     ServiceCalled(k, "settings", ask, wanted)
               \/ \E wanted \in SUBSET Targets, ask \in ServiceAsks :
                     ServiceFetches(k, "settings", ask, wanted)
        PROVE  UNCHANGED flag
    BY <2>1 DEF ButtonPressed, EntityWrites, ServiceCalled, ServiceFetches
  <2>2. ASSUME NEW k \in Tasks,
               \/ Fetched(k)
               \/ \E result \in {"permission", "failed"} : FetchFails(k, result)
               \/ \E result \in {"permission", "failed"} : AuthenticationFails(k, result)
               \/ Authenticated(k) \/ RefusedByFlag(k) \/ DeleteUnavailable(k)
               \/ UnavailableAfterError(k) \/ AnswerError(k) \/ AnswerExpired(k)
               \/ AnswerExpiredAgain(k) \/ NoAnswer(k)
        PROVE  UNCHANGED flag
    BY <2>2 DEF Fetched, FetchFails, AuthenticationFails, Authenticated, RefusedByFlag,
                DeleteUnavailable, UnavailableAfterError, AnswerError, AnswerExpired,
                AnswerExpiredAgain, NoAnswer
  <2>3. ASSUME \/ RefreshReads
               \/ RefreshFails
               \/ \E t \in Targets : ConsoleEdits(t)
               \/ \E t \in Targets : ConsoleRemoves(t)
        PROVE  UNCHANGED flag
    BY <2>3 DEF RefreshReads, RefreshFails, ConsoleEdits, ConsoleRemoves
  <2> QED BY <1>2, <1>3, <1>4, <1>5, <2>1, <2>2, <2>3, StepKinds
<1>6. CASE UNCHANGED vars
  BY <1>6 DEF vars
<1> QED BY <1>5, <1>6

\* The paths that refused PUT when writes are found to be unsupported.
LEMMA PutRefused ==
    ASSUME Inv, NEW k \in Tasks, PutUnavailable(k)
    PROVE  \/ job[k].target \notin existing
           \/ \A p \in 1 .. Paths[job[k].target] : <<"PUT", p>> \notin served
<1>1. /\ job[k] \in CallJobs /\ UnderWay(job[k], existing, served)
      /\ job[k].step = "call" /\ job[k].method = "PUT" /\ job[k].unsupported
      /\ job[k].path = Paths[job[k].target] /\ ~Serves(job[k])
  BY Applied DEF PutUnavailable, Unavailable
<1>2. SUFFICES ASSUME job[k].target \in existing
               PROVE  \A p \in 1 .. Paths[job[k].target] : <<"PUT", p>> \notin served
  OBVIOUS
<1>3. <<"PUT", Paths[job[k].target]>> \notin served
  BY <1>1, <1>2 DEF Serves
<1>4. Paths[job[k].target] \in {1, 2}
  BY <1>1, ConstantTypes DEF CallJobs
<1>5. Paths[job[k].target] = 2 => <<"PUT", 1>> \notin served
  BY <1>1, <1>2 DEF UnderWay, FirstPathRefused
<1>6. CASE Paths[job[k].target] = 1
  BY <1>3, <1>6
<1>7. CASE Paths[job[k].target] = 2
  <2>1. \A p \in 1 .. 2 : p = 1 \/ p = 2
    OBVIOUS
  <2> QED BY <1>3, <1>5, <1>7, <2>1
<1> QED BY <1>4, <1>6, <1>7

LEMMA BlockStep ==
    ASSUME Inv, [Next]_vars, NEW type \in Types,
           flag'[<<"settings", type>>] = "no", flag[<<"settings", type>>] # "no"
    PROVE  \E t \in Targets : /\ TypeOf[t] = type
                              /\ \/ t \notin existing
                                 \/ \A p \in 1 .. Paths[t] : <<"PUT", p>> \notin served
<1>1. <<"settings", type>> \in DOMAIN flag
  BY DEF Inv, TypeOK, Operations
<1>2. ASSUME NEW t \in Targets, SetFlag("create", t, "no") PROVE FALSE
  BY <1>1, <1>2 DEF SetFlag
<1>3. ASSUME NEW t \in Targets, NEW op \in Operations, SetFlag(op, t, "yes") PROVE FALSE
  BY <1>1, <1>3 DEF SetFlag
<1>4. PICK k \in Tasks : PutUnavailable(k)
  BY <1>2, <1>3, FlagSteps
<1>5. job[k].target \in Targets /\ SetFlag("settings", job[k].target, "no")
  BY <1>4, Applied DEF PutUnavailable, Unavailable, CallJobs
<1>6. TypeOf[job[k].target] = type
  BY <1>1, <1>5 DEF SetFlag
<1> QED BY <1>4, <1>5, <1>6, PutRefused

(***************************************************************************)
(* A body changes what was asked and nothing else.                         *)
(***************************************************************************)

\* What the checks of entities and services leave of what they are asked.
Proper(ask) ==
    /\ ask \in Ask
    /\ ask.time = Keep \/ ask.time \in MeantTimes
    /\ ask.weekdays = Keep \/ ask.weekdays # {}
    /\ ask.monthdays = Keep \/ ask.monthdays # {}

LEMMA TimesAreMeant == Times \subseteq MeantTimes
<1>1. ASSUME NEW text \in TimeInputs, ScheduleTimeValid(text)
      PROVE  ScheduleTimeParts(text) = <<MeantHour(text), text.minute>>
  <2>1. text.hour \in Nat /\ text.suffix \in {"", "am", "pm"}
    BY WritesAssumption
  <2>2. CASE text.suffix = ""
    BY <2>1, <2>2 DEF ScheduleTimeParts, ScheduleHour, MeantHour
  <2>3. CASE text.suffix # ""
    <3>1. text.hour \in 1 .. 12
      BY <1>1, <2>3 DEF ScheduleTimeValid
    <3>2. text.hour = 12 => text.hour % 12 = 0
      BY <3>1
    <3>3. text.hour # 12 => text.hour < 12 /\ text.hour % 12 = text.hour
      BY <3>1
    <3>4. MeantHour(text) = (text.hour % 12) + (IF text.suffix = "pm" THEN 12 ELSE 0)
      BY <2>3 DEF MeantHour
    <3>5. CASE text.suffix = "am"
      <4>1. ScheduleHour(text) = IF text.hour = 12 THEN 0 ELSE text.hour
        BY <3>5 DEF ScheduleHour
      <4> QED BY <3>1, <3>2, <3>3, <3>4, <3>5, <4>1 DEF ScheduleTimeParts
    <3>6. CASE text.suffix = "pm"
      <4>1. ScheduleHour(text) = IF text.hour < 12 THEN text.hour + 12 ELSE text.hour
        BY <3>6 DEF ScheduleHour
      <4> QED BY <3>1, <3>2, <3>3, <3>4, <3>6, <4>1 DEF ScheduleTimeParts
    <3> QED BY <2>1, <2>3, <3>5, <3>6
  <2> QED BY <2>2, <2>3
<1> QED BY <1>1 DEF Times, MeantTimes

LEMMA AsksAreProper == \A ask \in EntityAsks \cup ServiceAsks : Proper(ask)
<1>1. \A ask \in EntityAsks \cup ServiceAsks : ask \in Ask
  BY AskTypes
<1>2. \A ask \in LimitAsks : ask.time = Keep /\ ask.weekdays = Keep /\ ask.monthdays = Keep
  BY DEF LimitAsks, KeepAll
<1>3. \A d \in WeekdayChoices \cup MonthdayChoices : d # {}
  BY DEF WeekdayChoices, MonthdayChoices
<1>4. ASSUME NEW ask \in EntityAsks
      PROVE  /\ ask.time = Keep \/ ask.time \in Times
             /\ ask.weekdays = Keep \/ ask.weekdays \in WeekdayChoices
             /\ ask.monthdays = Keep \/ ask.monthdays \in MonthdayChoices
  BY <1>2 DEF EntityAsks, KeepAll
<1>5. ASSUME NEW ask \in ServiceAsks
      PROVE  /\ ask.time = Keep \/ ask.time \in Times
             /\ ask.weekdays = Keep \/ ask.weekdays \in WeekdayChoices
             /\ ask.monthdays = Keep \/ ask.monthdays \in MonthdayChoices
  BY <1>2 DEF ServiceAsks
<1> QED BY <1>1, <1>3, <1>4, <1>5, TimesAreMeant DEF Proper

LEMMA DaysChosen ==
    ASSUME NEW range \in {Weekdays, Monthdays}, NEW asked \in {Keep} \cup SUBSET range,
           asked = Keep \/ asked # {}, NEW current
    PROVE  LET days == ScheduleDays(asked, current, range)
           IN  Dated(days) /\ DaysMeet(asked, current, days, range)
<1>. DEFINE days == ScheduleDays(asked, current, range)
<1>1. 1 \in range /\ Star \notin range /\ 1 # Star
  BY DEF Weekdays, Monthdays, Star
<1>2. CASE asked # Keep
  <2>1. days = asked
    BY <1>2 DEF ScheduleDays, Given
  <2> QED BY <1>1, <1>2, <2>1 DEF Dated, DaysMeet
<1>3. CASE asked = Keep
  <2>1. days = IF current \cap range = {} THEN {1} ELSE current \cap range
    BY <1>3 DEF ScheduleDays, Given, FirstNonEmpty, ExistingDays
  <2>. HIDE DEF days
  <2>2. DaysMeet(asked, current, days, range)
    BY <1>3, <2>1 DEF DaysMeet
  <2>3. Dated(days)
    BY <1>1, <2>1 DEF Dated
  <2> QED BY <2>2, <2>3 DEF days
<1> QED BY <1>2, <1>3

LEMMA LimitChosen ==
    ASSUME NEW setting \in Setting, NEW ask \in Ask
    PROVE  LET max == WriteBody(setting, ask).max
           IN  /\ max \in 1 .. 256
               /\ ask.limit # Keep => max = ask.limit
               /\ ask.limit = Keep /\ setting.max \in 1 .. 256 => max = setting.max
<1>. DEFINE enabled == Given(ask.enabled, setting.enabled)
            wanted == WantedLimit(setting, ask, enabled)
            max == WriteBody(setting, ask).max
<1>1. setting.max \in Nat /\ (ask.limit # Keep => ask.limit \in 1 .. 256)
  BY DEF Setting, Ask, MIN_SNAPSHOT_LIMIT, MAX_SNAPSHOT_LIMIT
<1>2. max = IF wanted > 256 THEN 256 ELSE wanted
  BY DEF WriteBody, MAX_SNAPSHOT_LIMIT
<1>3. CASE ask.limit # Keep
  <2>1. wanted = ask.limit
    BY <1>3 DEF WantedLimit
  <2>. HIDE DEF wanted, max
  <2>2. max = ask.limit
    BY <1>1, <1>2, <1>3, <2>1
  <2> QED BY <1>1, <1>3, <2>2 DEF max
<1>4. CASE ask.limit = Keep /\ setting.max >= 1
  <2>1. wanted = setting.max
    BY <1>4 DEF WantedLimit, MIN_SNAPSHOT_LIMIT
  <2>. HIDE DEF wanted, max
  <2>2. max \in 1 .. 256 /\ (setting.max \in 1 .. 256 => max = setting.max)
    BY <1>1, <1>2, <1>4, <2>1
  <2> QED BY <1>4, <2>2 DEF max
<1>5. CASE ask.limit = Keep /\ ~(setting.max >= 1)
  <2>1. wanted \in {64, 1}
    BY <1>5 DEF WantedLimit, MIN_SNAPSHOT_LIMIT, DEFAULT_SNAPSHOT_LIMIT
  <2>. HIDE DEF wanted, max
  <2>2. max \in 1 .. 256 /\ setting.max \notin 1 .. 256
    BY <1>1, <1>2, <1>5, <2>1
  <2> QED BY <1>5, <2>2 DEF max
<1> QED BY <1>3, <1>4, <1>5

\* The schedule that is read back from a body is the one asked for, or what the
\* one before is taken for.
LEMMA FrequencyChosen ==
    ASSUME NEW setting \in Setting, NEW ask, Proper(ask)
    PROVE  LET body == WriteBody(setting, ask)
           IN  /\ Frequency(body) = Given(ask.frequency, KeptFrequency(setting))
               /\ Frequency(body) = "Weekly" =>
                     body.weekdays = ScheduleDays(ask.weekdays, setting.weekdays, Weekdays)
               /\ Frequency(body) = "Monthly" =>
                     body.monthdays = ScheduleDays(ask.monthdays, setting.monthdays, Monthdays)
<1>. DEFINE body == WriteBody(setting, ask)
            frequency == Given(ask.frequency, setting.frequency)
            kept == Given(ask.frequency, KeptFrequency(setting))
            weekdays == ScheduleDays(ask.weekdays, setting.weekdays, Weekdays)
            monthdays == ScheduleDays(ask.monthdays, setting.monthdays, Monthdays)
<1>1. Dated(weekdays) /\ Dated(monthdays)
  <2>1. /\ ask.weekdays \in {Keep} \cup SUBSET Weekdays
        /\ ask.monthdays \in {Keep} \cup SUBSET Monthdays
    BY DEF Proper, Ask
  <2> QED BY <2>1, DaysChosen DEF Proper
<1>2. /\ setting.frequency \in {"custom"} \cup SNAPSHOT_SCHEDULE_OPTIONS
      /\ ask.frequency \in {Keep} \cup SNAPSHOT_SCHEDULE_OPTIONS
  BY DEF Proper, Ask, Setting
<1>3. body.enable = (frequency # "Never" /\ (ask.frequency # Keep \/ setting.enable))
  BY DEF WriteBody
<1>4. setting.enable \in BOOLEAN
  BY Zenon DEF Setting
<1>5. /\ body.weekdays = CASE frequency = "Weekly"  -> weekdays
                           [] frequency = "Monthly" -> {}
                           [] OTHER                 -> {Star}
      /\ body.monthdays = IF frequency = "Monthly" THEN monthdays ELSE {}
      /\ body.frequency = Missing
      /\ body.daily
  BY DEF WriteBody
<1>6. ask.frequency # Keep => frequency = ask.frequency /\ kept = ask.frequency
  BY DEF Given
<1>7. ask.frequency = Keep => frequency = setting.frequency /\ kept = KeptFrequency(setting)
  BY DEF Given
<1>8. body.enable \in BOOLEAN
  <2>. HIDE DEF body, frequency
  <2> QED BY <1>3, Zenon
<1>. HIDE DEF body, frequency, kept, weekdays, monthdays
<1>9. CASE body.enable = FALSE
  <2>1. Frequency(body) = "Never"
    BY <1>9 DEF Frequency
  <2>2. frequency = "Never" \/ (ask.frequency = Keep /\ ~setting.enable)
    BY <1>3, <1>9, Zenon
  <2>3. kept = "Never"
    <3>1. CASE ask.frequency # Keep
      BY <1>6, <2>2, <3>1
    <3>2. CASE ask.frequency = Keep /\ ~setting.enable
      BY <1>7, <3>2 DEF KeptFrequency
    <3>3. CASE ask.frequency = Keep /\ setting.enable
      <4>1. setting.frequency = "Never"
        BY <1>7, <2>2, <3>3
      <4> QED BY <1>7, <3>3, <4>1 DEF KeptFrequency
    <3> QED BY <3>1, <3>2, <3>3
  <2> QED BY <2>1, <2>3 DEF body, kept
<1>10. CASE body.enable = TRUE
  <2>1. frequency # "Never" /\ (ask.frequency # Keep \/ setting.enable)
    BY <1>3, <1>10, Zenon
  <2>2. kept = IF frequency = "custom" THEN "Daily" ELSE frequency
    <3>1. CASE ask.frequency # Keep
      BY <1>2, <1>6, <3>1 DEF SNAPSHOT_SCHEDULE_OPTIONS
    <3>2. CASE ask.frequency = Keep
      BY <1>7, <2>1, <3>2 DEF KeptFrequency
    <3> QED BY <3>1, <3>2
  <2>3. Frequency(body) = FrequencyOfDays(body)
    BY <1>5, <1>10 DEF Frequency
  <2>4. frequency \in {"custom", "Daily", "Weekly", "Monthly"}
    BY <1>2, <1>6, <1>7, <2>1 DEF SNAPSHOT_SCHEDULE_OPTIONS
  <2>5. CASE frequency = "Weekly"
    <3>1. body.weekdays = weekdays /\ body.monthdays = {}
      BY <1>5, <2>5
    <3>2. FrequencyOfDays(body) = "Weekly"
      BY <1>1, <3>1 DEF FrequencyOfDays, Dated
    <3> QED BY <2>2, <2>3, <2>5, <3>1, <3>2 DEF body, kept, weekdays
  <2>6. CASE frequency = "Monthly"
    <3>1. body.monthdays = monthdays
      BY <1>5, <2>6
    <3>2. FrequencyOfDays(body) = "Monthly"
      BY <1>1, <3>1 DEF FrequencyOfDays
    <3> QED BY <2>2, <2>3, <2>6, <3>1, <3>2 DEF body, kept, monthdays
  <2>7. CASE frequency \in {"custom", "Daily"}
    <3>1. body.weekdays = {Star} /\ body.monthdays = {}
      BY <1>5, <2>7
    <3>2. FrequencyOfDays(body) = "Daily"
      BY <1>5, <3>1 DEF FrequencyOfDays, Dated
    <3> QED BY <2>2, <2>3, <2>7, <3>2 DEF body, kept
  <2> QED BY <2>4, <2>5, <2>6, <2>7
<1> QED BY <1>8, <1>9, <1>10

\* The body of a PUT does what was asked to the setting it is laid over.
LEMMA BodyMeets ==
    ASSUME NEW setting \in Setting, NEW ask, Proper(ask)
    PROVE  Meets(ask, setting, SettingFromItem(WriteBody(setting, ask)))
<1>. DEFINE body == WriteBody(setting, ask)
            new == SettingFromItem(body)
<1>1. body \in Policy /\ body.enabled \in BOOLEAN
  <2>1. Given(ask.enabled, setting.enabled) \in BOOLEAN
    BY Zenon DEF Given, Setting, Ask, Proper
  <2>2. body.enabled \in BOOLEAN
    BY <2>1, Zenon DEF WriteBody
  <2> QED BY <2>2, BodyType DEF Proper
<1>2. new.enabled = Given(ask.enabled, setting.enabled)
  <2>1. body.enabled # Missing
    BY <1>1, ConstantsApart
  <2>2. new.enabled = body.enabled
    BY <2>1 DEF SettingFromItem
  <2>3. body.enabled = Given(ask.enabled, setting.enabled)
    BY DEF WriteBody
  <2> QED BY <2>2, <2>3
<1>3. /\ new.max = body.max
      /\ new.frequency = Frequency(body)
      /\ new.weekdays = body.weekdays
      /\ new.monthdays = body.monthdays
      /\ new.time = body.time
  BY DEF SettingFromItem
<1>4. /\ body.max \in 1 .. 256
      /\ ask.limit # Keep => body.max = ask.limit
      /\ ask.limit = Keep /\ setting.max \in 1 .. 256 => body.max = setting.max
  BY LimitChosen DEF Proper
<1>5. /\ ask.time # Keep => body.time = ask.time /\ ask.time \in MeantTimes
      /\ ask.time = Keep /\ setting.time # Missing => body.time = setting.time
  BY DEF WriteBody, Given, Proper
<1>6. /\ ask.weekdays \in {Keep} \cup SUBSET Weekdays
      /\ ask.monthdays \in {Keep} \cup SUBSET Monthdays
  BY DEF Proper, Ask
<1>7. /\ Frequency(body) = "Weekly" =>
            DaysMeet(ask.weekdays, setting.weekdays, body.weekdays, Weekdays)
      /\ Frequency(body) = "Monthly" =>
            DaysMeet(ask.monthdays, setting.monthdays, body.monthdays, Monthdays)
  BY <1>6, FrequencyChosen, DaysChosen DEF Proper
<1>8. Frequency(body) = Given(ask.frequency, KeptFrequency(setting))
  BY FrequencyChosen
<1>. HIDE DEF body, new
<1>9. Meets(ask, setting, new)
  BY <1>2, <1>3, <1>4, <1>5, <1>7, <1>8 DEF Meets
<1> QED BY <1>9 DEF body, new

(***************************************************************************)
(* What a job asks for, from the call that begins it to its last request.  *)
(***************************************************************************)

\* The ask is proper, and DELETE is sent only to turn everything off.
Asked(j) ==
    /\ j.step \in {"fetch", "auth", "call"} /\ j.op = "settings" => Proper(j.ask)
    /\ j.step = "call" /\ j.method = "DELETE" => DeleteRequired(j.ask)

Askeds == \A k \in Tasks : Asked(job[k])

LEMMA JobsAsked ==
    ASSUME Inv, Askeds, NEW k \in Tasks, NEW j, Asked(j), job' = [job EXCEPT ![k] = j]
    PROVE  Askeds'
BY DEF Askeds, Inv, TypeOK

LEMMA CalledAsked ==
    ASSUME NEW op, NEW ask, NEW t, NEW base, op = "settings" => Proper(ask)
    PROVE  Asked(Called(op, ask, t, base))
BY DEF Asked, Called

LEMMA FreeAsked == ASSUME NEW j, j.step = "free" PROVE Asked(j)
BY DEF Asked

LEMMA BeginAsked ==
    ASSUME Inv, Askeds, NEW k \in Tasks,
           \/ \E t \in Targets : ButtonPressed(k, t)
           \/ \E t \in Targets, ask \in EntityAsks : EntityWrites(k, t, ask)
           \/ \E wanted \in SUBSET Targets : ServiceCalled(k, "create", KeepAll, wanted)
           \/ \E wanted \in SUBSET Targets : ServiceFetches(k, "create", KeepAll, wanted)
           \/ \E wanted \in SUBSET Targets, ask \in ServiceAsks :
                 ServiceCalled(k, "settings", ask, wanted)
           \/ \E wanted \in SUBSET Targets, ask \in ServiceAsks :
                 ServiceFetches(k, "settings", ask, wanted)
    PROVE  Askeds'
<1>1. ASSUME NEW t \in Targets, ButtonPressed(k, t) PROVE Askeds'
  BY <1>1, CalledAsked, JobsAsked DEF ButtonPressed
<1>2. ASSUME NEW t \in Targets, NEW ask \in EntityAsks, EntityWrites(k, t, ask) PROVE Askeds'
  BY <1>2, AsksAreProper, CalledAsked, JobsAsked DEF EntityWrites
<1>3. ASSUME NEW op, NEW ask, NEW wanted, op = "settings" => Proper(ask),
             ServiceCalled(k, op, ask, wanted)
      PROVE  Askeds'
  BY <1>3, CalledAsked, JobsAsked DEF ServiceCalled, Select
<1>4. ASSUME NEW op, NEW ask, NEW wanted, op = "settings" => Proper(ask),
             ServiceFetches(k, op, ask, wanted)
      PROVE  Askeds'
  <2>1. Asked([step |-> "fetch", op |-> op, ask |-> ask, wanted |-> wanted])
    BY <1>4 DEF Asked
  <2> QED BY <1>4, <2>1, JobsAsked DEF ServiceFetches
<1>5. \A ask \in ServiceAsks : Proper(ask)
  BY AsksAreProper
<1> QED BY <1>1, <1>2, <1>3, <1>4, <1>5

LEMMA ProceedAsked ==
    ASSUME Inv, Askeds, NEW k \in Tasks, Proceed(k)
    PROVE  Askeds'
<1>0. Asked(job[k])
  BY DEF Askeds
<1>1. ASSUME NEW result, Ended(k, result) PROVE Askeds'
  BY <1>1, FreeAsked, JobsAsked DEF Ended
<1>2. CASE Fetched(k)
  <2>1. job[k].step = "fetch"
    BY <1>2 DEF Fetched
  <2>2. job[k].op = "settings" => Proper(job[k].ask)
    BY <1>0, <2>1 DEF Asked
  <2>. DEFINE matching == existing \cap job[k].wanted
              target == CHOOSE t \in matching : TRUE
              idle == [step |-> "free", result |-> "failed", applied |-> 0, doubtful |-> FALSE]
              next == Called(job[k].op, job[k].ask, target, Read[target])
  <2>3. job' = [job EXCEPT ![k] = IF Cardinality(matching) = 1 THEN next ELSE idle]
    BY <1>2 DEF Fetched
  <2>4. Asked(next) /\ Asked(idle)
    BY <2>2, CalledAsked, FreeAsked
  <2>. HIDE DEF next, idle, matching
  <2>5. Asked(IF Cardinality(matching) = 1 THEN next ELSE idle)
    BY <2>4
  <2> QED BY <2>3, <2>5, JobsAsked
<1>3. ASSUME NEW result, FetchFails(k, result) PROVE Askeds'
  BY <1>3, FreeAsked, JobsAsked DEF FetchFails
<1>4. CASE Authenticated(k)
  <2>. DEFINE j == [job[k] EXCEPT !.step = "call", !.method = FirstMethod(job[k]),
                                  !.path = 1, !.unsupported = TRUE]
  <2>1. job[k].step = "auth" /\ job' = [job EXCEPT ![k] = j]
    BY <1>4 DEF Authenticated
  <2>2. job[k] \in CallJobs
    BY <2>1, Applied
  <2>3. /\ j.op = job[k].op /\ j.ask = job[k].ask
        /\ j.method = FirstMethod(job[k])
    BY <2>2 DEF CallJobs
  <2>4. FirstMethod(job[k]) = "DELETE" => DeleteRequired(job[k].ask)
    BY DEF FirstMethod
  <2>. HIDE DEF j
  <2>5. Asked(j)
    BY <1>0, <2>1, <2>3, <2>4 DEF Asked
  <2> QED BY <2>1, <2>5, JobsAsked
<1>5. CASE RefusedByFlag(k)
  BY <1>1, <1>5 DEF RefusedByFlag
<1>6. ASSUME NEW result, AuthenticationFails(k, result) PROVE Askeds'
  BY <1>1, <1>6 DEF AuthenticationFails
<1>7. ASSUME job[k].step = "call", NEW j \in CallJobs, j.op = job[k].op, j.ask = job[k].ask,
             j.method \in {job[k].method, "PUT"}, job' = [job EXCEPT ![k] = j]
      PROVE  Askeds'
  <2>1. Asked(j)
    BY <1>0, <1>7 DEF Asked
  <2> QED BY <1>7, <2>1, JobsAsked
<1>8. ASSUME job[k].step = "call", NEW unsupported, NEW made, NEW doubt,
             NextPath(k, unsupported, made, doubt)
      PROVE  Askeds'
  <2>. DEFINE j == [job[k] EXCEPT !.path = 2, !.unsupported = unsupported,
                                 !.applied = made, !.doubtful = doubt]
  <2>1. job[k] \in CallJobs
    BY <1>8, Applied
  <2>2. /\ j.step = "call" /\ j.op = job[k].op /\ j.ask = job[k].ask
        /\ j.method = job[k].method
    BY <1>8, <2>1 DEF CallJobs
  <2>3. job' = [job EXCEPT ![k] = j]
    BY <1>8 DEF NextPath
  <2>. HIDE DEF j
  <2>4. Asked(j)
    BY <1>0, <1>8, <2>2 DEF Asked
  <2> QED BY <2>3, <2>4, JobsAsked
<1>9. CASE AnswerOk(k)
  BY <1>9, FreeAsked, JobsAsked DEF AnswerOk
<1>10. CASE UnavailableHere(k)
  BY <1>8, <1>10 DEF UnavailableHere, Unavailable
<1>11. CASE CreationUnavailable(k) \/ PutUnavailable(k) \/ UnavailableAfterError(k)
            \/ AnswerExpiredAgain(k)
  BY <1>1, <1>11 DEF CreationUnavailable, PutUnavailable, UnavailableAfterError, AnswerExpiredAgain
<1>12. CASE DeleteUnavailable(k)
  <2>. DEFINE j == [job[k] EXCEPT !.method = "PUT", !.path = 1, !.unsupported = TRUE]
  <2>1. job[k].step = "call" /\ job' = [job EXCEPT ![k] = j]
    BY <1>12 DEF DeleteUnavailable, Unavailable
  <2>2. job[k] \in CallJobs
    BY <2>1, Applied
  <2>3. j \in CallJobs /\ j.op = job[k].op /\ j.ask = job[k].ask /\ j.method = "PUT"
    BY <2>2 DEF CallJobs
  <2>. HIDE DEF j
  <2> QED BY <1>7, <2>1, <2>3
<1>13. CASE AnswerError(k)
  <2>1. job[k].step = "call"
    BY <1>13 DEF AnswerError
  <2>2. PICK made \in {0, 1} :
           \/ NextPath(k, FALSE, job[k].applied + made, TRUE)
           \/ job' = [job EXCEPT ![k] = [step |-> "free", result |-> "unsupported",
                                         applied |-> job[k].applied + made, doubtful |-> TRUE]]
    BY <1>13 DEF AnswerError
  <2>3. CASE NextPath(k, FALSE, job[k].applied + made, TRUE)
    BY <1>8, <2>1, <2>3
  <2>4. CASE job' = [job EXCEPT ![k] = [step |-> "free", result |-> "unsupported",
                                        applied |-> job[k].applied + made, doubtful |-> TRUE]]
    BY <2>4, FreeAsked, JobsAsked
  <2> QED BY <2>2, <2>3, <2>4
<1>14. CASE AnswerExpired(k)
  <2>. DEFINE j == [job[k] EXCEPT !.step = "auth", !.again = TRUE]
  <2>1. job[k].step = "call" /\ job' = [job EXCEPT ![k] = j]
    BY <1>14 DEF AnswerExpired
  <2>2. job[k] \in CallJobs
    BY <2>1, Applied
  <2>3. j \in CallJobs /\ j.op = job[k].op /\ j.ask = job[k].ask /\ j.method = job[k].method
    BY <2>2 DEF CallJobs
  <2>. HIDE DEF j
  <2> QED BY <1>7, <2>1, <2>3
<1>15. CASE NoAnswer(k)
  <2>1. \/ Ended(k, "failed")
        \/ job' = [job EXCEPT ![k] = [step |-> "free", result |-> "failed",
                                      applied |-> job[k].applied + 1,
                                      doubtful |-> job[k].doubtful]]
    BY <1>15 DEF NoAnswer
  <2> QED BY <1>1, <2>1, FreeAsked, JobsAsked
<1> QED
  BY <1>2, <1>3, <1>4, <1>5, <1>6, <1>9, <1>10, <1>11, <1>12, <1>13, <1>14, <1>15
     DEF Proceed, Failed

LEMMA AskedInitial == Init => Askeds
BY FreeAsked DEF Init, Askeds

LEMMA AskedStep == Inv /\ Askeds /\ [Next]_vars => Askeds'
<1>. SUFFICES ASSUME Inv, Askeds, [Next]_vars PROVE Askeds'
  OBVIOUS
<1>1. \A wanted \in {Matching(filter) : filter \in Filters} : wanted \in SUBSET Targets
  BY DEF Matching
<1>2. ASSUME NEW k \in Tasks, Begin(k) PROVE Askeds'
  BY <1>1, <1>2, BeginAsked DEF Begin
<1>3. ASSUME NEW k \in Tasks, Proceed(k) PROVE Askeds'
  BY <1>3, ProceedAsked
<1>4. ASSUME \/ RefreshReads
             \/ RefreshFails
             \/ \E t \in Targets : ConsoleEdits(t) \/ ConsoleRemoves(t)
             \/ UNCHANGED vars
      PROVE  Askeds'
  BY <1>4 DEF RefreshReads, RefreshFails, ConsoleEdits, ConsoleRemoves, vars, Askeds
<1> QED BY <1>2, <1>3, <1>4 DEF Next

\* A task's step changes its own job only.
LEMMA OthersStay ==
    ASSUME Inv, NEW l \in Tasks, Begin(l) \/ Proceed(l), NEW k \in Tasks, k # l
    PROVE  job'[k] = job[k]
<1>1. \E j : job' = [job EXCEPT ![l] = j]
  <2>1. CASE Begin(l)
    BY <2>1 DEF Begin, ButtonPressed, EntityWrites, ServiceCalled, ServiceFetches, Select
  <2>2. CASE Proceed(l)
    BY <2>2 DEF Proceed, Failed, Fetched, FetchFails, AuthenticationFails, Authenticated,
                RefusedByFlag, AnswerOk, UnavailableHere, CreationUnavailable, DeleteUnavailable,
                PutUnavailable, UnavailableAfterError, AnswerError, AnswerExpired,
                AnswerExpiredAgain, NoAnswer, NextPath, Ended
  <2> QED BY <2>1, <2>2
<1> QED BY <1>1 DEF Inv, TypeOK

\* Only a request that the console carries out counts as applied.
LEMMA CarriedOut ==
    ASSUME Inv, [Next]_vars, NEW k \in Tasks, job[k].step = "call",
           job'[k].applied > job[k].applied
    PROVE  CarryOut(job[k])
<1>0. job[k] \in CallJobs /\ job[k].applied \in 0 .. 2
  BY Applied
<1>1. job'[k].applied # job[k].applied
  BY <1>0
<1>2. job \in [Tasks -> Jobs]
  BY DEF Inv, TypeOK, Jobs
<1>3. ASSUME NEW result, Ended(k, result) PROVE FALSE
  BY <1>1, <1>2, <1>3 DEF Ended
<1>4. ASSUME NEW unsupported, NEW doubt, NextPath(k, unsupported, job[k].applied, doubt) PROVE FALSE
  <2>. DEFINE j == [job[k] EXCEPT !.path = 2, !.unsupported = unsupported,
                                 !.applied = job[k].applied, !.doubtful = doubt]
  <2>1. job'[k] = j
    BY <1>2, <1>4 DEF NextPath
  <2>2. j.applied = job[k].applied
    BY <1>0 DEF CallJobs
  <2> QED BY <1>1, <2>1, <2>2
<1>5. CASE AnswerOk(k)
  BY <1>5 DEF AnswerOk
<1>6. CASE UnavailableHere(k)
  BY <1>4, <1>6 DEF UnavailableHere
<1>7. CASE CreationUnavailable(k) \/ PutUnavailable(k) \/ UnavailableAfterError(k)
           \/ AnswerExpiredAgain(k)
  BY <1>3, <1>7 DEF CreationUnavailable, PutUnavailable, UnavailableAfterError, AnswerExpiredAgain
<1>8. CASE DeleteUnavailable(k)
  <2>. DEFINE j == [job[k] EXCEPT !.method = "PUT", !.path = 1, !.unsupported = TRUE]
  <2>1. job'[k] = j
    BY <1>2, <1>8 DEF DeleteUnavailable
  <2>2. j.applied = job[k].applied
    BY <1>0 DEF CallJobs
  <2> QED BY <1>1, <2>1, <2>2
<1>9. CASE AnswerError(k)
  <2>1. PICK made \in {0, 1} :
           /\ IF made = 1 THEN CarryOut(job[k]) ELSE UNCHANGED console
           /\ \/ NextPath(k, FALSE, job[k].applied + made, TRUE)
              \/ job' = [job EXCEPT ![k] = [step |-> "free", result |-> "unsupported",
                                            applied |-> job[k].applied + made, doubtful |-> TRUE]]
    BY <1>9 DEF AnswerError
  <2>2. CASE made = 1
    BY <2>1, <2>2
  <2>3. CASE made = 0
    <3>1. job[k].applied + made = job[k].applied
      BY <1>0, <2>3
    <3>2. CASE NextPath(k, FALSE, job[k].applied + made, TRUE)
      BY <1>4, <3>1, <3>2
    <3>3. CASE job' = [job EXCEPT ![k] = [step |-> "free", result |-> "unsupported",
                                          applied |-> job[k].applied + made, doubtful |-> TRUE]]
      BY <1>1, <1>2, <3>1, <3>3
    <3> QED BY <2>1, <3>2, <3>3
  <2> QED BY <2>2, <2>3
<1>10. CASE AnswerExpired(k)
  <2>. DEFINE j == [job[k] EXCEPT !.step = "auth", !.again = TRUE]
  <2>1. job'[k] = j
    BY <1>2, <1>10 DEF AnswerExpired
  <2>2. j.applied = job[k].applied
    BY <1>0 DEF CallJobs
  <2> QED BY <1>1, <2>1, <2>2
<1>11. CASE NoAnswer(k)
  BY <1>3, <1>11 DEF NoAnswer
<1>12. ASSUME Proceed(k) PROVE CarryOut(job[k])
  <2>1. /\ ~Fetched(k) /\ ~Authenticated(k) /\ ~RefusedByFlag(k)
        /\ \A result : ~FetchFails(k, result) /\ ~AuthenticationFails(k, result)
    BY DEF Fetched, Authenticated, RefusedByFlag, FetchFails, AuthenticationFails
  <2> QED BY <1>5, <1>6, <1>7, <1>8, <1>9, <1>10, <1>11, <1>12, <2>1 DEF Proceed, Failed
<1>13. ~Begin(k)
  BY DEF Begin, ButtonPressed, EntityWrites, ServiceCalled, ServiceFetches, MayCall
<1>14. CASE Next
  <2>1. ASSUME NEW l \in Tasks, Begin(l) \/ Proceed(l) PROVE CarryOut(job[k])
    BY <1>1, <1>12, <1>13, <2>1, OthersStay
  <2>2. ASSUME RefreshReads \/ RefreshFails \/ \E t \in Targets : ConsoleEdits(t) \/ ConsoleRemoves(t)
        PROVE  FALSE
    BY <1>1, <2>2 DEF RefreshReads, RefreshFails, ConsoleEdits, ConsoleRemoves
  <2> QED BY <1>14, <2>1, <2>2 DEF Next
<1>15. CASE UNCHANGED vars
  BY <1>1, <1>15 DEF vars
<1> QED BY <1>14, <1>15

\* Turning everything off is met by a target without a setting.
LEMMA OffMeets ==
    ASSUME NEW ask, NEW setting, DeleteRequired(ask)
    PROVE  Meets(ask, setting, SettingFromItem(NoSetting))
<1>1. ask = [KeepAll EXCEPT !.enabled = FALSE]
  BY DEF DeleteRequired
<1>2. ask.enabled = FALSE /\ ask.limit = Keep
  BY <1>1 DEF KeepAll
<1>3. SettingFromItem(NoSetting).enabled = FALSE
  <2>1. NoSetting.enabled = FALSE
    BY DEF NoSetting
  <2>2. FALSE # Missing
    BY WritesAssumption
  <2> QED BY <2>1, <2>2 DEF SettingFromItem
<1>4. FALSE # Keep
  BY WritesAssumption
<1>5. SettingFromItem(NoSetting).enabled = Given(ask.enabled, setting.enabled)
  BY <1>2, <1>3, <1>4 DEF Given
<1> QED BY <1>1, <1>2, <1>5 DEF Meets

LEMMA EffectStep ==
    ASSUME Inv, Askeds, [Next]_vars, NEW k \in Tasks,
           job[k].step = "call", job[k].op = "settings", job'[k].applied > job[k].applied
    PROVE  Meets(job[k].ask, job[k].base, SettingFromItem(console'[job[k].target]))
<1>. DEFINE ask == job[k].ask
            target == job[k].target
<1>1. CarryOut(job[k])
  BY CarriedOut
<1>2. job[k] \in CallJobs /\ UnderWay(job[k], existing, served)
  BY Applied
<1>3. target \in Targets /\ job[k].base \in Setting /\ console \in [Targets -> Policy]
  BY <1>2 DEF CallJobs, Inv, TypeOK
<1>4. Proper(ask) /\ (job[k].method = "DELETE" => DeleteRequired(ask))
  BY DEF Askeds, Asked
<1>5. job[k].method \in {"PUT", "DELETE"}
  BY <1>2 DEF UnderWay
<1>6. CASE job[k].method = "PUT"
  <2>1. console' = [console EXCEPT ![target] = WriteBody(job[k].base, ask)]
    BY <1>1, <1>6 DEF CarryOut
  <2>2. console'[target] = WriteBody(job[k].base, ask)
    BY <1>3, <2>1
  <2> QED BY <1>3, <1>4, <2>2, BodyMeets
<1>7. CASE job[k].method = "DELETE"
  <2>1. console' = [console EXCEPT ![target] = NoSetting]
    BY <1>1, <1>7 DEF CarryOut
  <2>2. console'[target] = NoSetting
    BY <1>3, <2>1
  <2> QED BY <1>4, <1>7, <2>2, OffMeets
<1> QED BY <1>5, <1>6, <1>7

(***************************************************************************)
(* Theorems.                                                               *)
(***************************************************************************)

\* The inductive invariant: types, what a call under way has applied at most
\* and why (the path loops and the retry of api/snapshot.py:253-336, 405-484),
\* and what an ended call reports.
THEOREM InvHolds == Spec => []Inv
BY InvInitial, InvStep, PTL DEF Spec

\* Settings stay settings: whatever callers ask for and the console's
\* interface saves, what is read has the fields that entities show, and a body
\* that is written is something the console may hold (snapshot/write.py,
\* snapshot/schedule.py, snapshot/payload.py).
THEOREM TypeCorrect == Spec => []TypeOK
<1>1. Inv => TypeOK
  BY DEF Inv
<1> QED BY <1>1, InvHolds, PTL

\* What a call reports is what has happened: over all paths, the PUT after a
\* refused DELETE and the retry after a login, a snapshot that is reported as
\* created was created once, and a refused one not at all
\* (api/snapshot.py:253-336, 437-484).
THEOREM EffectReported == Spec => []EffectIsReported
<1>1. Inv => EffectIsReported
  BY DEF Inv, Sound, Reported, EffectIsReported
<1> QED BY <1>1, InvHolds, PTL

\* The flag that keeps every later write of a type from being sent is set
\* only on behalf of a target that is gone, or whose paths all refuse PUT: a
\* refused DELETE, an error on another path or a creation never set it
\* (api/snapshot.py:405-464).
THEOREM BlockedWhenRefused == Spec => BlockedOnlyWhenRefused
<1>1. ASSUME Inv, [Next]_vars
      PROVE  [\A type \in Types :
                flag'[<<"settings", type>>] = "no" /\ flag[<<"settings", type>>] # "no" =>
                    \E t \in Targets : /\ TypeOf[t] = type
                                       /\ \/ t \notin existing
                                          \/ \A p \in 1 .. Paths[t] : <<"PUT", p>> \notin served]_vars
  BY <1>1, BlockStep
<1> QED BY <1>1, InvHolds, PTL DEF Spec, BlockedOnlyWhenRefused

\* A request that is carried out leaves the setting that was read before the
\* call with what was asked, for every policy that the reader understands and
\* whatever was saved meanwhile: the limit and the days survive, a time means
\* what its text says or survives if it could be read, the schedule that is read
\* back is the one asked for or, if none was, the one before unless it was not
\* switched on or had no name, and DELETE is sent only for asks that turn
\* everything off (snapshot/write.py, snapshot/schedule.py,
\* snapshot/payload.py:175-227, api/snapshot.py:412-464).
THEOREM ChangesAsked == Spec => ChangesOnlyWhatWasAsked
<1>1. Spec => []Askeds
  BY AskedInitial, AskedStep, InvHolds, PTL DEF Spec
<1>2. ASSUME Inv, Askeds, [Next]_vars
      PROVE  [\A k \in Tasks :
                /\ job[k].step = "call" /\ job[k].op = "settings"
                /\ job'[k].applied > job[k].applied
                => Meets(job[k].ask, job[k].base, SettingFromItem(console'[job[k].target]))]_vars
  BY <1>2, EffectStep
<1> QED BY <1>1, <1>2, InvHolds, PTL DEF Spec, ChangesOnlyWhatWasAsked
=============================================================================
