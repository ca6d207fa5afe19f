---------------------------- MODULE SnapshotWrites ----------------------------
(***************************************************************************)
(* Changing the snapshot settings of a drive and creating snapshots        *)
(* (api/snapshot.py, snapshot/write.py, snapshot/schedule.py, services.py, *)
(* the switch, number, select, time and button entities).                  *)
(*                                                                         *)
(* A write is a whole setting: what the caller asks for, laid over the     *)
(* setting that was read last, as it was understood.  It is sent to        *)
(* several paths, and after an expired session all of it is sent again.    *)
(* Writers share the settings read last and the flags that say what the    *)
(* console supports; the console's own interface edits settings and        *)
(* removes drives meanwhile.                                               *)
(* The guard on an offline device only removes steps, and is left out.     *)
(***************************************************************************)
EXTENDS Integers, FiniteSets

CONSTANTS Tasks,      \* entities and services that write
          Targets,    \* drives with snapshot settings
          Types,      \* their types
          TypeOf,     \* the type of a target
          NameOf,     \* its name
          Paths,      \* how many paths a target's requests are tried on
          Firmwares,  \* what consoles may serve: sets of <<method, path>>
          Edits,      \* settings that the console's own interface saves
          LimitInputs, TimeInputs, WeekdayInputs, MonthdayInputs, \* from callers
          Asks,       \* bound: of what callers may ask for, what is tried
          MaxCalls,   \* bound: how many calls are made
          MaxEdits,   \* bound: how often the console's interface is used
          Keep,       \* stands for None: a field that is not given
          Missing,    \* a field that is absent or cannot be read
          Nothing     \* stands for a target that is not listed

MIN_SNAPSHOT_LIMIT == 1
MAX_SNAPSHOT_LIMIT == 256
DEFAULT_SNAPSHOT_LIMIT == 64
SNAPSHOT_SCHEDULE_OPTIONS == {"Never", "Daily", "Weekly", "Monthly"}

\* Days are sets of numbers; the text "*" is a day that no list holds, and any
\* number out of range stands for what is no day.
Star == -1
Weekdays  == 0 .. 6
Monthdays == 1 .. 31
Clock == (0 .. 23) \X (0 .. 59)

\* A setting as the console has it: the interval is that of one day or not, and
\* a limit that is absent is 0, which nothing here tells apart.
Policy == [enabled : {Missing} \cup BOOLEAN, max : Nat, enable : {Missing} \cup BOOLEAN,
           frequency : {Missing, "custom"} \cup SNAPSHOT_SCHEDULE_OPTIONS, daily : BOOLEAN,
           weekdays : SUBSET Int, monthdays : SUBSET Int, time : {Missing} \cup Clock]

\* A setting as it is read.
Setting == [enabled : BOOLEAN, max : Nat, enable : BOOLEAN,
            frequency : {"custom"} \cup SNAPSHOT_SCHEDULE_OPTIONS,
            weekdays : SUBSET Int, monthdays : SUBSET Int, time : {Missing} \cup Clock]

Ask == [enabled : {Keep} \cup BOOLEAN, limit : {Keep} \cup MIN_SNAPSHOT_LIMIT .. MAX_SNAPSHOT_LIMIT,
        frequency : {Keep} \cup SNAPSHOT_SCHEDULE_OPTIONS, time : {Keep} \cup Clock,
        weekdays : {Keep} \cup SUBSET Weekdays, monthdays : {Keep} \cup SUBSET Monthdays]

ASSUME WritesAssumption ==
    /\ TypeOf \in [Targets -> Types]
    /\ Paths \in [Targets -> {1, 2}]
    /\ Firmwares \subseteq SUBSET ({"PUT", "DELETE", "POST"} \X {1, 2})
    /\ Edits \subseteq Policy
    /\ WeekdayInputs \subseteq Int /\ MonthdayInputs \subseteq Int /\ LimitInputs \subseteq Int
    /\ TimeInputs \subseteq [hour : Nat, minute : Nat, suffix : {"", "am", "pm"}]
    /\ Nothing \notin Setting /\ Keep \notin BOOLEAN
    /\ Missing \notin BOOLEAN \cup Clock \cup {"custom"} \cup SNAPSHOT_SCHEDULE_OPTIONS
    /\ MaxCalls \in Nat /\ MaxEdits \in Nat

VARIABLES console,  \* the setting of every target, as the console has it
          existing, \* the targets that still exist
          served,   \* the requests that the console's firmware serves
          cached,   \* coordinator.snapshot_settings
          flag,     \* _snapshot_{settings_write,create}_supported_by_type
          job,      \* what every task is doing
          calls,    \* how many calls have been made
          edits     \* how many edits

vars == <<console, existing, served, cached, flag, job, calls, edits>>

(***************************************************************************)
(* Times, days and the body of a write.                                    *)
(***************************************************************************)

ScheduleHour(text) ==
    CASE text.suffix = "am" /\ text.hour = 12 -> 0
      [] text.suffix = "pm" /\ text.hour < 12 -> text.hour + 12
      [] OTHER -> text.hour

\* Mutant: the hour is not checked.
ScheduleTimeAny(text) == text.suffix # "" => text.hour \in 1 .. 12

\* `_schedule_time_parts`: the texts it does not refuse.
ScheduleTimeValid(text) ==
    /\ text.suffix # "" => text.hour \in 1 .. 12
    /\ <<ScheduleHour(text), text.minute>> \in Clock
ScheduleTimeParts(text) == <<ScheduleHour(text), text.minute>>

\* `_snapshot_existing_schedule_days`: what is no day of the range is skipped.
ExistingDays(days, range) == days \cap range

Dated(days) == days \notin {{}, {Star}}

\* What the days and the interval say, where the console names no frequency.
FrequencyOfDays(policy) ==
    CASE Dated(policy.monthdays) -> "Monthly"
      [] ~Dated(policy.monthdays) /\ Dated(policy.weekdays) -> "Weekly"
      [] OTHER -> IF policy.daily \/ policy.enable = TRUE THEN "Daily" ELSE "Never"

\* `_snapshot_schedule_frequency`: only a schedule that is switched off is
\* "Never" whatever else it says; one that is absent is not.
Frequency(policy) ==
    CASE policy.enable = FALSE -> "Never"
      [] policy.enable # FALSE /\ policy.frequency # Missing -> policy.frequency
      [] OTHER -> FrequencyOfDays(policy)

\* `_snapshot_setting_from_item`
SettingFromItem(policy) ==
    [enabled   |-> IF policy.enabled = Missing THEN policy.max > 0 ELSE policy.enabled,
     max       |-> policy.max,
     enable    |-> policy.enable = TRUE,
     frequency |-> Frequency(policy),
     weekdays  |-> policy.weekdays,
     monthdays |-> policy.monthdays,
     time      |-> policy.time]

Given(asked, default) == IF asked = Keep THEN default ELSE asked
FirstNonEmpty(days, default) == IF days = {} THEN default ELSE days

\* Mutant: the days that are set already are forgotten.
ScheduleDaysForgetting(asked, current, range) == Given(asked, {1})

\* The days asked for, else those that are set, else the first.
ScheduleDays(asked, current, range) ==
    Given(asked, FirstNonEmpty(ExistingDays(current, range), {1}))

\* `max_snapshots` before it is clamped.
WantedLimit(setting, ask, enabled) ==
    CASE ask.limit # Keep -> ask.limit
      [] ask.limit = Keep /\ setting.max >= MIN_SNAPSHOT_LIMIT -> setting.max
      [] OTHER -> IF enabled THEN DEFAULT_SNAPSHOT_LIMIT ELSE MIN_SNAPSHOT_LIMIT

\* `_snapshot_settings_write_body` with `_snapshot_settings_schedule_body`: what
\* the console has when it has put the body in the place of its setting.
WriteBody(setting, ask) ==
    LET enabled   == Given(ask.enabled, setting.enabled)
        frequency == Given(ask.frequency, setting.frequency)
        wanted    == WantedLimit(setting, ask, enabled)
    IN  [enabled   |-> enabled,
         max       |-> IF wanted > MAX_SNAPSHOT_LIMIT THEN MAX_SNAPSHOT_LIMIT ELSE wanted,
         enable    |-> frequency # "Never" /\ (ask.frequency # Keep \/ setting.enable),
         frequency |-> Missing,
         daily     |-> TRUE,
         weekdays  |-> CASE frequency = "Weekly"  -> ScheduleDays(ask.weekdays, setting.weekdays, Weekdays)
                         [] frequency = "Monthly" -> {}
                         [] OTHER                 -> {Star},
         monthdays |-> IF frequency = "Monthly"
                         THEN ScheduleDays(ask.monthdays, setting.monthdays, Monthdays)
                         ELSE {},
         time      |-> Given(ask.time, IF setting.time = Missing THEN <<0, 0>> ELSE setting.time)]

KeepAll == [enabled |-> Keep, limit |-> Keep, frequency |-> Keep, time |-> Keep,
            weekdays |-> Keep, monthdays |-> Keep]

\* `delete_required`: nothing but turning off.
DeleteRequired(ask) == ask = [KeepAll EXCEPT !.enabled = FALSE]

\* What the console holds after a DELETE.
NoSetting == [enabled |-> FALSE, max |-> 0, enable |-> Missing, frequency |-> Missing,
              daily |-> FALSE, weekdays |-> {}, monthdays |-> {}, time |-> Missing]

(***************************************************************************)
(* What entities and services ask for, once they have checked it.          *)
(***************************************************************************)
Limits == {n \in LimitInputs : n >= MIN_SNAPSHOT_LIMIT /\ n <= MAX_SNAPSHOT_LIMIT}
Times  == {ScheduleTimeParts(text) : text \in {t \in TimeInputs : ScheduleTimeValid(t)}}
WeekdayChoices  == {{d} : d \in WeekdayInputs \cap Weekdays}
MonthdayChoices == {{d} : d \in MonthdayInputs \cap Monthdays}

LimitAsks == {[KeepAll EXCEPT !.limit = n] : n \in Limits}

EntityAsks ==
    {[KeepAll EXCEPT !.enabled = on] : on \in BOOLEAN}
    \cup LimitAsks
    \cup {[KeepAll EXCEPT !.frequency = f] : f \in SNAPSHOT_SCHEDULE_OPTIONS}
    \cup {[KeepAll EXCEPT !.frequency = "Weekly", !.weekdays = d] : d \in WeekdayChoices}
    \cup {[KeepAll EXCEPT !.frequency = "Monthly", !.monthdays = d] : d \in MonthdayChoices}
    \cup {[KeepAll EXCEPT !.time = t] : t \in Times}

ServiceAsks ==
    LimitAsks
    \cup [enabled : {Keep}, limit : {Keep}, frequency : SNAPSHOT_SCHEDULE_OPTIONS,
          time : Times \cup {Keep}, weekdays : WeekdayChoices \cup {Keep},
          monthdays : MonthdayChoices \cup {Keep}]

\* The filters of a service call; a target must match all that are given.
Filters == [key : Targets \cup {Keep}, name : {NameOf[t] : t \in Targets} \cup {Keep},
            type : Types \cup {Keep}]
Matching(filter) ==
    {t \in Targets : /\ filter.key \in {Keep, t}
                     /\ filter.name \in {Keep, NameOf[t]}
                     /\ filter.type \in {Keep, TypeOf[t]}}
Listed == {t \in Targets : cached[t] # Nothing}
Read == [t \in Targets |-> IF t \in existing THEN SettingFromItem(console[t]) ELSE Nothing]

(***************************************************************************)
(* Jobs.                                                                   *)
(***************************************************************************)
Operations == {"settings", "create"}
Results == {"done", "unsupported", "permission", "failed"}

FreeJobs == [step : {"free"}, result : Results, applied : 0 .. 3, doubtful : BOOLEAN]
FetchJobs == [step : {"fetch"}, op : Operations, ask : Ask, wanted : SUBSET Targets]
CallJobs == [step : {"auth", "call"}, op : Operations, ask : Ask, target : Targets,
             base : Setting, method : {"PUT", "DELETE", "POST"}, path : {1, 2},
             unsupported : BOOLEAN, again : BOOLEAN, applied : 0 .. 2, doubtful : BOOLEAN]

TypeOK ==
    /\ console \in [Targets -> Policy]
    /\ existing \in SUBSET Targets
    /\ served \in Firmwares
    /\ cached \in [Targets -> Setting \cup {Nothing}]
    /\ flag \in [Operations \X Types -> {"unknown", "yes", "no"}]
    /\ job \in [Tasks -> FreeJobs \cup FetchJobs \cup CallJobs]
    /\ calls \in 0 .. MaxCalls
    /\ edits \in 0 .. MaxEdits

Init ==
    /\ console \in [Targets -> Edits]
    /\ existing = Targets
    /\ served \in Firmwares
    /\ cached = Read
    /\ flag = [f \in Operations \X Types |-> "unknown"]
    /\ job = [k \in Tasks |-> [step |-> "free", result |-> "failed", applied |-> 0, doubtful |-> FALSE]]
    /\ calls = 0
    /\ edits = 0

(***************************************************************************)
(* A call begins: `_async_update_snapshot_target` or the press of a button *)
(* on an entity, a service with its filters.                               *)
(***************************************************************************)

\* The call goes to the client, with the target's setting as it was read last.
\* `_ensure_authenticated` comes first.
Called(op, ask, t, base) ==
    [step |-> "auth", op |-> op, ask |-> ask, target |-> t, base |-> base,
     method |-> "PUT", path |-> 1, unsupported |-> TRUE, again |-> FALSE,
     applied |-> 0, doubtful |-> FALSE]

MayCall(k) ==
    /\ job[k].step = "free"
    /\ calls < MaxCalls
    /\ calls' = calls + 1

EntityWrites(k, t, ask) ==
    /\ MayCall(k)
    /\ t \in Listed
    /\ job' = [job EXCEPT ![k] = Called("settings", ask, t, cached[t])]
    /\ UNCHANGED <<console, existing, served, cached, flag, edits>>

\* The button creates snapshots only of a target that is enabled.
ButtonPressed(k, t) ==
    /\ MayCall(k)
    /\ t \in Listed
    /\ cached[t].enabled
    /\ job' = [job EXCEPT ![k] = Called("create", KeepAll, t, cached[t])]
    /\ UNCHANGED <<console, existing, served, cached, flag, edits>>

\* `_snapshot_target_from_call_data`: exactly one target must match.
Select(k, op, ask, wanted) ==
    \E t \in Targets :
        /\ Listed \cap wanted = {t}
        /\ job' = [job EXCEPT ![k] = Called(op, ask, t, cached[t])]

ServiceCalled(k, op, ask, wanted) ==
    /\ MayCall(k)
    /\ Listed # {}
    /\ Select(k, op, ask, wanted)
    /\ UNCHANGED <<console, existing, served, cached, flag, edits>>

\* Nothing is cached: the service reads the targets itself.
ServiceFetches(k, op, ask, wanted) ==
    /\ MayCall(k)
    /\ Listed = {}
    /\ job' = [job EXCEPT ![k] = [step |-> "fetch", op |-> op, ask |-> ask,
                                  wanted |-> wanted]]
    /\ UNCHANGED <<console, existing, served, cached, flag, edits>>

\* The service caches what it reads, and selects from it or raises.
Fetched(k) ==
    /\ job[k].step = "fetch"
    /\ cached' = Read
    /\ LET matching == existing \cap job[k].wanted
           target == CHOOSE t \in matching : TRUE
       IN  job' = [job EXCEPT ![k] =
                     IF Cardinality(matching) = 1
                       THEN Called(job[k].op, job[k].ask, target, Read[target])
                       ELSE [step |-> "free", result |-> "failed", applied |-> 0, doubtful |-> FALSE]]
    /\ UNCHANGED <<console, existing, served, flag, calls, edits>>

(***************************************************************************)
(* The client: one attempt over all paths, and a second one after a login. *)
(***************************************************************************)
Ended(k, result) ==
    job' = [job EXCEPT ![k] = [step |-> "free", result |-> result,
                               applied |-> job[k].applied, doubtful |-> job[k].doubtful]]

FetchFails(k, result) ==
    /\ job[k].step = "fetch"
    /\ job' = [job EXCEPT ![k] = [step |-> "free", result |-> result,
                                  applied |-> 0, doubtful |-> FALSE]]
    /\ UNCHANGED <<console, existing, served, cached, flag, calls, edits>>

FirstMethod(j) ==
    CASE j.op = "create" -> "POST"
      [] j.op = "settings" /\ DeleteRequired(j.ask) -> "DELETE"
      [] OTHER -> "PUT"

Blocked(j) == j.op = "settings" /\ flag[<<"settings", TypeOf[j.target]>>] = "no"

\* Logged in: the attempt begins at the first path.
Authenticated(k) ==
    /\ job[k].step = "auth"
    /\ ~Blocked(job[k])
    /\ job' = [job EXCEPT ![k] = [@ EXCEPT !.step = "call", !.method = FirstMethod(job[k]),
                                            !.path = 1, !.unsupported = TRUE]]
    /\ UNCHANGED <<console, existing, served, cached, flag, calls, edits>>

\* ... unless the writes of this type are known to be unsupported.
RefusedByFlag(k) ==
    /\ job[k].step = "auth"
    /\ Blocked(job[k])
    /\ Ended(k, "unsupported")
    /\ UNCHANGED <<console, existing, served, cached, flag, calls, edits>>

AuthenticationFails(k, result) ==
    /\ job[k].step = "auth"
    /\ Ended(k, result)
    /\ UNCHANGED <<console, existing, served, cached, flag, calls, edits>>

Serves(j) == j.target \in existing /\ <<j.method, j.path>> \in served

\* The console carries a request out.
CarryOut(j) ==
    console' = CASE j.method = "PUT"    -> [console EXCEPT ![j.target] = WriteBody(j.base, j.ask)]
                 [] j.method = "DELETE" -> [console EXCEPT ![j.target] = NoSetting]
                 [] OTHER               -> console

SetFlag(op, t, value) == flag' = [flag EXCEPT ![<<op, TypeOf[t]>>] = value]

\* Mutant: success does not end the sequence of paths.
AnswerOkGoesOn(k) ==
    /\ job[k].step = "call"
    /\ Serves(job[k])
    /\ CarryOut(job[k])
    /\ SetFlag(job[k].op, job[k].target, "yes")
    /\ job' = [job EXCEPT ![k] =
                 IF job[k].path < Paths[job[k].target]
                   THEN [job[k] EXCEPT !.path = 2, !.applied = @ + 1]
                   ELSE [step |-> "free", result |-> "done", applied |-> job[k].applied + 1,
                         doubtful |-> job[k].doubtful]]
    /\ UNCHANGED <<existing, served, cached, calls, edits>>

AnswerOk(k) ==
    /\ job[k].step = "call"
    /\ Serves(job[k])
    /\ CarryOut(job[k])
    /\ SetFlag(job[k].op, job[k].target, "yes")
    /\ job' = [job EXCEPT ![k] = [step |-> "free", result |-> "done",
                                  applied |-> job[k].applied + 1, doubtful |-> job[k].doubtful]]
    /\ UNCHANGED <<existing, served, cached, calls, edits>>

\* Another path is left.
NextPath(k, unsupported, made, doubt) ==
    /\ job[k].path < Paths[job[k].target]
    /\ job' = [job EXCEPT ![k] = [@ EXCEPT !.path = 2, !.unsupported = unsupported,
                                            !.applied = made, !.doubtful = doubt]]

\* 404 or 405.  A creation records it for every path.
Unavailable(k) == job[k].step = "call" /\ ~Serves(job[k])

UnavailableHere(k) ==
    /\ Unavailable(k)
    /\ NextPath(k, job[k].unsupported, job[k].applied, job[k].doubtful)
    /\ IF job[k].op = "create" THEN SetFlag("create", job[k].target, "no") ELSE UNCHANGED flag
    /\ UNCHANGED <<console, existing, served, cached, calls, edits>>

CreationUnavailable(k) ==
    /\ Unavailable(k)
    /\ job[k].op = "create"
    /\ job[k].path = Paths[job[k].target]
    /\ SetFlag("create", job[k].target, "no")
    /\ Ended(k, "unsupported")
    /\ UNCHANGED <<console, existing, served, cached, calls, edits>>

\* Mutant: a refused DELETE counts as a refused write.
DeleteUnavailableBlocks(k) ==
    /\ Unavailable(k)
    /\ job[k].method = "DELETE"
    /\ job[k].path = Paths[job[k].target]
    /\ job[k].unsupported
    /\ SetFlag("settings", job[k].target, "no")
    /\ job' = [job EXCEPT ![k] = [@ EXCEPT !.method = "PUT", !.path = 1, !.unsupported = TRUE]]
    /\ UNCHANGED <<console, existing, served, cached, calls, edits>>

\* No path takes DELETE: turn off with a PUT.
DeleteUnavailable(k) ==
    /\ Unavailable(k)
    /\ job[k].method = "DELETE"
    /\ job[k].path = Paths[job[k].target]
    /\ job[k].unsupported
    /\ job' = [job EXCEPT ![k] = [@ EXCEPT !.method = "PUT", !.path = 1, !.unsupported = TRUE]]
    /\ UNCHANGED <<console, existing, served, cached, flag, calls, edits>>

\* No path takes PUT: writes of this type are unsupported from now on.
PutUnavailable(k) ==
    /\ Unavailable(k)
    /\ job[k].method = "PUT"
    /\ job[k].path = Paths[job[k].target]
    /\ job[k].unsupported
    /\ SetFlag("settings", job[k].target, "no")
    /\ Ended(k, "unsupported")
    /\ UNCHANGED <<console, existing, served, cached, calls, edits>>

\* An earlier path has answered with an error: no fallback, no flag.
UnavailableAfterError(k) ==
    /\ Unavailable(k)
    /\ job[k].op = "settings"
    /\ job[k].path = Paths[job[k].target]
    /\ ~job[k].unsupported
    /\ Ended(k, "unsupported")
    /\ UNCHANGED <<console, existing, served, cached, flag, calls, edits>>

\* Any other status; whether the request was carried out is unknown.
AnswerError(k) ==
    /\ job[k].step = "call"
    /\ Serves(job[k])
    /\ \E made \in {0, 1} :
          /\ IF made = 1 THEN CarryOut(job[k]) ELSE UNCHANGED console
          /\ \/ NextPath(k, FALSE, job[k].applied + made, TRUE)
             \/ /\ job[k].path = Paths[job[k].target]
                /\ job' = [job EXCEPT ![k] = [step |-> "free", result |-> "unsupported",
                                              applied |-> job[k].applied + made, doubtful |-> TRUE]]
    /\ UNCHANGED <<existing, served, cached, flag, calls, edits>>

\* 401 or 403: a login and, once, everything again.
AnswerExpired(k) ==
    /\ job[k].step = "call"
    /\ ~job[k].again
    /\ job' = [job EXCEPT ![k] = [@ EXCEPT !.step = "auth", !.again = TRUE]]
    /\ UNCHANGED <<console, existing, served, cached, flag, calls, edits>>

AnswerExpiredAgain(k) ==
    /\ job[k].step = "call"
    /\ job[k].again
    /\ Ended(k, "permission")
    /\ UNCHANGED <<console, existing, served, cached, flag, calls, edits>>

\* No answer: `CannotConnect` ends the call, whatever the console has done.
NoAnswer(k) ==
    /\ job[k].step = "call"
    /\ \/ /\ UNCHANGED console
          /\ Ended(k, "failed")
       \/ /\ Serves(job[k])
          /\ CarryOut(job[k])
          /\ job' = [job EXCEPT ![k] = [step |-> "free", result |-> "failed",
                                        applied |-> job[k].applied + 1, doubtful |-> job[k].doubtful]]
    /\ UNCHANGED <<existing, served, cached, flag, calls, edits>>

(***************************************************************************)
(* The coordinator's reads, and the console's own interface.               *)
(***************************************************************************)
RefreshReads ==
    /\ cached' = Read
    /\ UNCHANGED <<console, existing, served, flag, job, calls, edits>>

RefreshFails ==
    /\ cached' = [t \in Targets |-> Nothing]
    /\ UNCHANGED <<console, existing, served, flag, job, calls, edits>>

ConsoleEdits(t) ==
    /\ t \in existing
    /\ edits < MaxEdits
    /\ edits' = edits + 1
    /\ \E policy \in Edits : console' = [console EXCEPT ![t] = policy]
    /\ UNCHANGED <<existing, served, cached, flag, job, calls>>

ConsoleRemoves(t) ==
    /\ t \in existing
    /\ edits < MaxEdits
    /\ edits' = edits + 1
    /\ existing' = existing \ {t}
    /\ UNCHANGED <<console, served, cached, flag, job, calls>>

-----------------------------------------------------------------------------

Begin(k) ==
    \/ \E t \in Targets : ButtonPressed(k, t) \/ \E ask \in EntityAsks \cap Asks : EntityWrites(k, t, ask)
    \/ \E wanted \in {Matching(filter) : filter \in Filters} :
          \/ ServiceCalled(k, "create", KeepAll, wanted) \/ ServiceFetches(k, "create", KeepAll, wanted)
          \/ \E ask \in ServiceAsks \cap Asks : \/ ServiceCalled(k, "settings", ask, wanted)
                                              \/ ServiceFetches(k, "settings", ask, wanted)

Failed(k) == \E result \in {"permission", "failed"} : FetchFails(k, result) \/ AuthenticationFails(k, result)

Proceed(k) ==
    \/ Fetched(k) \/ Failed(k) \/ Authenticated(k) \/ RefusedByFlag(k)
    \/ AnswerOk(k) \/ UnavailableHere(k) \/ CreationUnavailable(k) \/ DeleteUnavailable(k)
    \/ PutUnavailable(k) \/ UnavailableAfterError(k) \/ AnswerError(k)
    \/ AnswerExpired(k) \/ AnswerExpiredAgain(k) \/ NoAnswer(k)

Next ==
    \/ \E k \in Tasks : Begin(k) \/ Proceed(k)
    \/ RefreshReads \/ RefreshFails
    \/ \E t \in Targets : ConsoleEdits(t) \/ ConsoleRemoves(t)

Spec == Init /\ [][Next]_vars

(***************************************************************************)
(* Properties.                                                             *)
(***************************************************************************)

\* The hour a text means: 12 am is midnight, 12 pm is noon.
MeantHour(text) ==
    IF text.suffix = "" THEN text.hour ELSE (text.hour % 12) + (IF text.suffix = "pm" THEN 12 ELSE 0)
MeantTimes == {<<MeantHour(text), text.minute>> : text \in TimeInputs}

\* The frequency shown after a write that asks for none: a schedule that is not
\* switched on ends, also one that is shown because of its days or its interval,
\* and one without a name here becomes daily.
KeptFrequency(base) ==
    CASE ~base.enable -> "Never"
      [] base.enable /\ base.frequency = "custom" -> "Daily"
      [] OTHER -> base.frequency

\* The days after a write: those asked for, else the valid ones of before.
DaysMeet(asked, before, after, range) ==
    CASE asked # Keep -> after = asked
      [] OTHER -> before \cap range # {} => after = before \cap range

\* What a write with this ask may make of the setting that was read.
Meets(ask, base, new) ==
    /\ new.enabled = Given(ask.enabled, base.enabled)
    /\ ask.limit # Keep => new.max = ask.limit
    /\ ask # [KeepAll EXCEPT !.enabled = FALSE] =>
          /\ ask.limit = Keep /\ base.max \in 1 .. 256 => new.max = base.max
          /\ new.max \in 1 .. 256
          /\ new.frequency = Given(ask.frequency, KeptFrequency(base))
          /\ ask.time # Keep => new.time = ask.time /\ ask.time \in MeantTimes
          /\ ask.time = Keep /\ base.time # Missing => new.time = base.time
          /\ new.frequency = "Weekly" =>
                DaysMeet(ask.weekdays, base.weekdays, new.weekdays, Weekdays)
          /\ new.frequency = "Monthly" =>
                DaysMeet(ask.monthdays, base.monthdays, new.monthdays, Monthdays)

\* When the console carries a request out, the setting that will be read back is
\* what the caller asked for over the setting read before the call, whatever the
\* console's interface has saved meanwhile: the limit, whether snapshots are
\* taken and the days survive, a time survives if it could be read, and so does
\* the frequency, except that a schedule which is not switched on ends and one
\* without a name becomes daily (write.py, schedule.py, payload.py:175-227, and
\* the DELETE and PUT of api/snapshot.py:412-464).
ChangesOnlyWhatWasAsked ==
    [][\A k \in Tasks :
          /\ job[k].step = "call" /\ job[k].op = "settings"
          /\ job'[k].applied > job[k].applied
          => Meets(job[k].ask, job[k].base, SettingFromItem(console'[job[k].target]))]_vars

\* The caller is told what has happened: a call that is done has taken effect
\* once, one that is refused not at all, one without an answer at most once,
\* over all paths and the retry after a login, unless the console answered
\* with an error of its own (api/snapshot.py:253-336, 437-484).
EffectIsReported ==
    \A k \in Tasks :
        job[k].step = "free" /\ ~job[k].doubtful =>
            /\ job[k].result = "done" => job[k].applied = 1
            /\ job[k].result \in {"unsupported", "permission"} => job[k].applied = 0
            /\ job[k].applied <= 1

\* Settings writes of a type are switched off only by a target of that type
\* which the console has removed, or whose paths all refuse PUT.
BlockedOnlyWhenRefused ==
    [][\A type \in Types :
          flag'[<<"settings", type>>] = "no" /\ flag[<<"settings", type>>] # "no" =>
              \E t \in Targets : /\ TypeOf[t] = type
                                 /\ \/ t \notin existing
                                    \/ \A p \in 1 .. Paths[t] : <<"PUT", p>> \notin served]_vars
=============================================================================
