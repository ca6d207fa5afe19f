--------------------------- MODULE UnasCoordinator ---------------------------
(***************************************************************************)
(* The update coordinator of one config entry (coordinator.py) with what   *)
(* runs beside it: the one-shot startup refresh that __init__.py:160-164   *)
(* starts, and the fan-mode writes of select.py and services.py, after     *)
(* which a refresh is requested.                                           *)
(*                                                                         *)
(* Home Assistant's DataUpdateCoordinator is external: it runs one poll at *)
(* a time, drops a refresh requested while a poll runs, and stops polling  *)
(* after ConfigEntryAuthFailed.  The poll and the startup refresh are the  *)
(* two `Readers`; they interleave at every await.  The slow tier has two   *)
(* `Parts`: the fan mode, whose value is followed from the device to       *)
(* `fan_mode`, and "rest", the backup tasks and snapshot reads after it.   *)
(***************************************************************************)
EXTENDS Integers

CONSTANTS Writers,     \* concurrent fan-mode writes
          Modes,       \* fan modes
          NoMode,      \* `fan_mode` is None
          Conditions,  \* the conditions the device can be in
          WolEnabled   \* the Wake-on-LAN option of the entry

AllConditions == {"up", "slow", "down", "broken", "locked"}
Threshold == 2         \* _CONNECTION_FAILURES_BEFORE_OFFLINE

ASSUME CoordinatorAssumption ==
    /\ NoMode \notin Modes
    /\ Conditions \subseteq AllConditions
    /\ WolEnabled \in BOOLEAN

VARIABLES data,          \* coordinator.data: none, live, or marked offline
          online,        \* is_device_online
          failures,      \* _connection_failure_count, up to Threshold
          lastSuccess,   \* last_update_success
          armed,         \* a next poll is scheduled
          lastSlow,      \* _last_slow_refresh: never, recent (< 10 min), old
          slowRequested, \* _slow_refresh_requested
          first,         \* the first, core-only refresh is not over
          at,            \* where each reader is suspended
          sample,        \* the fan mode in the answer to a reader
          fanMode,       \* coordinator.fan_mode
          readable,      \* client.fan_mode_read_supported is not False
          write,         \* where each fan-mode write is
          target,        \* the mode each write asks for
          device,        \* environment: the condition of the device
          deviceFan,     \* environment: the device's fan mode
          owed,          \* history: parts not read since a refresh request
          excused,       \* history: parts whose last read or report failed
          overtaken      \* history: readers holding an older fan answer

health == <<online, failures>>
polling == <<data, lastSuccess, armed, first>>
tier == <<lastSlow, slowRequested>>
fan == <<sample, fanMode, readable>>
user == <<write, target>>
env == <<device, deviceFan>>
ghosts == <<owed, excused, overtaken>>
vars == <<health, polling, tier, at, fan, user, env, ghosts>>

Readers == {"poll", "startup"}
Parts == {"fan", "rest"}
\* The poll's storage read, when the slow tier is due and when it is not.
StorageStages == {"storageDue", "storage"}
Stages == StorageStages \cup
          {"idle", "ready", "fan", "answered", "rest", "finishing"}

TypeOK ==
    /\ data \in {"none", "live", "offline"}
    /\ online \in BOOLEAN
    /\ failures \in 0 .. Threshold
    /\ lastSuccess \in BOOLEAN
    /\ armed \in BOOLEAN
    /\ lastSlow \in {"never", "recent", "old"}
    /\ slowRequested \in BOOLEAN
    /\ first \in BOOLEAN
    /\ at \in [Readers -> Stages]
    /\ sample \in [Readers -> Modes \cup {NoMode}]
    /\ fanMode \in Modes \cup {NoMode}
    /\ readable \in BOOLEAN
    /\ write \in [Writers -> {"idle", "sent", "applied"}]
    /\ target \in [Writers -> Modes \cup {NoMode}]
    /\ device \in Conditions
    /\ deviceFan \in Modes
    /\ owed \subseteq Parts
    /\ excused \subseteq Parts
    /\ overtaken \subseteq Readers

Init ==
    /\ data = "none"
    /\ online = TRUE
    /\ failures = 0
    /\ lastSuccess = TRUE
    /\ armed = TRUE
    /\ lastSlow = "never"
    /\ slowRequested = FALSE
    /\ first = TRUE
    /\ at = [r \in Readers |-> "idle"]
    /\ sample = [r \in Readers |-> NoMode]
    /\ fanMode = NoMode
    /\ readable = TRUE
    /\ write = [w \in Writers |-> "idle"]
    /\ target = [w \in Writers |-> NoMode]
    /\ device \in Conditions
    /\ deviceFan \in Modes
    /\ owed = {}
    /\ excused = {}
    /\ overtaken = {}

(***************************************************************************)
(* The poll: _async_update_data.                                           *)
(***************************************************************************)

\* Mutant: the ten-minute interval is forgotten.
SlowRefreshOnRequest == slowRequested \/ lastSlow = "never"

SlowRefreshDue == slowRequested \/ lastSlow # "recent"

\* `_slow_refresh_due`: the request is consumed as the poll starts.
PollBegin ==
    /\ at["poll"] = "idle"
    /\ armed
    /\ armed' = FALSE
    /\ at' = [at EXCEPT !["poll"] = IF SlowRefreshDue THEN "storageDue" ELSE "storage"]
    /\ slowRequested' = IF SlowRefreshDue THEN FALSE ELSE slowRequested
    /\ UNCHANGED <<health, data, lastSuccess, first, lastSlow, fan, user, env, ghosts>>

\* The poll hands its storage payload (or the copy marked offline) to Home
\* Assistant, which publishes it and schedules the next poll.
Publish(payload) ==
    /\ data' = payload
    /\ lastSuccess' = TRUE
    /\ armed' = TRUE

\* A poll that was to read the slow tier ends without having read `parts`.
Excuse(parts) ==
    excused' = IF at["poll"] # "storage" THEN excused \cup parts ELSE excused

\* The first refresh stops after the storage read; entities are set up and
\* the startup refresh is created.
FirstAnswered ==
    /\ first
    /\ at["poll"] \in StorageStages
    /\ device \in {"up", "slow"}
    /\ online' = TRUE
    /\ failures' = 0
    /\ Publish("live")
    /\ first' = FALSE
    /\ at' = [r \in Readers |-> IF r = "poll" THEN "idle" ELSE "ready"]
    /\ UNCHANGED <<tier, fan, user, env, ghosts>>

\* The first refresh failed: setup is retried with a new coordinator.
FirstFailed ==
    /\ first
    /\ at["poll"] \in StorageStages
    /\ IF WolEnabled THEN device = "locked" ELSE device \in {"down", "broken", "locked"}
    /\ at' = [at EXCEPT !["poll"] = "idle"]
    /\ armed' = TRUE
    /\ UNCHANGED <<health, data, lastSuccess, first, tier, fan, user, env, ghosts>>

\* With Wake-on-LAN, setup goes on without data.
FirstWithoutData(failed) ==
    /\ first
    /\ WolEnabled
    /\ at["poll"] \in StorageStages
    /\ first' = FALSE
    /\ lastSuccess' = FALSE
    /\ armed' = TRUE
    /\ at' = [r \in Readers |-> IF r = "poll" THEN "idle" ELSE "ready"]
    /\ device = failed
    /\ UNCHANGED <<data, tier, fan, user, env, ghosts>>

FirstUnreachable ==
    /\ FirstWithoutData("down")
    /\ online' = FALSE
    /\ failures' = Threshold

FirstUnexpected ==
    /\ FirstWithoutData("broken")
    /\ UNCHANGED health

\* Where a reader goes first in the optional endpoints.
OptionalStart == IF readable THEN "fan" ELSE "rest"

\* The storage read succeeded and the slow tier is due.
StorageThenSlow ==
    /\ ~first
    /\ at["poll"] = "storageDue"
    /\ device \in {"up", "slow"}
    /\ online' = TRUE
    /\ failures' = 0
    /\ at' = [at EXCEPT !["poll"] = OptionalStart]
    /\ excused' = IF readable THEN excused ELSE excused \cup {"fan"}
    /\ UNCHANGED <<polling, tier, fan, user, env, owed, overtaken>>

\* Mutant: a successful poll does not bring the device back online.
StorageOnlyStillOffline ==
    /\ ~first
    /\ at["poll"] = "storage"
    /\ device \in {"up", "slow"}
    /\ failures' = 0
    /\ Publish("live")
    /\ at' = [at EXCEPT !["poll"] = "idle"]
    /\ UNCHANGED <<online, first, tier, fan, user, env, ghosts>>

\* The storage read succeeded and was all there is to do.
StorageOnly ==
    /\ ~first
    /\ at["poll"] = "storage"
    /\ device \in {"up", "slow"}
    /\ online' = TRUE
    /\ failures' = 0
    /\ Publish("live")
    /\ at' = [at EXCEPT !["poll"] = "idle"]
    /\ UNCHANGED <<first, tier, fan, user, env, ghosts>>

\* Mutant: the failed poll is not scheduled again.
MissWithoutDataStops ==
    /\ ~first
    /\ at["poll"] \in StorageStages
    /\ device = "down"
    /\ data = "none"
    /\ online' = FALSE
    /\ failures' = Threshold
    /\ lastSuccess' = FALSE
    /\ at' = [at EXCEPT !["poll"] = "idle"]
    /\ Excuse(Parts)
    /\ UNCHANGED <<data, armed, first, tier, fan, user, env, owed, overtaken>>

\* `_handle_connection_failure` without cached data: UpdateFailed.
MissWithoutData ==
    /\ ~first
    /\ at["poll"] \in StorageStages
    /\ device = "down"
    /\ data = "none"
    /\ online' = FALSE
    /\ failures' = Threshold
    /\ lastSuccess' = FALSE
    /\ armed' = TRUE
    /\ at' = [at EXCEPT !["poll"] = "idle"]
    /\ Excuse(Parts)
    /\ UNCHANGED <<data, first, tier, fan, user, env, owed, overtaken>>

\* Mutant: two misses are tolerated (off by one in the threshold).
MissToleratedTwice ==
    /\ ~first
    /\ at["poll"] \in StorageStages
    /\ device = "down"
    /\ data # "none"
    /\ online /\ failures < Threshold
    /\ failures' = failures + 1
    /\ Publish(data)
    /\ at' = [at EXCEPT !["poll"] = "idle"]
    /\ Excuse(Parts)
    /\ UNCHANGED <<online, first, tier, fan, user, env, owed, overtaken>>

\* `_handle_connection_failure`: one miss is tolerated ...
MissTolerated ==
    /\ ~first
    /\ at["poll"] \in StorageStages
    /\ device = "down"
    /\ data # "none"
    /\ online /\ failures + 1 < Threshold
    /\ failures' = failures + 1
    /\ Publish(data)
    /\ at' = [at EXCEPT !["poll"] = "idle"]
    /\ Excuse(Parts)
    /\ UNCHANGED <<online, first, tier, fan, user, env, owed, overtaken>>

\* Mutant: the second miss is published without the offline mark.
MissKeepsOnline ==
    /\ ~first
    /\ at["poll"] \in StorageStages
    /\ device = "down"
    /\ data # "none"
    /\ ~(online /\ failures + 1 < Threshold)
    /\ failures' = IF failures < Threshold THEN failures + 1 ELSE failures
    /\ Publish(data)
    /\ at' = [at EXCEPT !["poll"] = "idle"]
    /\ Excuse(Parts)
    /\ UNCHANGED <<online, first, tier, fan, user, env, owed, overtaken>>

\* ... the next one publishes a copy of the data marked offline.
MissOffline ==
    /\ ~first
    /\ at["poll"] \in StorageStages
    /\ device = "down"
    /\ data # "none"
    /\ ~(online /\ failures + 1 < Threshold)
    /\ online' = FALSE
    /\ failures' = IF failures < Threshold THEN failures + 1 ELSE failures
    /\ Publish("offline")
    /\ at' = [at EXCEPT !["poll"] = "idle"]
    /\ Excuse(Parts)
    /\ UNCHANGED <<first, tier, fan, user, env, owed, overtaken>>

\* UnexpectedResponse: UpdateFailed, and the poll is scheduled again.
PollUnexpected ==
    /\ ~first
    /\ at["poll"] \in StorageStages
    /\ device = "broken"
    /\ lastSuccess' = FALSE
    /\ armed' = TRUE
    /\ at' = [at EXCEPT !["poll"] = "idle"]
    /\ Excuse(Parts)
    /\ UNCHANGED <<health, data, first, tier, fan, user, env, owed, overtaken>>

\* InvalidAuth: ConfigEntryAuthFailed, and nothing schedules a next poll.
PollRejected ==
    /\ ~first
    /\ at["poll"] \in StorageStages
    /\ device = "locked"
    /\ lastSuccess' = FALSE
    /\ at' = [at EXCEPT !["poll"] = "idle"]
    /\ Excuse(Parts)
    /\ UNCHANGED <<health, data, armed, first, tier, fan, user, env, owed, overtaken>>

\* The budget of the optional endpoints runs out, whatever is in flight.
CutPoll ==
    /\ at["poll"] \in {"fan", "answered", "rest"}
    /\ device # "up"
    /\ at' = [at EXCEPT !["poll"] = "finishing"]
    /\ sample' = [sample EXCEPT !["poll"] = NoMode]
    /\ Excuse(IF at["poll"] = "rest" THEN {"rest"} ELSE Parts)
    /\ overtaken' = overtaken \ {"poll"}
    /\ UNCHANGED <<health, polling, tier, fanMode, readable, user, env, owed>>

\* Mutant: the request is reset when the poll ends, not when it starts.
PollEndDropsRequest ==
    /\ at["poll"] = "finishing"
    /\ lastSlow' = "recent"
    /\ slowRequested' = FALSE
    /\ Publish("live")
    /\ at' = [at EXCEPT !["poll"] = "idle"]
    /\ UNCHANGED <<health, first, fan, user, env, ghosts>>

\* The end of a poll that read the slow tier, or ran out of budget.
PollEnd ==
    /\ at["poll"] = "finishing"
    /\ lastSlow' = "recent"
    /\ Publish("live")
    /\ at' = [at EXCEPT !["poll"] = "idle"]
    /\ UNCHANGED <<health, first, slowRequested, fan, user, env, ghosts>>

(***************************************************************************)
(* The startup task: async_refresh_optional_features.                      *)
(***************************************************************************)

\* Without data the task returns at once ...
StartupSkipped ==
    /\ at["startup"] = "ready"
    /\ data = "none"
    /\ at' = [at EXCEPT !["startup"] = "idle"]
    /\ UNCHANGED <<health, polling, tier, fan, user, env, ghosts>>

\* ... with data it reads the slow tier beside the polls.
StartupBegin ==
    /\ at["startup"] = "ready"
    /\ data # "none"
    /\ at' = [at EXCEPT !["startup"] = OptionalStart]
    /\ excused' = IF readable THEN excused ELSE excused \cup {"fan"}
    /\ UNCHANGED <<health, polling, tier, fan, user, env, owed, overtaken>>

\* Mutant: the data is set without async_set_updated_data's rescheduling.
StartupEndUnscheduled ==
    /\ at["startup"] = "finishing"
    /\ lastSlow' = "recent"
    /\ lastSuccess' = TRUE
    /\ at' = [at EXCEPT !["startup"] = "idle"]
    /\ UNCHANGED <<health, data, armed, first, slowRequested, fan, user, env, ghosts>>

\* `_mark_slow_refreshed` and `async_set_updated_data(self.data)`.
StartupEnd ==
    /\ at["startup"] = "finishing"
    /\ lastSlow' = "recent"
    /\ Publish(data)
    /\ at' = [at EXCEPT !["startup"] = "idle"]
    /\ UNCHANGED <<health, first, slowRequested, fan, user, env, ghosts>>

(***************************************************************************)
(* The optional endpoints, for either reader.                              *)
(***************************************************************************)

\* The device answers the fan-mode request with the mode of the moment.
FanSampled(r) ==
    /\ at[r] = "fan"
    /\ device \in {"up", "slow"}
    /\ at' = [at EXCEPT ![r] = "answered"]
    /\ sample' = [sample EXCEPT ![r] = deviceFan]
    /\ owed' = owed \ {"fan"}
    /\ excused' = excused \ {"fan"}
    /\ overtaken' = {o \in Readers \ {r} : at[o] = "answered"}
    /\ UNCHANGED <<health, polling, tier, fanMode, readable, user, env>>

\* The answer arrives, shows the endpoint to exist, and replaces the cached
\* mode.
FanApplied(r) ==
    /\ at[r] = "answered"
    /\ at' = [at EXCEPT ![r] = "rest"]
    /\ fanMode' = sample[r]
    /\ readable' = TRUE
    /\ sample' = [sample EXCEPT ![r] = NoMode]
    /\ excused' = IF r \in overtaken THEN excused \cup {"fan"} ELSE excused
    /\ overtaken' = overtaken \ {r}
    /\ UNCHANGED <<health, polling, tier, user, env, owed>>

\* The read raises; the error is swallowed.
FanFailed(r) ==
    /\ at[r] \in {"fan", "answered"}
    /\ device # "up"
    /\ at' = [at EXCEPT ![r] = "rest"]
    /\ sample' = [sample EXCEPT ![r] = NoMode]
    /\ excused' = excused \cup {"fan"}
    /\ overtaken' = overtaken \ {r}
    /\ UNCHANGED <<health, polling, tier, fanMode, readable, user, env, owed>>

\* A read without a mode in its answer gives the client's `_last_fan_mode`, if there
\* is one.  Writes and reads that this coordinator may have dropped leave a mode
\* there, and so does any storage payload with a fan-like key: it can be any mode.
CacheLastFanMode == fanMode' \in Modes \cup {fanMode}

\* 404 or 405, or the flag of one met by the other reader: the endpoint is not
\* read again.
FanNotFound(r) ==
    /\ at[r] = "fan"
    /\ device = "broken" \/ ~readable
    /\ at' = [at EXCEPT ![r] = "rest"]
    /\ readable' = FALSE
    /\ CacheLastFanMode
    /\ excused' = excused \cup {"fan"}
    /\ UNCHANGED <<health, polling, tier, sample, user, env, owed, overtaken>>

\* Another status, or a 2xx answer, which shows the endpoint to exist, without a
\* mode.
FanUnusable(r) ==
    /\ at[r] = "fan"
    /\ device = "broken"
    /\ at' = [at EXCEPT ![r] = "rest"]
    /\ readable' \in {readable, TRUE}
    /\ CacheLastFanMode
    /\ excused' = excused \cup {"fan"}
    /\ UNCHANGED <<health, polling, tier, sample, user, env, owed, overtaken>>

\* Backup tasks and snapshot endpoints are read ...
RestRead(r) ==
    /\ at[r] = "rest"
    /\ device \in {"up", "slow"}
    /\ at' = [at EXCEPT ![r] = "finishing"]
    /\ owed' = owed \ {"rest"}
    /\ excused' = excused \ {"rest"}
    /\ UNCHANGED <<health, polling, tier, fan, user, env, overtaken>>

\* ... or some of them fail, which is swallowed too.
RestFailed(r) ==
    /\ at[r] = "rest"
    /\ device # "up"
    /\ at' = [at EXCEPT ![r] = "finishing"]
    /\ excused' = excused \cup {"rest"}
    /\ UNCHANGED <<health, polling, tier, fan, user, env, owed, overtaken>>

(***************************************************************************)
(* Fan-mode writes.                                                        *)
(***************************************************************************)

\* Writes are refused while the device is offline.
WriteBegin(w) ==
    /\ write[w] = "idle"
    /\ ~first
    /\ online
    /\ write' = [write EXCEPT ![w] = "sent"]
    /\ \E m \in Modes : target' = [target EXCEPT ![w] = m]
    /\ UNCHANGED <<health, polling, tier, at, fan, env, ghosts>>

\* The device takes the new mode.
WriteApplied(w) ==
    /\ write[w] = "sent"
    /\ device \in {"up", "slow"}
    /\ write' = [write EXCEPT ![w] = "applied"]
    /\ deviceFan' = target[w]
    /\ UNCHANGED <<health, polling, tier, at, fan, target, device, ghosts>>

\* Mutant: the write caches the mode and requests no refresh.
WriteWithoutRequest(w) ==
    /\ write[w] = "applied"
    /\ write' = [write EXCEPT ![w] = "idle"]
    /\ target' = [target EXCEPT ![w] = NoMode]
    /\ fanMode' = target[w]
    /\ excused' = {}
    /\ UNCHANGED <<health, polling, tier, at, sample, readable, env, owed, overtaken>>

\* The response arrives: cache the mode, raise the request and ask Home
\* Assistant for a poll, which it drops if one is running.
WriteAcknowledged(w) ==
    /\ write[w] = "applied"
    /\ write' = [write EXCEPT ![w] = "idle"]
    /\ target' = [target EXCEPT ![w] = NoMode]
    /\ fanMode' = target[w]
    /\ slowRequested' = TRUE
    /\ armed' = IF at["poll"] = "idle" THEN TRUE ELSE armed
    /\ owed' = Parts
    /\ excused' = {}
    /\ UNCHANGED <<health, data, lastSuccess, first, lastSlow, at,
                   sample, readable, env, overtaken>>

\* The write fails, after the device may have applied it.
WriteFailed(w) ==
    /\ write[w] # "idle"
    /\ device # "up"
    /\ write' = [write EXCEPT ![w] = "idle"]
    /\ target' = [target EXCEPT ![w] = NoMode]
    /\ excused' = IF write[w] = "applied" THEN excused \cup {"fan"} ELSE excused
    /\ UNCHANGED <<health, polling, tier, at, fan, env, owed, overtaken>>

(***************************************************************************)
(* The environment.                                                        *)
(***************************************************************************)

\* The condition changes at any time.  The fan mode does not: it "only changes on
\* user action" (coordinator.py:203-204), by the writes above.
DeviceChanges ==
    /\ \E c \in Conditions \ {device} : device' = c
    /\ UNCHANGED <<health, polling, tier, at, fan, user, deviceFan, ghosts>>

\* Ten minutes since the slow tier was read.
TimePasses ==
    /\ lastSlow = "recent"
    /\ lastSlow' = "old"
    /\ UNCHANGED <<health, polling, slowRequested, at, fan, user, env, ghosts>>

(***************************************************************************)
(* Specification.                                                          *)
(***************************************************************************)

StorageAnswered ==
    \/ FirstAnswered \/ FirstFailed \/ FirstUnreachable \/ FirstUnexpected
    \/ StorageThenSlow \/ StorageOnly
    \/ MissWithoutData \/ MissTolerated \/ MissOffline
    \/ PollUnexpected \/ PollRejected

FanRead(r) == FanSampled(r) \/ FanApplied(r) \/ FanFailed(r)
              \/ FanNotFound(r) \/ FanUnusable(r)

RestEnds(r) == RestRead(r) \/ RestFailed(r)

WriteProceeds(w) == WriteApplied(w) \/ WriteAcknowledged(w) \/ WriteFailed(w)

Next ==
    \/ PollBegin \/ StorageAnswered \/ CutPoll \/ PollEnd
    \/ StartupSkipped \/ StartupBegin \/ StartupEnd
    \/ \E r \in Readers : FanRead(r) \/ RestEnds(r)
    \/ \E w \in Writers : WriteBegin(w) \/ WriteProceeds(w)
    \/ DeviceChanges \/ TimePasses

\* Timers fire, exchanges end within the request timeout, and tasks that can run
\* do.  Nothing makes the device change its condition or the user write.
Fairness ==
    /\ WF_vars(PollBegin) /\ WF_vars(StorageAnswered) /\ WF_vars(PollEnd)
    /\ WF_vars(StartupSkipped \/ StartupBegin) /\ WF_vars(StartupEnd)
    /\ \A r \in Readers : WF_vars(FanRead(r)) /\ WF_vars(RestEnds(r))
    /\ \A w \in Writers : WF_vars(WriteProceeds(w))
    /\ WF_vars(TimePasses)

Spec == Init /\ [][Next]_vars /\ Fairness

(***************************************************************************)
(* Properties.                                                             *)
(***************************************************************************)

\* Between polls, what entities show agrees with what the write guards use:
\* the published payload is marked offline exactly when the device is offline
\* (coordinator.py:169-171, 241-252), whatever the startup refresh republished.
PublishedMatchesHealth ==
    at["poll"] = "idle" /\ data # "none" => (data = "offline" <=> ~online)

\* Entities shown as updated always have a next poll coming: polling stops
\* only on rejected credentials, which show as a failed update (also when the
\* startup refresh calls async_set_updated_data in between, line 131).
ShownDataIsPolled ==
    at["poll"] = "idle" /\ lastSuccess => armed

\* A read of `part` that begins from now on is certain to be attempted.
Ahead(part) ==
    \/ slowRequested
    \/ lastSlow # "recent"
    \/ at["poll"] = "storageDue"
    \/ \E r \in Readers :
           at[r] \in IF part = "fan" THEN {"fan"} ELSE {"fan", "answered", "rest"}

\* A refresh requested by the user is never lost while everything answers: a
\* part not read since the request is still ahead, or a poll that should have
\* read it failed (the request raised during a poll survives it, lines 145-147,
\* and neither the poll nor the startup refresh marks it done, lines 129, 196).
NoSilentDrop == \A p \in owed : Ahead(p) \/ p \in excused

\* A cached fan mode the device no longer has is on its way out: a write is
\* unanswered, a read is ahead or its answer is on the way, or a read or a
\* write failed or was overtaken meanwhile.
StaleModeIsTemporary ==
    fanMode \notin {NoMode, deviceFan} =>
        \/ \E w \in Writers : write[w] # "idle"
        \/ Ahead("fan")
        \/ \E r \in Readers : at[r] = "answered" /\ sample[r] = deviceFan
        \/ "fan" \in excused

\* An online device with more misses than are tolerated is "overdue", which
\* DeviceHealth knows nothing of.
HealthStatus ==
    CASE ~online                 -> "offline"
      [] online /\ failures = 0  -> "online"
      [] online /\ failures = 1  -> "suspect"
      [] OTHER                   -> "overdue"

Health == INSTANCE DeviceHealth WITH status <- HealthStatus, known <- data # "none"

\* The coordinator implements DeviceHealth: one missed poll is tolerated when
\* there is data, the next takes the device offline, and only an answer brings
\* it back (coordinator.py:167-171, 226-260).

HealthSpec == Health!Spec

\* A device that stays reachable is shown online with live data, from some
\* poll on, whatever happened before (credentials being accepted throughout).
RecoversWhenUp ==
    "locked" \notin Conditions =>
        (<>[](device = "up") => <>[](online /\ data = "live" /\ lastSuccess))

\* A device that stays unreachable is taken offline.
OfflineWhenDown ==
    "locked" \notin Conditions => (<>[](device = "down") => <>[](~first => ~online))

\* Once the device answers and the user stops writing, the fan mode shown is
\* the fan mode of the device, unless the endpoint was given up as missing.
FanModeConverges ==
    "locked" \notin Conditions =>
        (<>[](device = "up" /\ \A w \in Writers : write[w] = "idle")
            => <>[](fanMode = deviceFan \/ ~readable))

=============================================================================
