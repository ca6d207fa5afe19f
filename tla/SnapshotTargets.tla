--------------------------- MODULE SnapshotTargets ---------------------------
(***************************************************************************)
(* The snapshot targets a console lists, the entities Home Assistant keeps *)
(* for them, and the repair issues about them (coordinator.py:291-340,     *)
(* snapshot/entities.py, snapshot/repairs.py).                             *)
(*                                                                         *)
(* The settings are read by two tasks, the poll and the startup refresh,   *)
(* and by services that find none cached; a service writes its answer over *)
(* whatever has been cached since.  Listeners run when a task publishes.   *)
(* They count, once per settings list, the lists a target is missing from; *)
(* a list is known again by its address (`id`), which a later list may     *)
(* reuse once the counted one has been freed.                              *)
(*                                                                         *)
(* A target is its key; `TypeOf` gives its type.  What a read meets is     *)
(* chosen by the environment, and so is the set of targets it lists.       *)
(* Repair issues are persistent: they survive a reload of the entry.       *)
(***************************************************************************)
EXTENDS Integers

CONSTANTS Targets, \* the keys a console may list
          Types,   \* their types, "shared" and "mydrive" in the code
          TypeOf,  \* the type of a target
          Lists,   \* what the console may list
          Actions, \* _SNAPSHOT_ACTIONS: "create" and "settings"
          MaxServiceReads \* bound: services that wait at once

ASSUME TargetAssumption == /\ TypeOf \in [Targets -> Types]
                           /\ Lists \subseteq SUBSET Targets
                           /\ {} \in Lists \* an error status lists none
                           /\ MaxServiceReads \in Nat

VARIABLES enabled,      \* the option `snapshot_buttons_enabled`
          supported,    \* client._snapshot_settings_read_supported
          settings,     \* coordinator.snapshot_settings
          counted,      \* `settings_id` is the address of that list
          at,           \* where each reader is
          asking,       \* services that wait for the settings they asked for
          orphans,      \* such services that asked before the entry was reloaded
          bucket,       \* targets that have entities
          count,        \* `counts`: lists in a row without the target
          missingIssue, \* targets with an issue "target missing"
          readIssue,    \* kinds of the issue "targets cannot be read"
          actionIssue,  \* issues of actions, <<action, type, kind>>
          lacking,      \* history: lists without the target since it was published
          carried       \* history: missing issues left by an earlier load

reading  == <<enabled, supported, settings, counted, at>>
calls    == <<asking, orphans>>
tracking == <<bucket, count, missingIssue, lacking, carried>>
vars == <<reading, calls, tracking, readIssue, actionIssue>>

Threshold == 3 \* _SNAPSHOT_TARGET_MISSING_REPAIR_THRESHOLD
Kinds   == {"permission", "unavailable"}
Readers == {"poll", "startup"}
Stages  == {"idle", "asked", "inventory", "publish", "ended"}

TypeOK ==
    /\ enabled \in BOOLEAN
    /\ supported \in {"unknown", "yes", "no"}
    /\ settings \in SUBSET Targets
    /\ counted \in BOOLEAN
    /\ at \in [Readers -> Stages]
    /\ asking \in 0 .. MaxServiceReads
    /\ orphans \in 0 .. MaxServiceReads - asking
    /\ bucket \in SUBSET Targets
    /\ count \in [Targets -> 0 .. Threshold]
    /\ missingIssue \in SUBSET Targets
    /\ readIssue \in SUBSET Kinds
    /\ actionIssue \in SUBSET (Actions \X Types \X Kinds)
    /\ lacking \in [Targets -> 0 .. Threshold]
    /\ carried \in SUBSET Targets

Init ==
    /\ enabled \in BOOLEAN
    /\ supported = "unknown"
    /\ settings = {}
    /\ counted = TRUE \* the listener runs once as the platforms are set up
    /\ at = [r \in Readers |-> "idle"]
    /\ asking = 0
    /\ orphans = 0
    /\ bucket = {}
    /\ count = [t \in Targets |-> 0]
    /\ missingIssue = {}
    /\ readIssue = {}
    /\ actionIssue = {}
    /\ lacking = [t \in Targets |-> 0]
    /\ carried = {}

(***************************************************************************)
(* Settings lists and issues.                                              *)
(***************************************************************************)

\* Counters stop at the threshold: beyond it the code only compares.
Increment(n) == IF n < Threshold THEN n + 1 ELSE n

\* Mutant: the cached list is changed in place and keeps its address.
InstallInPlace(listed) ==
    /\ settings' = listed
    /\ lacking' = [t \in Targets |->
                     IF t \in listed THEN lacking[t] ELSE Increment(lacking[t])]
    /\ UNCHANGED <<counted, bucket, count, missingIssue, carried>>

\* `self.snapshot_settings = ...`: the new list exists before the old one is
\* freed, so it can have the counted address only if the old one had not.
Install(listed) ==
    /\ settings' = listed
    /\ counted' \in IF counted THEN {FALSE} ELSE BOOLEAN
    /\ lacking' = [t \in Targets |->
                     IF t \in listed THEN lacking[t] ELSE Increment(lacking[t])]
    /\ UNCHANGED <<bucket, count, missingIssue, carried>>

\* `async_create_snapshot_read_issue`.
RaiseReadIssue(kind) == readIssue' = {kind}

\* Mutant: a successful read leaves the issue.
UpdateReadIssueKeeping(flag) ==
    readIssue' = IF flag = "no" THEN {"unavailable"} ELSE readIssue

\* `async_update_snapshot_read_issue` with the client's flag.
UpdateReadIssue(flag) ==
    readIssue' = CASE flag = "yes" -> {}
                   [] flag = "no"  -> {"unavailable"}
                   [] OTHER        -> readIssue

(***************************************************************************)
(* The two readers: `_refresh_snapshot_settings`.                          *)
(***************************************************************************)
\* The login that precedes the read is done, and no 404 has been met.
ReadAsks(r) ==
    /\ enabled
    /\ at[r] = "idle"
    /\ supported # "no"
    /\ at' = [at EXCEPT ![r] = "asked"]
    /\ UNCHANGED <<enabled, supported, settings, counted, calls, tracking, readIssue,
                   actionIssue>>

\* A 2xx answer, whatever another read has met since this one was asked.
ReadListed(r) ==
    /\ at[r] = "asked"
    /\ supported' = "yes"
    /\ \E listed \in Lists : Install(listed)
    /\ at' = [at EXCEPT ![r] = "inventory"]
    /\ UNCHANGED <<enabled, calls, readIssue, actionIssue>>

\* 404 or 405; or the flag of an earlier one answers for the console.
ReadUnsupported(r) ==
    /\ \/ at[r] = "asked"
       \/ enabled /\ at[r] = "idle" /\ supported = "no"
    /\ supported' = "no"
    /\ Install({})
    /\ at' = [at EXCEPT ![r] = "inventory"]
    /\ UNCHANGED <<enabled, calls, readIssue, actionIssue>>

\* Any other status is an empty list.
ReadErrorStatus(r) ==
    /\ at[r] = "asked"
    /\ Install({})
    /\ at' = [at EXCEPT ![r] = "inventory"]
    /\ UNCHANGED <<enabled, supported, calls, readIssue, actionIssue>>

\* The login that precedes the read can fail too, whatever the flag says.
MayFail(r) == at[r] = "asked" \/ (enabled /\ at[r] = "idle")

\* `CannotConnect`: the settings are cleared, no issue is raised.
ReadUnreachable(r) ==
    /\ MayFail(r)
    /\ Install({})
    /\ at' = [at EXCEPT ![r] = "publish"]
    /\ UNCHANGED <<enabled, supported, calls, readIssue, actionIssue>>

\* `InvalidAuth` ("permission") or `UnexpectedResponse` ("unavailable").
ReadRefused(r, kind) ==
    /\ MayFail(r)
    /\ RaiseReadIssue(kind)
    /\ Install({})
    /\ at' = [at EXCEPT ![r] = "publish"]
    /\ UNCHANGED <<enabled, supported, calls, actionIssue>>

\* The inventory has been dealt with; the flag is looked at only now.
InventoryDone(r) ==
    /\ at[r] = "inventory"
    /\ UpdateReadIssue(supported)
    /\ at' = [at EXCEPT ![r] = "publish"]
    /\ UNCHANGED <<enabled, supported, settings, counted, calls, tracking, actionIssue>>

\* The budget of the poll runs out during the read or the inventory.
BudgetEnds ==
    /\ at["poll"] \in {"asked", "inventory"}
    /\ at' = [at EXCEPT !["poll"] = "publish"]
    /\ UNCHANGED <<enabled, supported, settings, counted, calls, tracking, readIssue,
                   actionIssue>>

\* `_clear_snapshot_settings_state`, which every poll and the startup refresh
\* run while the option is off.
DisabledPoll ==
    /\ ~enabled
    /\ Install({})
    /\ readIssue' = {}
    /\ actionIssue' = {}
    /\ UNCHANGED <<enabled, supported, at, calls>>

(***************************************************************************)
(* Publishing: `_add_missing_entities`, `_update_snapshot_target_missing_- *)
(* state`, in that order, in every snapshot platform.                      *)
(***************************************************************************)

\* Mutant: the address of the list is not compared.
CountMissingAlways(missing) ==
    count' = [t \in Targets |-> IF t \in settings THEN 0
                               ELSE IF t \in missing THEN Increment(count[t])
                               ELSE count[t]]

\* `counts`: a list is counted once, a listed target has no count.
CountMissing(missing) ==
    count' = [t \in Targets |-> IF t \in settings THEN 0
                               ELSE IF t \in missing /\ ~counted THEN Increment(count[t])
                               ELSE count[t]]

\* Mutant: the return of a target is not noticed.
UpdateMissingIssuesOnly(missing) ==
    missingIssue' = (missingIssue \ missing) \cup {t \in missing : count'[t] >= Threshold}

\* The issue of a missing target is raised or deleted with its count; the
\* issue of a listed target is deleted if it had been missing in this load.
UpdateMissingIssues(missing) ==
    missingIssue' = (missingIssue \ (missing \cup {t \in settings : count[t] > 0}))
                        \cup {t \in missing : count'[t] >= Threshold}

\* Without the option the platforms have not added the listener.
Listen ==
    IF enabled
    THEN LET missing == bucket \ settings IN
         /\ bucket' = bucket \cup settings
         /\ CountMissing(missing)
         /\ UpdateMissingIssues(missing)
         /\ counted' = TRUE
         /\ lacking' = [t \in Targets |-> IF t \in settings THEN 0 ELSE lacking[t]]
         /\ carried' = carried \ (missing \cup {t \in settings : count[t] > 0})
    ELSE UNCHANGED <<tracking, counted>>

\* A poll is published whether or not it read the settings; the startup
\* refresh once, at its end.
Publish(r) ==
    /\ at[r] \in (IF r = "poll" THEN {"idle", "publish"} ELSE {"publish"})
    /\ Listen
    /\ at' = [at EXCEPT ![r] = IF r = "poll" THEN "idle" ELSE "ended"]
    /\ UNCHANGED <<enabled, supported, settings, calls, readIssue, actionIssue>>

(***************************************************************************)
(* Services and user actions.                                              *)
(***************************************************************************)

\* `_async_snapshot_targets_for_service` finds no cached targets and asks for them.
\* (With a flag of an earlier 404 it asks nobody: see ServiceAnswered.)
ServiceAsks ==
    /\ settings = {}
    /\ asking + orphans < MaxServiceReads
    /\ asking' = asking + 1
    /\ UNCHANGED <<reading, orphans, tracking, readIssue, actionIssue>>

\* The answer replaces what is cached by now: targets; none after 404, 405 or the
\* flag of one; or none after another status.
ServiceAnswered ==
    /\ asking > 0
    /\ asking' = asking - 1
    /\ \/ /\ supported' = "yes"
          /\ \E listed \in Lists : Install(listed)
       \/ /\ supported' = "no"
          /\ Install({})
       \/ /\ UNCHANGED supported
          /\ Install({})
    /\ UpdateReadIssue(supported')
    /\ UNCHANGED <<enabled, at, orphans, actionIssue>>

\* `InvalidAuth` raises the issue; other errors only end the service.
ServiceReadFails ==
    /\ asking > 0
    /\ asking' = asking - 1
    /\ RaiseReadIssue("permission") \/ UNCHANGED readIssue
    /\ UNCHANGED <<reading, orphans, tracking, actionIssue>>

\* A service that asked before a reload writes to the old coordinator, but the
\* issue it updates, from the old client's flag, is Home Assistant's.
OrphanEnds ==
    /\ orphans > 0
    /\ orphans' = orphans - 1
    /\ \/ \E flag \in {"unknown", "yes", "no"} : UpdateReadIssue(flag)
       \/ RaiseReadIssue("permission")
    /\ UNCHANGED <<reading, asking, tracking, actionIssue>>

\* Mutant: the other kind of the issue is not deleted.
RaiseActionIssueBeside(action, type, kind) ==
    actionIssue' = actionIssue \cup {<<action, type, kind>>}

\* `async_create_snapshot_action_issue`.
RaiseActionIssue(action, type, kind) ==
    actionIssue' = {i \in actionIssue : <<i[1], i[2]>> # <<action, type>>}
                       \cup {<<action, type, kind>>}

\* `async_clear_snapshot_action_issues`.
ClearActionIssues(action, type) ==
    actionIssue' = {i \in actionIssue : <<i[1], i[2]>> # <<action, type>>}

\* The end of a user action on a target that was listed when it began: it
\* succeeds, is refused, or finds no endpoint.  (Other failures raise nothing.)
ActionEnds(action, t) ==
    /\ \/ ClearActionIssues(action, TypeOf[t])
       \/ \E kind \in Kinds : RaiseActionIssue(action, TypeOf[t], kind)
    /\ UNCHANGED <<reading, calls, tracking, readIssue>>

\* The entry is reloaded, perhaps with other options.  The coordinator, its
\* readers and the entities are new; the issues are Home Assistant's.
Reload ==
    /\ enabled' \in BOOLEAN
    /\ supported' = "unknown"
    /\ settings' = {}
    /\ counted' = TRUE
    /\ at' = [r \in Readers |-> "idle"]
    /\ asking' = 0
    /\ orphans' = orphans + asking
    /\ bucket' = {}
    /\ count' = [t \in Targets |-> 0]
    /\ lacking' = [t \in Targets |-> 0]
    /\ carried' = missingIssue
    /\ UNCHANGED <<missingIssue, readIssue, actionIssue>>

-----------------------------------------------------------------------------
\* A read that ends with a new list, be it empty.
ReadEnds(r) ==
    \/ ReadListed(r)
    \/ ReadUnsupported(r)
    \/ ReadErrorStatus(r)
    \/ ReadUnreachable(r)
    \/ \E kind \in Kinds : ReadRefused(r, kind)

Next ==
    \/ \E r \in Readers : ReadAsks(r) \/ ReadEnds(r) \/ InventoryDone(r) \/ Publish(r)
    \/ BudgetEnds
    \/ DisabledPoll
    \/ ServiceAsks \/ ServiceAnswered \/ ServiceReadFails \/ OrphanEnds
    \/ \E action \in Actions, t \in Targets : ActionEnds(action, t)
    \/ Reload

\* An inventory ends, and what a reader has read is published.  That a poll gets
\* to read the settings is not assumed: the storage read must succeed first, and
\* slow endpoints before the settings may use up the budget every time.
Fairness ==
    \A r \in Readers : /\ WF_vars(InventoryDone(r))
                       /\ WF_vars(at[r] = "publish" /\ Publish(r))

Spec == Init /\ [][Next]_vars /\ Fairness

-----------------------------------------------------------------------------
(***************************************************************************)
(* Properties.                                                             *)
(***************************************************************************)

\* The registry and the counters agree: an issue about a missing target stands
\* for a count at the threshold, whatever was listed, published or answered in
\* between, except for what an earlier load of the entry has left behind.
MissingIssueFollowsCount ==
    /\ carried \subseteq missingIssue
    /\ \A t \in Targets \ carried : t \in missingIssue <=> count[t] >= Threshold

\* A settings list advances a target's count at most once, although every
\* platform and every poll without a read runs the listener on it again.
EachListCountsOnce == \A t \in Targets : count[t] <= lacking[t]

\* Of the variants of an issue, "permission" and "unavailable", one is shown:
\* each handler that raises one deletes the other, however they alternate.
OneKindPerIssue ==
    /\ readIssue # Kinds
    /\ \A i, j \in actionIssue : <<i[1], i[2]>> = <<j[1], j[2]>> => i = j

\* A target that stays away is reported, if polls get to read the settings again
\* and again, and as long as services do not replace the list between the read and
\* the listener (a list that reuses the counted address is taken for counted).
MissingIsReported ==
    \A t \in Targets :
        /\ <>[](t \in bucket \ settings)
        /\ []<><<ReadEnds("poll")>>_vars
        /\ <>[][~ServiceAnswered]_vars
        => <>[](t \in missingIssue)

\* Once a target is listed again, and polls are published, the issue of this load
\* goes.
ReturnedTargetIsCleared ==
    \A t \in Targets :
        <>[](enabled /\ t \in settings) /\ []<><<Publish("poll")>>_vars
            => <>[](t \notin missingIssue \ carried)

\* The issue about reads does not outlive the cause: it goes as polls read the
\* settings again and get through the inventory, whichever reader raised it while
\* another was reading.
ReadIssueIsCleared ==
    /\ []<><<ReadListed("poll")>>_vars
    /\ <>[][~Reload /\ (BudgetEnds => at["poll"] = "asked")]_vars
    => []<>(readIssue = {})

\* A snapshot target that is listed has no issue as a poll is published.  The
\* text of the issue, translations/en.json: "If the target returns, this
\* repair will clear automatically."
PresentTargetHasNoIssue ==
    [][Publish("poll") /\ enabled => settings \cap missingIssue' = {}]_vars
=============================================================================
