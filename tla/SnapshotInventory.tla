-------------------------- MODULE SnapshotInventory --------------------------
(***************************************************************************)
(* The snapshot inventory of the targets a console lists, and the buttons  *)
(* that depend on it (coordinator.py:291-480, api/snapshot.py:167-190 and  *)
(* 316-373, __init__.py:414-486, snapshot/types.py:63-100).                *)
(*                                                                         *)
(* Two tasks refresh it, the poll and the startup refresh: settings first, *)
(* then, if it is due, the inventory of one target after the other.  They  *)
(* share the coordinator's fields but build their result in local          *)
(* variables, so a refresh may end over what the other one has done since. *)
(* A service that finds no settings cached reads them too and writes them  *)
(* when it is answered, whatever a reader has cached in the meantime       *)
(* (services.py:637-659).                                                  *)
(*                                                                         *)
(* `snapshot_inventory` and `snapshot_inventory_errors` are always built   *)
(* and pruned together and have no key in common: `status` is both.  The   *)
(* buttons only ask whether a target is in the second with a reason of     *)
(* SNAPSHOT_INVENTORY_STICKY_ERROR_REASONS ("refused": permission or       *)
(* unsupported); a target that was read, or whose read failed for another  *)
(* reason, is "open".                                                      *)
(***************************************************************************)
EXTENDS Integers, FiniteSets

CONSTANTS Targets, \* the keys a console may list
          TypeOf,  \* their types
          Foreign, \* personal drives of other users than the configured one
          Lists,   \* what the console may list
          MaxServiceReads \* bound: services that wait at once

ASSUME InventoryAssumption ==
    /\ TypeOf \in [Targets -> {"shared", "mydrive"}]
    /\ Foreign \subseteq {t \in Targets : TypeOf[t] = "mydrive"}
    /\ Lists \subseteq SUBSET Targets
    /\ {} \in Lists \* an error status lists none
    /\ MaxServiceReads \in Nat

VARIABLES settings,   \* coordinator.snapshot_settings
          keys,       \* _snapshot_inventory_target_keys
          status,     \* snapshot_inventory and snapshot_inventory_errors
          skip,       \* snapshot_inventory_skip_reasons
          requested,  \* _snapshot_inventory_refresh_requested
          recent,     \* _snapshot_inventory_last_refresh is less than ten minutes ago
          missingFor, \* types with snapshot_inventory_supported_by_type = False
          at,         \* where each reader is
          asked,      \* a reader's `refresh_requested`
          result,     \* a reader's `pending`, `inventory` and `inventory_errors`
          known,      \* the button platform's `known_target_keys`
          buttons,    \* create buttons of this load
          asking,     \* services that wait for the settings they asked for
          owed,       \* history: a request no refresh has honoured yet
          honours,    \* history: readers whose refresh began after the request
          overlapped, \* history: a refresh ends over a newer settings list
          displaced,  \* history: a service's late answer has replaced the list
          refused     \* history: targets refused in this load, by themselves or as a type

cache  == <<settings, keys, status, skip, requested, recent>>
reader == <<at, asked, result>>
entity == <<known, buttons>>
past   == <<owed, honours, overlapped, displaced, refused>>
vars == <<cache, missingFor, reader, entity, asking, past>>

Readers  == {"poll", "startup"}
Statuses == {"none", "open", "refused"}

TypeOK ==
    /\ settings \in SUBSET Targets
    /\ keys \in SUBSET Targets
    /\ status \in [Targets -> Statuses]
    /\ skip \in SUBSET Targets
    /\ requested \in BOOLEAN
    /\ recent \in BOOLEAN
    /\ missingFor \in SUBSET {"shared", "mydrive"}
    /\ at \in [Readers -> {"idle", "reading", "done"}]
    /\ asked \in [Readers -> BOOLEAN]
    /\ result \in [Readers -> [Targets -> Statuses \cup {"pending"}]]
    /\ known \in SUBSET Targets
    /\ buttons \in SUBSET Targets
    /\ asking \in 0 .. MaxServiceReads
    /\ owed \in BOOLEAN
    /\ honours \in SUBSET Readers
    /\ overlapped \in BOOLEAN
    /\ displaced \in BOOLEAN
    /\ refused \in SUBSET Targets

Nothing == [t \in Targets |-> "none"]

Init ==
    /\ settings = {}
    /\ keys = {}
    /\ status = Nothing
    /\ skip = {}
    /\ requested = FALSE
    /\ recent = FALSE
    /\ missingFor = {}
    /\ at = [r \in Readers |-> "idle"]
    /\ asked = [r \in Readers |-> FALSE]
    /\ result = [r \in Readers |-> Nothing]
    /\ known = {}
    /\ buttons = {}
    /\ asking = 0
    /\ owed = FALSE
    /\ honours = {}
    /\ overlapped = FALSE
    /\ displaced = FALSE
    /\ refused = {}

(***************************************************************************)
(* The two readers: `_refresh_snapshot_settings` and below.                *)
(***************************************************************************)
Reading(r) == at[r] = "reading"

\* The startup refresh runs once.
Rest(r) == IF r = "poll" THEN "idle" ELSE "done"

\* Mutant: results about targets that are gone are kept.
PruneNothing(f, listed) == f

\* Only the entries of `listed` are kept: `_prune_snapshot_inventory_state`.
Prune(f, listed) == [t \in Targets |-> IF t \in listed THEN f[t] ELSE "none"]

\* `_async_refresh_snapshot_inventory_if_due` asks for a refresh of its own
\* when the targets change.
RequestedFor(listed) == requested \/ listed # keys

\* The targets of a refresh that are not read: skipped ones, and those of a
\* type the client takes for unsupported, which are skipped from now on.
SkippedNow(listed) == {t \in listed : t \in skip \/ TypeOf[t] \in missingFor}

\* The settings read has listed targets; an error status lists none.
Listed(r, listed) ==
    /\ at[r] = "idle"
    /\ settings' = listed
    /\ keys' = listed
    /\ status' = Prune(status, listed)
    /\ overlapped' = \E o \in Readers : Reading(o)
    /\ displaced' = FALSE
    /\ UNCHANGED <<missingFor, entity, asking, refused>>

\* The inventory is due: a request is taken now, so that one raised during the
\* refresh survives it.
RefreshDue(r, listed) ==
    /\ Listed(r, listed)
    /\ RequestedFor(listed) \/ ~recent
    /\ requested' = FALSE
    /\ asked' = [asked EXCEPT ![r] = RequestedFor(listed)]
    /\ skip' = SkippedNow(listed)
    /\ result' = [result EXCEPT ![r] =
                    [t \in Targets |-> CASE t \notin listed -> "none"
                                         [] t \in skip'      -> "refused"
                                         [] OTHER            -> "pending"]]
    /\ at' = [at EXCEPT ![r] = "reading"]
    /\ honours' = IF owed THEN honours \cup {r} ELSE honours
    /\ UNCHANGED <<recent, owed>>

RefreshNotDue(r, listed) ==
    /\ Listed(r, listed)
    /\ ~RequestedFor(listed) /\ recent
    /\ skip' = skip \cap listed
    /\ at' = [at EXCEPT ![r] = Rest(r)]
    /\ UNCHANGED <<requested, recent, asked, result, owed, honours>>

\* The read of the settings fails: `_clear_snapshot_settings_state`.
SettingsFail(r) ==
    /\ at[r] = "idle"
    /\ settings' = {}
    /\ keys' = {}
    /\ status' = Nothing
    /\ skip' = {}
    /\ requested' = FALSE
    /\ recent' = FALSE
    /\ at' = [at EXCEPT ![r] = Rest(r)]
    /\ owed' = FALSE
    /\ honours' = {}
    /\ overlapped' = \E o \in Readers : Reading(o)
    /\ displaced' = FALSE
    /\ UNCHANGED <<missingFor, asked, result, entity, asking, refused>>

(***************************************************************************)
(* One target: `async_get_snapshot_inventory_target`, whose candidate      *)
(* paths may answer differently.                                           *)
(***************************************************************************)
Pending(r, t) == Reading(r) /\ result[r][t] = "pending"

\* What the console says of one target of a type it says of all.
OfType(t) == {u \in Targets : TypeOf[u] = TypeOf[t]}

Record(r, t, outcome) == result' = [result EXCEPT ![r][t] = outcome]

\* A 2xx answer, perhaps after 404 on another path.
TargetRead(r, t) ==
    /\ Pending(r, t)
    /\ Record(r, t, "open")
    /\ skip' = skip \ {t}
    /\ missingFor' = missingFor \ {TypeOf[t]}
    /\ UNCHANGED <<settings, keys, status, requested, recent, at, asked, entity, asking, past>>

\* 404 or 405 on the last path: the type is taken for unsupported, and the text
\* of the error makes the target skipped.
TargetGone(r, t) ==
    /\ Pending(r, t)
    /\ Record(r, t, "refused")
    /\ skip' = skip \cup {t}
    /\ missingFor' = missingFor \cup {TypeOf[t]}
    /\ refused' = refused \cup OfType(t)
    /\ UNCHANGED <<settings, keys, status, requested, recent, at, asked, entity, asking,
                   owed, honours, overlapped, displaced>>

\* 401 or 403, again after a new login.
TargetForbidden(r, t) ==
    /\ Pending(r, t)
    /\ Record(r, t, "refused")
    /\ skip' = skip \cup {t}
    /\ refused' = refused \cup {t}
    /\ UNCHANGED <<settings, keys, status, requested, recent, missingFor, at, asked, entity,
                   asking, owed, honours, overlapped, displaced>>

\* Mutant: any error is taken for lasting.
TargetFailsSkipped(r, t) ==
    /\ Pending(r, t)
    /\ Record(r, t, "refused")
    /\ skip' = skip \cup {t}
    /\ UNCHANGED <<settings, keys, status, requested, recent, missingFor, at, asked,
                   entity, asking, past>>

\* No answer, another status, or an unusable answer.
TargetFails(r, t) ==
    /\ Pending(r, t)
    /\ Record(r, t, "open")
    /\ UNCHANGED <<cache, missingFor, at, asked, entity, asking, past>>

\* 404 or 405 on a path that is not the last one: the flag of the type shows
\* it to the other reader while this one goes on.  Personal drives have one path.
PathMissing(r, t) ==
    /\ Pending(r, t)
    /\ TypeOf[t] = "shared"
    /\ missingFor' = missingFor \cup {TypeOf[t]}
    /\ refused' = refused \cup OfType(t)
    /\ UNCHANGED <<cache, reader, entity, asking, owed, honours, overlapped, displaced>>

(***************************************************************************)
(* The end of a refresh.                                                   *)
(***************************************************************************)
Active(r) == {t \in Targets : result[r][t] # "none"}

Leave(r) ==
    /\ at' = [at EXCEPT ![r] = Rest(r)]
    /\ honours' = IF owed' THEN honours \ {r} ELSE {}
    /\ asked' = [asked EXCEPT ![r] = FALSE]
    /\ result' = [result EXCEPT ![r] = Nothing]

\* Mutant: the request is taken only as the refresh ends.
RefreshEndsTakingRequest(r) ==
    /\ Reading(r)
    /\ \A t \in Targets : ~Pending(r, t)
    /\ status' = result[r]
    /\ skip' = skip \cap Active(r)
    /\ requested' = FALSE
    /\ recent' = TRUE
    /\ owed' = (owed /\ r \notin honours)
    /\ Leave(r)
    /\ UNCHANGED <<settings, keys, missingFor, entity, asking, overlapped, displaced, refused>>

\* All targets have been dealt with.
RefreshEnds(r) ==
    /\ Reading(r)
    /\ \A t \in Targets : ~Pending(r, t)
    /\ status' = result[r]
    /\ skip' = skip \cap Active(r)
    /\ recent' = TRUE
    /\ owed' = (owed /\ r \notin honours)
    /\ Leave(r)
    /\ UNCHANGED <<settings, keys, requested, missingFor, entity, asking, overlapped,
                   displaced, refused>>

\* `RuntimeError`, `TypeError` or `ValueError` outside the read of a target:
\* a request is asked for again.
RefreshFails(r) ==
    /\ Reading(r)
    /\ requested' = (requested \/ asked[r])
    /\ recent' = TRUE
    /\ UNCHANGED owed
    /\ Leave(r)
    /\ UNCHANGED <<settings, keys, status, skip, missingFor, entity, asking,
                   overlapped, displaced, refused>>

\* The budget of the poll runs out: what the refresh was asked for is lost.
RefreshCut ==
    /\ Reading("poll")
    /\ owed' = (owed /\ "poll" \notin honours)
    /\ Leave("poll")
    /\ UNCHANGED <<cache, missingFor, entity, asking, overlapped, displaced, refused>>

(***************************************************************************)
(* Listeners: `_async_remove_unsupported_snapshot_create_buttons`, then    *)
(* `_add_missing_entities` of the button platform.                         *)
(***************************************************************************)

\* `snapshot_create_button_supported_for_inventory`.
CreateSupported(t) == t \notin Foreign \/ status[t] # "refused"

\* The end of a reader's refresh is not the only update of the listeners.
Publish ==
    /\ LET supported == {t \in settings : CreateSupported(t)}
           new == supported \ known
       IN /\ known' = known \cup new
          /\ buttons' = (buttons \ (settings \ supported)) \cup new
    /\ UNCHANGED <<cache, missingFor, reader, asking, past>>

(***************************************************************************)
(* Everyone else.                                                          *)
(***************************************************************************)

\* `request_snapshot_inventory_refresh`, after a snapshot action.
Request ==
    /\ requested' = TRUE
    /\ owed' = TRUE
    /\ honours' = {}
    /\ UNCHANGED <<settings, keys, status, skip, recent, missingFor, reader, entity,
                   asking, overlapped, displaced, refused>>

\* A service finds no settings cached and asks for them.
ServiceAsks ==
    /\ settings = {}
    /\ asking < MaxServiceReads
    /\ asking' = asking + 1
    /\ UNCHANGED <<cache, missingFor, reader, entity, past>>

\* The answer becomes the cached list, over whatever has been cached meanwhile.
ServiceAnswered(listed) ==
    /\ asking > 0
    /\ asking' = asking - 1
    /\ settings' = listed
    /\ displaced' = (displaced \/ settings # {})
    /\ UNCHANGED <<keys, status, skip, requested, recent, missingFor, reader, entity,
                   owed, honours, overlapped, refused>>

ServiceReadFails ==
    /\ asking > 0
    /\ asking' = asking - 1
    /\ UNCHANGED <<cache, missingFor, reader, entity, past>>

\* Ten minutes pass.
TimePasses ==
    /\ recent
    /\ recent' = FALSE
    /\ UNCHANGED <<settings, keys, status, skip, requested, missingFor, reader, entity, asking, past>>

\* The entry is set up again; services that wait write to the old coordinator.
Reload ==
    /\ settings' = {} /\ keys' = {} /\ status' = Nothing /\ skip' = {}
    /\ requested' = FALSE /\ recent' = FALSE /\ missingFor' = {}
    /\ at' = [r \in Readers |-> "idle"]
    /\ asked' = [r \in Readers |-> FALSE]
    /\ result' = [r \in Readers |-> Nothing]
    /\ known' = {} /\ buttons' = {} /\ asking' = 0
    /\ owed' = FALSE /\ honours' = {} /\ overlapped' = FALSE /\ displaced' = FALSE
    /\ refused' = {}

-----------------------------------------------------------------------------
TargetAnswers(r, t) ==
    \/ TargetRead(r, t)
    \/ TargetGone(r, t)
    \/ TargetForbidden(r, t)
    \/ TargetFails(r, t)
    \/ PathMissing(r, t)

Next ==
    \/ \E r \in Readers, listed \in Lists :
          RefreshDue(r, listed) \/ RefreshNotDue(r, listed)
    \/ \E r \in Readers, t \in Targets : TargetAnswers(r, t)
    \/ \E r \in Readers : SettingsFail(r) \/ RefreshEnds(r) \/ RefreshFails(r)
    \/ \E listed \in Lists : ServiceAnswered(listed)
    \/ ServiceAsks \/ ServiceReadFails
    \/ RefreshCut \/ Publish \/ Request \/ TimePasses \/ Reload

Spec == Init /\ [][Next]_vars

-----------------------------------------------------------------------------
(***************************************************************************)
(* Properties.                                                             *)
(***************************************************************************)

\* A refresh that a user action asked for is lost only when a read fails or is
\* cut: while it is owed it is asked for, or a refresh that began after the
\* action is still under way.
RequestSurvives == owed => requested \/ \E r \in honours : Reading(r)

\* What is cached about inventories is about targets of the readers' latest list,
\* except between the end of a refresh that another reader has overtaken and the
\* next settings.  The cached settings name those targets too, unless a service's
\* late answer has displaced the list: until the next settings there is then an
\* inventory of targets that are not listed.
InventoryIsListed ==
    ~overlapped =>
        \A t \in Targets :
            status[t] # "none" \/ t \in skip => t \in keys /\ (t \in settings \/ displaced)

\* Only a refusal of a target, or a 404 about one of its type, makes it skipped:
\* no connection failure, server error or unusable answer does, in any order and
\* of either reader, although the reasons to skip outlast the refresh.
SkippedWasRefused == skip \subseteq refused

\* A button that was created in this load is taken away, for the rest of the
\* load, only if the console has refused the target or its type.
ButtonLostWasRefused == known \ buttons \subseteq refused
=============================================================================
