# TLA+ models of the UniFi UNAS integration

This directory models the Home Assistant integration `unifi_unas`
(`src/custom_components/unifi_unas`), which polls a UniFi Drive console, shows its
state as entities and performs user actions on it. The integration is a handful of
asyncio tasks over shared objects: what is hard in it is what happens between two
awaits. The modules say what the code does there, TLC checks it on small instances,
and TLAPS proves the main safety properties for every instance.

Paths below are relative to `src/custom_components/unifi_unas`.

## Inventory

| Part | State it keeps | Operations | What must hold |
|---|---|---|---|
| API client, session (`api/auth.py`, `api/transport.py`) | `_authenticated`, `_token_cookie`, `_csrf_token`, `_login_lock` | login, re-login and one retry around every operation | logins exclude each other; a retry uses a fresh session; the end of one session is not visible to the caller; nobody waits for ever |
| API client, operations (`api/storage.py`, `fan.py`, `backup.py`, `snapshot.py`, `system.py`, `updates.py`) | sticky capability flags, last fan mode | reads and writes, several paths or payloads per operation | a missing endpoint is told from a failing one; a partly done write is not reported as done |
| Update coordinator (`coordinator.py`) | data, `is_device_online`, failure count, slow-tier request and time, cached optional data | poll, first refresh, startup refresh, refresh requests | one missed poll is tolerated, the second takes the device offline; requests are not lost; what is shown agrees with what guards use |
| Entry lifecycle (`__init__.py`, `entry_reload.py`) | runtime data, reload signature, listeners | setup, unload, reload on update | no stale configuration, no runtime left behind |
| Snapshot inventory and target entities (`coordinator.py:294-480`, `snapshot/entities.py`, `snapshot/repairs.py`) | inventory, errors, skip reasons, missing counts, repair issues | refresh, prune, count missing targets, raise and clear issues | state of targets no longer advertised goes; issues are raised and cleared together with their cause |
| Snapshot writes (`snapshot/write.py`, `snapshot/schedule.py`, `api/snapshot.py:253-498`) | the console's settings, per-type capability flags | body rules, DELETE and PUT and POST over several paths, retry | a write changes what was asked for and reports what it did; a type is blocked only when refused |
| User actions (`services.py`, `button.py`, `select.py`, `update.py`, `number.py`, `switch.py`, `time.py`) | none | guard, client operation, refresh request | refused while offline; followed by a refresh |
| Flows and discovery (`config_flow*.py`, `discovery/`) | entry data, observations | setup, reauth, reconfigure, discovery | one entry per device, which stays the entry of that device |
| Storage sensors (`entities.py`, `entity_base.py`, `storage/pools.py`, `storage/drives.py`) | known keys, the look-up kept per sensor | create missing sensors, look up by key | a sensor shows its own pool or drive or is unavailable |
| Diagnostics, redaction, Wake-on-LAN packet | none | pure functions | not modelled |

Interactions. The poll and the user actions call the same client and so share one
session and its lock. User actions write cached coordinator fields directly and ask for
a refresh; Home Assistant's `DataUpdateCoordinator` runs one poll at a time and drops a
refresh requested while one runs. The startup refresh is a separate background task
that reads the same optional endpoints as the poll, writes the same fields and
republishes the data. Options and discovery updates reach the entry through a listener
that compares reload signatures.

Hard behaviour: all of it interleaves at awaits; every exchange may time out, also after
the console acted; sessions end at any moment; polls are cut by a budget; the
optional tier is read every ten minutes only. `PROJECT.json` lists the hazards by line.

## Modules

| Module | What it models |
|---|---|
| `UnasSession` | the session shared by all calls of one client, and the console's side of it |
| `SharedSession` | the abstract promise of one client to the calls that share its session |
| `UnasSessionProofs` | the theorems of `UnasSession`, the refinement of `SharedSession` among them |
| `DeviceHealth` | the abstract promise about `is_device_online` |
| `UnasCoordinator` | polls, startup refresh, offline tolerance, slow tier, fan-mode writes |
| `UnasCoordinatorProofs` | its theorems, the refinement of `DeviceHealth` among them |
| `SnapshotTargets` | reads of the snapshot settings, target entities, missing counts, repair issues |
| `SnapshotTargetsProofs` | its theorems |
| `SnapshotInventory` | the inventory refresh of two readers, skipped targets, create buttons |
| `SnapshotInventoryProofs` | its theorems |
| `EntryLifecycle`, `EntryLifecycleProofs` | set-up, update listener, reload signature, reload and unload of one config entry, and the forms and discovery that save it; its theorems |
| `SnapshotWrites`, `SnapshotWritesProofs` | settings writes and creations, from what a caller asks to what the console holds; its theorems |
| `DiscoveryIdentity`, `DiscoveryIdentityProofs` | which console is which: announcements, scans, flows, entries; its theorems |
| `StorageEntities`, `StorageEntitiesProofs` | keys of storage sensors, their creation and look-up; its theorems |
| `MC...` | constants and symmetry for TLC, one for each of the above but `DeviceHealth` and `SharedSession` |

Definitions whose comment starts with "Mutant" are not part of a specification: each is
a plausible bug, used to see that a property notices it.

### UnasSession

A task is one call of a client operation; an action is the code between two awaits that
really suspend. `Begin` is `_ensure_authenticated`, `EnterLogin`/`Acquire` the lock with
its second look at `_authenticated`, `Prime` the end of `_prime_csrf_token`,
`LoginGranted`/`LoginCut`/`LoginRefused` the login response, `Reauthenticate` and
`GiveUp` the `except InvalidAuth` frame that every operation of `api/*.py` repeats,
`SendAnother` the next path or payload of an operation, `Unreachable` the request
timeout, `Cancel` the budget of the poll. Sessions are natural numbers in the order
the console opens them. `Expire`, `Serve`, `RejectDead`, `RefuseRequest`, `OpenSession` and
`RefuseLogin` are the console: it may end any session at any time and refuse valid
requests (the code cannot tell a missing permission from a dead session).

`SharedSession` has no requests, answers, time-outs or console: a call is idle, before its
first login, at its first request, before its second login, at its retry, or ended; one call at
a time has the turn to log in. The refinement mapping reads the stage of a call from `pc` and
`attempt`, the turn from `lock`, the session from `cookie`, and the refused session from
`rejected`, which counts in the second attempt only. What it adds to the invariants is the
order of a call's steps: at most two logins and one retry per call, whatever is refused, and a
new session only from the call whose turn it is.

Left out: the CSRF token, the three metadata reads after the storage read (their
`InvalidAuth` is swallowed without a login), response payloads.

### UnasCoordinator

`at["poll"]` and `at["startup"]` say where the two readers are suspended. The poll is
`PollBegin` (the request is consumed), one `First...`, `Storage...`, `Miss...` or `Poll...`
action per outcome of the storage read, the optional stages shared with the startup
refresh (`FanSampled`, `FanApplied`, `FanFailed`, `FanNotFound`, `FanUnusable`, `RestRead`,
`RestFailed`), `CutPoll` for the budget and `PollEnd`. A fan-mode write is `WriteBegin`,
`WriteApplied` (the device), then `WriteAcknowledged` or `WriteFailed`. A fan-mode read
is two steps, the device's answer and its arrival, so that answers can cross writes
and each other. Time is only `lastSlow`: never, less than ten minutes ago, longer ago.
The condition of the device decides what a read meets: `up` and `slow` answer (when
slow, reads may time out and the budget may run out), `down` is `CannotConnect`,
`broken` is `UnexpectedResponse`, 404, or an answer without a mode, `locked` is `InvalidAuth`.
A fan read without a mode in its answer stores the client's `_last_fan_mode`, which lost
writes, discarded reads and storage payloads also set: any mode (`CacheLastFanMode`). The
device's own mode changes only by the writes of Home Assistant, as the code assumes ("only
change on user action", `coordinator.py:203-204`); a mode set elsewhere is seen by the next
slow tier like any other.

`owed`, `excused` and `overtaken` are history: which parts of the slow tier have not been
read since the user asked, for which of them a read or a write report failed since, and
which reader holds an answer older than another reader's.

`Publish` and the scheduling of polls (`armed`) are Home Assistant's, modelled from how
the code uses them. Left out: `fan_control_enabled = False` (the fan stage is skipped,
as with `readable = FALSE`), backup and snapshot data (the stage "rest"), log flags.

`DeviceHealth` has three states, `online`, `suspect` and `offline`; the refinement
mapping reads them from `online` and `failures`, and `known` from `data`. An online device with
more misses than are tolerated has no abstract counterpart ("overdue"), so that the
refinement also says that there is none.

### SnapshotTargets

What `UnasCoordinator` calls the stage "rest" holds the snapshot settings. `ReadListed`,
`ReadErrorStatus`, `ReadUnsupported`, `ReadUnreachable` and `ReadRefused` are the outcomes of
`_refresh_snapshot_settings` by either reader, which has asked in `ReadAsks`,
`InventoryDone` the update of the read issue once the inventory is through, `BudgetEnds` the
budget, which may cut the read itself, `DisabledPoll` the clearing of
the state while the option is off, `Publish` the listeners `_add_missing_entities` and
`_update_snapshot_target_missing_state`. A service that finds no cached targets
asks (`ServiceAsks`) and writes the answer over whatever is cached by then
(`ServiceAnswered`, `ServiceReadFails`); after a reload it writes to the old coordinator and
still updates the issue (`OrphanEnds`). `ActionEnds` the end of a user action with its issue, `Reload` a new set-up of the
entry: the issues stay, everything else is new. A list of targets is recognised by its
address in the code; `counted` says whether the current list has the counted address,
and `Install` lets a new list have it by chance if the counted one may have been freed.
`lacking` and `carried` are history: lists since a target was last published, and issues
left by an earlier load.

Left out: disabled entities and entities that Home Assistant drops (the bucket is a weak
set), two targets whose keys have the same slug, and an action's time between its guard
and its end, during which the target may vanish (only its type matters to its issue).

### SnapshotInventory

The inside of the stage "inventory". `RefreshDue` takes the request and decides which
targets are read, `TargetRead`, `TargetGone`, `TargetForbidden`, `TargetFails` and
`PathMissing` are answers about one target, `RefreshEnds`, `RefreshFails` and `RefreshCut` the
three ends, `Publish` the removal of unsupported create buttons and the adding of new
ones. `result` is what a reader has in local variables, so that it can overwrite what the
other reader has done. `missingFor` is the client's per-type flag, which one path of one
target sets and the next refresh reads for all targets of the type. `ServiceAsks`,
`ServiceAnswered` and `ServiceReadFails` are a service's read on demand, whose answer replaces
the list at any later time. `owed`, `honours`, `overlapped`, `displaced` and `refused` are
history. The option is taken to be on.

Left out: the order in which one reader takes its targets (any order is allowed), counts
and times of snapshots, targets of a type other than shared and personal drives.

### EntryLifecycle

`settings` and `facts` are what is saved in the entry: connection with credentials and
options, and the discovery metadata, whose keys `EntryReloadSignature` leaves out.
`SetUp` is `async_setup_entry` up to the first refresh; `RefreshSucceeds`,
`RefreshUnreachableWithWol`, `RefreshUnreachable` and `RefreshRefused` are that refresh's
outcomes with what follows up to the platforms, `PlatformsReady` and `PlatformsFail` the rest.
`Listener` is `_async_config_entry_updated` up to its await: Home Assistant calls it at every
save, from a form (`SaveOptions`, `ReauthValidated`, `ReconfigureValidated`) or from
discovery (`Observe`). `ReloadBegins`, `UnloadBegins`, `Unloaded` and `UnloadFails` are Home
Assistant's life cycle as the code uses it, one at a time per entry. `unheard` and
`chosen` are history.

Two things a reader may not expect are in the model as the code has them. A
reconfiguration saves options and metadata that it read before it awaited the validation, so
that what was saved meanwhile is lost; a re-authentication takes them from the entry as
it is afterwards (`ChosenOptionsStay` says exactly that). After a failed unload the old
coordinator stays, while its signature already says the new settings. A
re-authentication after a failed set-up reloads nothing, because the listener is registered
only after the first refresh (`__init__.py:149`; Home Assistant's retry or the user does it).

`ReconfigureValidated` replaces all options although `merged_feature_options`
(`entry_options.py:105-107`) overlays only the keys it is given: what it is given has been
through `_merge_feature_defaults` and `_normalize_user_input`
(`config_flow_schema.py:204-211`, `257-330`) and holds every one of them. Left out: a
cancellation while the platforms are set up, which the handler at `__init__.py:170` does not
catch.

### SnapshotWrites

A job is one call of an entity or a service. `EntityWrites`, `ButtonPressed`, `ServiceCalled`
and `ServiceFetches`/`Fetched` begin it and choose its target; `Authenticated` begins an
attempt with its first method and path; `AnswerOk`, `UnavailableHere`,
`CreationUnavailable`, `DeleteUnavailable`, `PutUnavailable`, `UnavailableAfterError`,
`AnswerError`, `AnswerExpired`, `AnswerExpiredAgain` and `NoAnswer` are the answers to one request
with all that the client does before the next. `WriteBody` is the body of a PUT, with the
conversions of times, days and limits it rests on. The console carries out what its firmware
serves, also when the answer is lost. `ConsoleEdits` and `ConsoleRemoves` are the console's
own interface. `applied` and `doubtful` are history: effects so far, and whether the
console answered with an error that leaves the effect unknown.

A `Policy` is what the console holds, also what the integration does not understand: fields
that are absent, a frequency of its own, days that are none, no readable time.
`SettingFromItem` makes of it the `Setting` that entities and writes see. The console is
assumed to put the body of a PUT in the place of what it had.

In the model as the code has them: the body of a PUT is a whole setting over the one read
last, so that what somebody changed on the console since is written back
(`ChangesOnlyWhatWasAsked` relates the body to the setting it was based on, however old). A
write that asks for something else also changes a schedule the integration only half
understands: one that is shown as "Daily", "Weekly" or "Monthly" because of its interval or
days, with `enable` absent, is switched off; a frequency of its own becomes daily; a time that
cannot be read becomes midnight; days that are none are dropped (`schedule.py:46-67`,
`190-196`, `payload.py:186-227`). `KeptFrequency` and `Meets` say so. A removed drive's 404
switches off writes for its whole type until a reload; a change of anything on a target whose
schedule is "Never" rewrites its days to `*`; a limit above 256 is clamped silently; after
an error on one path the next is tried, which may create two snapshots (`doubtful`).
Left out: the guard on an offline device, which only removes steps; weekday names; targets of
unknown type; a 404 on a path the firmware serves, from a console that is still booting, which
would switch writes off like a path it does not serve.

### DiscoveryIdentity

`at` says which console answers at a host, `says` what it tells a client about itself
(a system id, an account id, nothing); DHCP moves hosts (`Moves`), firmware updates add the
system id (`Upgrades`). An announcement is a record of hosts and perhaps a MAC
(`HardwareAddress` drops one that does not parse). `Zeroconf` and `ScanFilters` compare it
with the entries and record it; `UserStarts` ... `FeaturesChosen` are the steps of the user and
discovery flows, each between two awaits; `ReconfigureSubmitted` and `Reconfigured` the two
halves of a reconfiguration; `SetUpBegins`, `SetUpAnswered`, `SetUpUnanswered` and `CleansUp`
what a set-up does to the identity and to open cards. `born`, `told`, `vouched` and `trusted`
are history.

`vouched` holds the MACs an entry has a source for: the answer of a set-up, because a set-up
checks no identity (`__init__.py:284`) and whatever console answers at the host has its MAC
recorded; the first announcement that an entry without a MAC meets at its host, which may be a
stranger's (`trusted` holds those, and `MacsVouchedFor` also says that there is one at most); and
the announcement behind a card, also when the user edits the host in the card's
form, which gives the entry the other device's announced MAC. Left out: sources,
confidence, conflict codes and last-seen times, which only diagnostics read; ports; removal
of entries; flows that are given up simply stay.

### StorageEntities

A payload is three lists; an entry of one is an identity of each kind and the pool or
drive it is really about, which the code cannot see. `PoolKey`, `DriveKey`, `PoolFromKey`,
`DriveFromKey` and `CacheFromKey` are the keys and look-ups with their fallbacks.
`PollAnswers`, `Republished`, `OfflineCopyPublished` and `PollFails` are what the coordinator
publishes, after which the listeners add missing sensors and every listed sensor writes its
state from its kept look-up (`WritesStates`); `SensorsAdded` is the later addition by Home
Assistant, `Loads` a new set-up. `named` is history: what a key named when its sensor was
created.

Identities are sequences of words, the parts of the code's slugs between underscores, because
the fallbacks for older unique IDs read them: `PoolIndex` is the n of a key pool_n, `DriveIndex`
that of a whole key (pool and drive) that ends in drive_n, `Token` what is left when only
letters and digits count, which the last fallback compares, for pools also with the displayed
name, "Pool n" for one without a name (`PoolName`).

`OwnDataOnly` speaks of keys made of lasting identities (`Lasting`) that neither read nor
end like a position. Of other keys it is not true, and the instance has them: a sensor of
a removed pool named "Pool 1" or "pool1" shows another pool (`pools.py:370-374`, `391`); one of a
removed drive named "Hard Drive 1", or in slot 1 of a pool named "My Drive", shows another drive
of its pool (`drives.py:22`); a key that is a slot or a position shows
what is there now. Left out: an HDD and an SSD that have only a slot, the same one, share
a key; drive b_c of pool a and drive c of pool a_b do (`JoinAssumption`); a pool named
"cache" collides with the cache group; what the values are made of. Sensors
created in one publication are added together.

## Runs

| Run | Bounds | Shows |
|---|---|---|
| `session` | 2 calls, one that may be cancelled; 1 further request per attempt; with and without API key; any number of expiries | `OneLoginAtATime`, `RetryUsesFreshSession`, `FailureNeedsTwoExpiries`, `CookieNeverRegresses`, the refinement of `SharedSession`, `EveryCallEnds` |
| `coordinator_safety` | 2 writers, 2 modes (symmetric), every condition, Wake-on-LAN set-up | `PublishedMatchesHealth`, `ShownDataIsPolled`, `NoSilentDrop`, `StaleModeIsTemporary`, the refinement of `DeviceHealth` |
| `coordinator_recovery` | 1 writer, device up, down or broken | `RecoversWhenUp`, `OfflineWhenDown`, `FanModeConverges` |
| `snapshot_targets` | 2 targets of one type, one never listed without the other; 1 action, 1 service read at a time, counts up to the threshold of 3 | `MissingIssueFollowsCount`, `EachListCountsOnce`, `MissingIsReported`, `ReturnedTargetIsCleared`, `ReadIssueIsCleared` |
| `snapshot_issue_stays` | the same | violation: an issue left by a reload stays although its target is listed |
| `snapshot_inventory` | 1 shared drive and 1 personal drive of another user, listed together or not at all; 2 service reads at once | `RequestSurvives`, `InventoryIsListed`, `SkippedWasRefused`, `ButtonLostWasRefused` |
| `entry_lifecycle` | 2 connections, options with and without Wake-on-LAN, 2 reloads waiting | types, `HeardSettingsRun`, `NothingLeftBehind`, `ChosenOptionsStay`, `MetadataNeverReloads`, `HeardSettingsAreApplied` |
| `entry_saved_unheard` | the same | violation: options saved during the first refresh never apply |
| `snapshot_writes` | 1 target with 2 paths, 2 writers (symmetric), 2 calls, 2 policies on the console, 1 edit, 3 firmwares | types, `EffectIsReported`, `ChangesOnlyWhatWasAsked`, `BlockedOnlyWhenRefused` |
| `discovery_identity` | 2 consoles, 2 hosts, 2 flows, 2 entries, 1 event, 1 device per scan | types, `ConfiguredOnce`, `AlwaysItsConsole`, `MacsVouchedFor` |
| `discovery_card_dismissed` | the same | violation: the card of another device at a known host is dismissed |
| `storage_entities` | 2 pools, 4 drives, 3 kinds of firmware, 3 answers per load | `OwnDataOnly`, `ListedIsShown`, `ShownIsCurrent` |

A type invariant that a run does not name (those of `UnasSession`, `UnasCoordinator`,
`SnapshotTargets`, `SnapshotInventory` and `StorageEntities`) is proved by TLAPS, as `TypeCorrect`.

Bounds. Each call of `UnasSession` logs in at most twice, so the sessions are bounded
without a constraint. Two calls have every pair of roles: holder and waiter of the lock,
and a late rejection after another's login; that a third can be a holder,
a waiter or late at the same time is left to the proofs, which hold for any number of
calls. The coordinator has no unbounded counter: `failures` stops at
`Threshold`, beyond which the code only compares. Two modes tell a stale mode from the
device's; two writers add answers that arrive in the other order. Counts of missing targets
stop at the threshold, beyond which the code only compares. Two targets of one type share
the list, its address and the issues of actions; the lists they may be in (`Lists`) are none, one
that stays alone, and both, so that one of them comes and goes beside the other and both vanish
together. In `snapshot_targets` a service read at a time
is enough for an answer that comes over a newer list, before or after a reload; in
`snapshot_inventory`, where the list is all or nothing, two are one that is overtaken and one that
overtakes. That a list loses one drive and keeps another is left to the proofs there, which hold
for any `Lists` and any number of services. A shared and a personal drive show both that a flag outlives the
listing of a target and that only another user's drive can lose its button. That a 404
about one drive makes others of its type skipped needs two of a type: `snapshot_inventory`
does not have them, the proofs hold for any number. `MaxReloads` bounds reloads that wait;
two are enough for one that is overtaken by another. In `snapshot_writes` two calls interleave in all
of their steps, a firmware serves all paths, only the second or no PUT at all, and the
asks are the boundaries of the ranges, some of them refused; a blocked type is felt by the
second call on the same target, so that one target is enough. In `discovery_identity` one event is a
host that goes to the other console, a firmware update, an edit or a reload at any moment; two flows
race for one console or card, two entries for one address. The three answers of `storage_entities`
are one before, one with, and one after a change of firmware, order or members; the names and
slots include one that lasts, one that is a position, one that ends like one, and one that two
drives have. Of the two policies of `snapshot_writes` one has a frequency of its own, days that
are none and a limit that is clamped, the other lacks `enabled`, `enable` and a time and has the
interval of a day. The
liveness runs leave out symmetry.

Fairness. In `UnasSession` every exchange ends because `_request_with_timeout` bounds it
(weak fairness of a call's own steps), and `asyncio.Lock` wakes its waiters in order
(strong fairness of `Acquire`). In `UnasCoordinator` timers fire, exchanges end and
runnable tasks run (weak fairness). Nothing is assumed of the user, and of the device only that nobody else
sets its fan mode (see above), so the liveness properties say under which condition of the device
they hold. Polling
stops after rejected credentials until the entry is set up again, so they also assume
a device that never rejects them. In `SnapshotTargets` only what a reader has read is
taken further: the end of the inventory stage and the publication of the poll are fair. That polls
read the settings is not assumed, because the code does not promise it: the read comes after a
storage read that must succeed (`coordinator.py:165-175`) and at the end of a budget (`:188`) that
slower endpoints may use up in every poll. So the properties say what they need.
`MissingIsReported`: polls end reads of the settings again and again, and from some time on no
late answer of a service replaces the list (each replacement may reuse the counted address).
`ReturnedTargetIsCleared`: polls publish again and again. `ReadIssueIsCleared`: polls meet listings
again and again, and from some time on there is no reload and the budget cuts no inventory. In `EntryLifecycle` Home Assistant runs what it
has begun: the awaits of a set-up end, a reload that waits gets the lock, the second half of
a reload follows the first, a set-up that found no device is tried again. Nothing is assumed of
the user or the device; that platforms fail or do not unload is possible and never owed.
The other modules state safety only.

## Proofs

TLAPS proves the following for any constants that satisfy the assumption of the module
(`SessionAssumption`, `CoordinatorAssumption`, ...), none of which bounds the number of tasks,
targets, flows or entries.

- `UnasSessionProofs`: `TypeCorrect`, `LoginsExclude`, `RetriesAreFresh`,
  `OneExpiryIsTransparent`, `CookieIsMonotonic`. The inductive invariant `IInv` has three
  parts beside the types. `LockInv`: the lock is held exactly by the call in a login
  exchange. `OrderInv`: what calls carry is no newer than the cookie, which is no newer
  than the grant of the one login response that may be unread; the lock is what
  makes it the only one. `DeadInv`: as long as nothing valid was refused, a recorded
  rejection is of a dead session, and dead sessions stay dead. `ImplementsShared`, the
  refinement of `SharedSession`, rests on the same invariant: `StageMoves` says which stages
  an action maps to, `LockInv` makes the call that reads a login response the one whose turn
  it is, and `OrderInv` makes the session it brings a newer one. `WaitersWaitForALogin` is the safe half of `EveryCallEnds`: the lock that a
  call waits for is free or held by another call that is in its login exchange, which a
  time-out ends.
- `UnasCoordinatorProofs`: `TypeCorrect` (with `TargetInv`: a write under way has a mode);
  `PublishedAgrees` and `ImplementsHealth` from `HealthInv`, which adds to the
  property what holds while a poll is in its optional stages, namely that the device is
  online with no failure counted, and that without data nothing but first attempts
  has happened; `PollingGoesOn`; `RequestsSurvive` from `RequestInv`, which
  adds that when a reader is past a part that is still owed, the part is asked for again,
  so that marking the tier as read loses nothing; `StaleIsTemporary` from
  `StaleInv`, which speaks also of answers on their way: one that is no longer the device's
  mode means that a read or an acknowledgement is still to come, that one has failed, or that
  its reader was overtaken, so that storing it leaves the property true.
  `PollingSurvivesFailures` is the safe half of `RecoversWhenUp`: under conditions that never
  reject credentials a poll runs or is scheduled, also after every kind of failure.

- `SnapshotTargetsProofs`: `TypeCorrect`, `IssuesFollowCounts`, `ListsCountOnce`,
  `KindsExclude`, each from an invariant that is inductive with the types; `ListsCountOnce`
  adds that a list that is not yet counted is one more than the count.
- `SnapshotInventoryProofs`: `TypeCorrect`; `OnlyRefusedAreSkipped` and
  `OnlyRefusedLoseButtons` from `RefusedIsBacked`, which follows a refusal through all the
  places that hold it: reasons to skip, the cache, both readers' results and the type
  flags; `RequestsSurvive` from `RequestIsCarried`, which adds that some refresh that
  began after the request will ask again if it fails; `InventoryListed` from
  `OneReader`, which says the same of a refresh under way. `InventoryIsListed` allows for the late
answer of a service (`displaced`), because there it is false in the code.

- `EntryLifecycleProofs`: `TypeCorrect`, `NothingLeft`, `HeardRun`, `ChosenStay`,
  `MetadataNeverReload`. `SignatureFollows`: while a listener is registered, the signature is
  what is saved, so that a save of metadata alone never differs from it. `BuiltFollows`:
  as long as nothing was saved unheard, what runs was built from what is saved, or a
  reload waits. Both are about every state between set-up and unload, which
  `HeardSettingsRun`, about loaded entries only, is not.
- `SnapshotWritesProofs`: `TypeCorrect`, which includes that a body is a setting whatever
  was asked for (`BodyType`); `EffectReported`; `BlockedWhenRefused`; `ChangesAsked`, from
  `BodyMeets` (what is read back of the body is the setting with what was asked, for every setting,
  which is what `SettingFromItem` makes of any policy, `ItemType`, and every ask
  that passed the checks: `LimitChosen`, `DaysChosen`, `FrequencyChosen`, `TimesAreMeant`)
  and from the second invariant `Askeds`: what a job asks for has passed those checks, and
  DELETE is sent only for an ask that turns everything off. The first invariant is
  per job (`Sound`): an attempt without an error has applied nothing yet, so that what is
  applied at all is bounded by the errors so far and the end; and a write that is at its
  second path with nothing but refusals has been refused at the first, or its target is gone.
- `DiscoveryIdentityProofs`: `TypeCorrect`, `OneEntryEach`, `ItsConsole`, `MacsAreVouched`.
  `BornInv`: an entry that was born with a console's id has it as its unique id, and was
  told no other. `FlowInv`: a flow that has validated a console carries its id as its
  unique id, and what a reconfiguration has read of the entry is vouched for. `VouchInv`: the
  MACs in an entry are vouched for. `TrustInv`: an entry that has taken a MAC on trust has that
MAC, so that the next announcement at its host adds none. `ConfiguredOnce` is inductive with these, because Home
  Assistant aborts the flows with the unique id of a new entry.
- `StorageEntitiesProofs`: `TypeCorrect`, `ShownCurrent`, `OwnData`. `IdentityAssumption`
  says what makes an identity a lasting one: no other pool or drive is ever reported with its
  letters and digits, and they are not those of a position. It assumes nothing of the other
  identities, of which `OwnData` says nothing: slots that a new drive is put into, names
  that move. `Belongs` says what a key that is a lasting identity names in any payload; a look-up
  finds that or nothing (`ResolveTypes`), by any of the fallbacks (`PoolFound`, `DriveFound`). `ListedShown` is the converse, for
  payloads in which nothing shares a key (`Distinct`): what is listed is found under its key
  (`ListedIsFound`), because the look-ups go through the same lists and only what has that
  key can match, and every listener has added it (`ListedInv`). `Distinct` also excludes a
  pool that is listed twice with different members: the look-up stops at the first, so that
  a member of the second only has a sensor and no data.

Only model-checked: the liveness properties (`EveryCallEnds`, the three of
`coordinator_recovery`, the last three of `snapshot_targets`, `HeardSettingsAreApplied`), which
rest on fairness and so on ENABLED, out of this prover's reach, and the violations, which are
about one instance. Every safety property of a passing run is proved. The fixed
instances are explored completely in every run.

## Findings

- `snapshot_issue_stays`: the issue about a missing target is persistent, the counter that
  clears it is not; after a reload the issue stays although the target is back, against
  its own text (`translations/en.json:30`, `snapshot/entities.py:164`).
- `entry_saved_unheard`: the reload signature is taken after the first refresh and the
  listener registered after that, so options saved during the refresh are in the signature
  and not in the coordinator, and nothing reloads, against the text of the options form
  (`translations/en.json:348`, `__init__.py:148-149`).
- `discovery_card_dismissed`: the clean-up of cards at set-up compares hosts before MACs, and
  dismisses the card of another device that has one of the entry's addresses, against
  the rule that the flow itself follows (`tests/test_config_flow_helpers.py:1027`,
  `discovery/identity.py:137`).

Behaviour worth knowing that no run is about: a late 401 for the old session resets
`_authenticated` after another call has logged in again, so that a second full login runs
(`api/auth.py:215-220`); a refresh request is consumed as the poll starts and not repeated
when that poll fails or is cut before the slow endpoints (`coordinator.py:154`, `170-197`). One target's 404 makes the next
refresh skip all targets of its type, and for the rest of the load, since only a successful
read lifts the flag and none is tried any more (`coordinator.py:428-439`); a create button
that was removed is not added again before the next load (`snapshot/entities.py:104-119`);
settings that cannot be read for three reads in a row, with the storage readable, count as
the disappearance of every target.

A service that found no settings may write its answer over a newer list: the cached inventory then
is about targets the list lacks until the next read of the settings (`services.py:643-659`).
A fan endpoint that answers 404 once is not read again before a reload (`api/fan.py:120`).
The sensor of a removed drive called "Hard Drive 1" shows the first drive of its pool, because the
look-up by position, meant for older unique IDs (`entities.py:359`), takes every key that ends in
drive_n (`storage/drives.py:22`).

## Not modelled

- Values: what sensors compute of a payload (sizes, rates, health, progress), the
  heuristics that recognise pools and drives in different firmwares' payloads, system
  metadata, backup tasks and firmware updates beyond their requests. They are pure functions of one
  payload, covered by unit tests, and hold no state.
- Diagnostics and redaction, the Wake-on-LAN packet, forms and input normalisation, icons and
  names: the same.
- Entry resolution of service calls (device and entry ids to an entry), a look-up.
- The device-registry synchronisation after a poll, which writes what the payload says.
- The CSRF token: what the console does with an outdated one is not visible in the code.
- Starvation of the later slow endpoints by the earlier ones within one budget: it needs
  a clock for each read, which `UnasCoordinator` replaces by a budget that may end anywhere.
