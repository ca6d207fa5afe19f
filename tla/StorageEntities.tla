--------------------------- MODULE StorageEntities ---------------------------
(***************************************************************************)
(* The sensors of pools, drives and cache drives, and what they show       *)
(* (entities.py:57-392, entity_base.py:38-64, storage/pools.py:152-396,    *)
(* storage/drives.py:162-335 and 645-659).                                 *)
(*                                                                         *)
(* A sensor is created once for each key of the storage payload and looks  *)
(* its pool or drive up again, by that key, in every payload that follows. *)
(* What makes it hard: a key is the first identity the firmware reports    *)
(* (an identifier, a name, a slot) or else the position in the list, and   *)
(* the next payload may list other things, in another order, with other    *)
(* identities.                                                             *)
(*                                                                         *)
(* A payload is [pools, disks, cache], three sequences: pools with their   *)
(* member drives inside, the drives of the console with the pool each one  *)
(* refers to, and the cache drives.  An identity is the slug it turns      *)
(* into, the sequence of its words ("Hard Drive 2" becomes hard_drive_2):  *)
(* the fallbacks of the look-ups tell positions by the last words.         *)
(* Identities are `id`, which stands for uuid and guid and a drive's       *)
(* serial as well, and `name`, which stands for a label and a drive's      *)
(* slot.  One sensor stands for all the descriptions of a pool or a drive; *)
(* the binary sensors of pools do the same without the cached look-up.     *)
(***************************************************************************)
EXTENDS Integers, Sequences, FiniteSets

CONSTANTS Pools,      \* the pools there may be
          Drives,     \* the drives there may be
          Slugs,      \* identities, as sequences of words
          Machine,    \* those that look like a UUID or a hash
          Lasting,    \* those that one pool or drive has, whatever is reported
          Numeral,    \* Numeral[n]: the word for the number n
          Value,      \* Value[w]: the number a word is read as, 0 for none
          Token,      \* Token[slug]: its letters and digits (`normalized_token`)
          Payloads,   \* what the storage endpoint may answer
          Nothing,    \* None
          MaxAnswers  \* bound: answers within one load of the entry

Things    == Pools \cup Drives
Positions == 1 .. Cardinality(Things)
PoolAt(i)  == <<"pool", Numeral[i]>>
DriveAt(i) == <<"drive", Numeral[i]>>
PoolKeys  == Slugs \cup {PoolAt(i) : i \in Positions}
DriveKeys == Slugs \cup {DriveAt(i) : i \in Positions}

\* Keys of sensors: unique IDs without the device and the description.  The key
\* of a pool's drive is one string in the code, pool \o drive here.
Keys == [kind : {"pool"}, pool : PoolKeys]
        \cup [kind : {"drive"}, pool : PoolKeys, drive : DriveKeys]
        \cup [kind : {"cache"}, drive : DriveKeys]

VARIABLES data,     \* coordinator.data
          success,  \* coordinator.last_update_success
          known,    \* known_pool_keys, known_drive_keys and known_cache_keys
          added,    \* the sensors among them that Home Assistant has added
          cached,   \* _resolved_value of an added sensor
          current,  \* sensors whose _resolved_snapshot is coordinator.data
          shown,    \* what the state of an added sensor is about; None: unavailable
          named,    \* history: what a key named when its sensor was created
          answers   \* answers in this load

vars == <<data, success, known, added, cached, current, shown, named, answers>>

TypeOK ==
    /\ data \in Payloads \cup {Nothing}
    /\ success \in BOOLEAN
    /\ known \subseteq Keys
    /\ added \subseteq known
    /\ current \subseteq added
    /\ DOMAIN cached = added /\ \A k \in added : cached[k] \in Things \cup {Nothing}
    /\ DOMAIN shown = added /\ \A k \in added : shown[k] \in Things \cup {Nothing}
    /\ DOMAIN named = known /\ \A k \in known : named[k] \subseteq Things
    /\ answers \in 0 .. MaxAnswers

(***************************************************************************)
(* Keys.                                                                   *)
(***************************************************************************)

PoolKey(entry, i) ==
    IF entry.id # Nothing THEN entry.id
    ELSE IF entry.name # Nothing THEN entry.name ELSE PoolAt(i)

DriveKey(entry, i) ==
    IF entry.id # Nothing THEN entry.id
    ELSE IF entry.name # Nothing THEN entry.name ELSE DriveAt(i)

\* The displayed name of a pool, where an identifier only a machine would give
\* is not shown.
PoolName(entry, i) ==
    IF entry.name # Nothing THEN entry.name
    ELSE IF entry.id \notin Machine \cup {Nothing} THEN entry.id ELSE PoolAt(i)

\* The position in a key of the form pool_n, and in one that ends in drive_n,
\* whatever comes before; 0 for none.
PoolIndex(key) == IF Len(key) = 2 /\ key[1] = "pool" THEN Value[key[2]] ELSE 0
DriveIndex(key) ==
    IF Len(key) > 1 /\ key[Len(key) - 1] = "drive" THEN Value[key[Len(key)]] ELSE 0

\* What the look-ups compare when nothing else is found.
TokensOf(slugs) == {Token[slug] : slug \in slugs \ {Nothing}}

\* The drives of a pool: those listed in it, or else those of the console
\* that refer to it by an identifier or by its name.
PoolDrives(payload, entry) ==
    IF entry.members # <<>> THEN entry.members
    ELSE SelectSeq(payload.disks,
                   LAMBDA d : d.home # Nothing /\ d.home \in {entry.id, entry.name})

\* Every <<key, thing>> a payload lists.
ListedPools(payload) ==
    {<<[kind |-> "pool", pool |-> PoolKey(payload.pools[i], i)], payload.pools[i].pool>> :
        i \in DOMAIN payload.pools}
ListedDrives(payload) ==
    UNION {LET key    == PoolKey(payload.pools[i], i)
               drives == PoolDrives(payload, payload.pools[i])
           IN  {<<[kind |-> "drive", pool |-> key, drive |-> DriveKey(drives[j], j)],
                  drives[j].drive>> : j \in DOMAIN drives} :
           i \in DOMAIN payload.pools}
ListedCache(payload) ==
    {<<[kind |-> "cache", drive |-> DriveKey(payload.cache[i], i)], payload.cache[i].drive>> :
        i \in DOMAIN payload.cache}
Listed(payload) ==
    IF payload = Nothing THEN {}
    ELSE ListedPools(payload) \cup ListedDrives(payload) \cup ListedCache(payload)

\* The entries of pools and of drives that any payload has.
PoolEntries == UNION {{payload.pools[i] : i \in DOMAIN payload.pools} : payload \in Payloads}
DrivesOf(payload, i) == PoolDrives(payload, payload.pools[i])
DriveEntries ==
    UNION {{payload.cache[i] : i \in DOMAIN payload.cache}
           \cup UNION {{DrivesOf(payload, i)[j] : j \in DOMAIN DrivesOf(payload, i)} :
                      i \in DOMAIN payload.pools} : payload \in Payloads}

ASSUME PayloadAssumption ==
    /\ IsFiniteSet(Things) /\ Nothing \notin Payloads /\ Nothing \notin Slugs
    /\ MaxAnswers \in Nat
    /\ \A payload \in Payloads :
          /\ DOMAIN payload.pools \subseteq Positions /\ DOMAIN payload.cache \subseteq Positions
          /\ \A i \in DOMAIN payload.pools : DOMAIN DrivesOf(payload, i) \subseteq Positions
    /\ \A entry \in PoolEntries :
          entry.pool \in Pools /\ {entry.id, entry.name} \subseteq Slugs \cup {Nothing}
    /\ \A entry \in DriveEntries :
          entry.drive \in Drives /\ {entry.id, entry.name} \subseteq Slugs \cup {Nothing}

\* A lasting identity is that of one pool or drive in all payloads, even when
\* only letters and digits are compared, and is not spelled like a position
\* either ("pool1").  Nothing is assumed of other identities: a slot that another
\* drive is put into, a name that moves.
ASSUME IdentityAssumption ==
    /\ Lasting \subseteq Slugs
    /\ \A slug \in Lasting, i \in Positions : Token[slug] \notin {Token[PoolAt(i)], Token[DriveAt(i)]}
    /\ \A slug \in Lasting, e, f \in PoolEntries :
          Token[slug] \in TokensOf({e.id, e.name}) \cap TokensOf({f.id, f.name}) => e.pool = f.pool
    /\ \A slug \in Lasting, e, f \in DriveEntries :
          Token[slug] \in TokensOf({e.id, e.name}) \cap TokensOf({f.id, f.name}) => e.drive = f.drive

\* No two drives of different pools have keys that make one string, such as
\* drive b_c of pool a and drive c of pool a_b.
ASSUME JoinAssumption ==
    LET keys == UNION {{x[1] : x \in ListedDrives(payload)} : payload \in Payloads}
    IN  \A k, l \in keys : k.pool \o k.drive = l.pool \o l.drive => k = l

\* No key stands for two of the things listed, nor for a pool listed twice with
\* different members.
Distinct(payload) ==
    LET pools == payload.pools
    IN  /\ \A x, y \in Listed(payload) : x[1] = y[1] => x = y
        /\ \A i, j \in DOMAIN pools :
              PoolKey(pools[i], i) = PoolKey(pools[j], j) => pools[i] = pools[j]

(***************************************************************************)
(* Looking up by key.                                                      *)
(***************************************************************************)

Least(positions) == CHOOSE i \in positions : \A j \in positions : i <= j
FirstOf(positions) == IF positions = {} THEN {} ELSE {Least(positions)}

\* Mutant: a positional key is taken for a legacy one before it is looked up.
PoolFromKeyLegacyFirst(payload, key) ==
    LET pools == payload.pools
        legacy == {i \in DOMAIN pools : PoolIndex(key) = i}
        exact  == {i \in DOMAIN pools : PoolKey(pools[i], i) = key}
    IN  IF legacy # {} THEN legacy ELSE FirstOf(exact)

\* The position of the pool with this key, as a set of at most one: the pool
\* that has it as its key; else, for pool_n, the n-th; else the first that has
\* an identity or a displayed name with the same letters and digits.
PoolFromKey(payload, key) ==
    LET pools  == payload.pools
        exact  == {i \in DOMAIN pools : PoolKey(pools[i], i) = key}
        legacy == {i \in DOMAIN pools : PoolIndex(key) = i}
        alike  == {i \in DOMAIN pools :
                      Token[key] \in TokensOf({pools[i].id, pools[i].name, PoolName(pools[i], i)}) \ {""}}
    IN  IF exact # {} THEN FirstOf(exact)
        ELSE IF legacy # {} THEN legacy ELSE FirstOf(alike)

\* Mutant: a drive that is not found is the first one.
DriveFromKeyOrFirst(drives, pool, key) ==
    LET exact == {i \in DOMAIN drives : DriveKey(drives[i], i) = key}
    IN  IF exact # {} THEN FirstOf(exact) ELSE FirstOf(DOMAIN drives)

\* The position of the drive with this key among those of its pool: the drive
\* that has it as its key; else, when the whole key with the pool's ends in
\* drive_n, the n-th; else the first whose key has the same letters and digits.
DriveFromKey(drives, pool, key) ==
    LET exact  == {i \in DOMAIN drives : DriveKey(drives[i], i) = key}
        legacy == {i \in DOMAIN drives : DriveIndex(pool \o key) = i}
        alike  == {i \in DOMAIN drives : Token[DriveKey(drives[i], i)] \in {Token[key]} \ {""}}
    IN  IF exact # {} THEN FirstOf(exact)
        ELSE IF legacy # {} THEN legacy ELSE FirstOf(alike)

CacheFromKey(drives, key) == FirstOf({i \in DOMAIN drives : DriveKey(drives[i], i) = key})

Only(things) == IF things = {} THEN Nothing ELSE CHOOSE t \in things : TRUE

\* `_resolve`: the pool or drive a sensor is about in this payload.
ResolvePool(payload, key) == {payload.pools[i].pool : i \in PoolFromKey(payload, key)}
ResolveDrive(payload, pool, key) ==
    UNION {LET drives == PoolDrives(payload, payload.pools[i])
           IN  {drives[j].drive : j \in DriveFromKey(drives, pool, key)} :
           i \in PoolFromKey(payload, pool)}
ResolveCache(payload, key) ==
    {payload.cache[i].drive : i \in CacheFromKey(payload.cache, key)}
Resolve(payload, k) ==
    Only(IF payload = Nothing THEN {}
         ELSE CASE k.kind = "pool"  -> ResolvePool(payload, k.pool)
                [] k.kind = "drive" -> ResolveDrive(payload, k.pool, k.drive)
                [] k.kind = "cache" -> ResolveCache(payload, k.drive))

(***************************************************************************)
(* Creating and updating sensors.                                          *)
(***************************************************************************)

NoSensors == [k \in {} |-> Nothing]

Init ==
    /\ data = Nothing
    /\ success = FALSE
    /\ known = {}
    /\ added = {}
    /\ cached = NoSensors
    /\ current = {}
    /\ shown = NoSensors
    /\ named = NoSensors
    /\ answers = 0

\* The keys for which the listeners have no sensor yet.
Missing(have, payload) == {x[1] : x \in Listed(payload)} \ have

\* `_add_missing_pool_sensors`, `_add_missing_cache_drive_sensors`.
AddsMissing(have, past, payload) ==
    LET new == Missing(have, payload)
    IN  /\ known' = have \cup new
        /\ named' = [k \in have \cup new |->
                        IF k \in have THEN past[k]
                        ELSE {x[2] : x \in {y \in Listed(payload) : y[1] = k}}]

\* Mutant: the answer is put into the old dictionary.
WritesStatesInPlace(sensors, fresh, payload) ==
    /\ cached' = [k \in sensors |-> IF k \in current THEN cached[k] ELSE Resolve(payload, k)]
    /\ current' = sensors
    /\ shown' = cached'

\* The listed sensors write their states: each looks itself up again unless it
\* has done so in this very object (`_resolved`).
WritesStates(sensors, fresh, payload) ==
    /\ cached' = [k \in sensors |-> IF k \in fresh THEN cached[k] ELSE Resolve(payload, k)]
    /\ current' = sensors
    /\ shown' = cached'

\* The coordinator publishes `payload`; `fresh` have looked up in this object.
Publishes(payload, fresh) ==
    /\ data' = payload
    /\ success' = TRUE
    /\ AddsMissing(known, named, payload)
    /\ WritesStates(added, fresh, payload)
    /\ added' = added

\* A poll is answered.
PollAnswers(payload) ==
    /\ answers < MaxAnswers
    /\ answers' = answers + 1
    /\ Publishes(payload, {})

\* The first missed poll returns the same object, and so does the startup
\* refresh, even after a poll that failed.
Republished ==
    /\ data # Nothing
    /\ Publishes(data, current)
    /\ UNCHANGED answers

\* Further missed polls return a copy that says the device is offline.
OfflineCopyPublished ==
    /\ data # Nothing
    /\ Publishes(data, {})
    /\ UNCHANGED answers

\* UpdateFailed or ConfigEntryAuthFailed: sensors become unavailable and look
\* nothing up.
PollFails ==
    /\ success
    /\ success' = FALSE
    /\ shown' = [k \in added |-> Nothing]
    /\ UNCHANGED <<data, known, added, cached, current, named, answers>>

\* The sensors created last are added and write their first state, perhaps
\* after another publication.
SensorsAdded ==
    /\ added # known
    /\ added' = known
    /\ LET new == known \ added
       IN  /\ cached' = [k \in known |-> IF k \in added THEN cached[k]
                                         ELSE IF success THEN Resolve(data, k) ELSE Nothing]
           /\ current' = IF success THEN current \cup new ELSE current
           /\ shown' = [k \in known |-> IF k \in added THEN shown[k]
                                        ELSE IF success THEN Resolve(data, k) ELSE Nothing]
    /\ UNCHANGED <<data, success, known, named, answers>>

\* The entry is loaded (again): its first refresh was answered, or was not and
\* set-up goes on for Wake-on-LAN, and the platform looks for what is there.
Loads(payload) ==
    /\ data' = payload
    /\ success' = (payload # Nothing)
    /\ AddsMissing({}, NoSensors, payload)
    /\ added' = {}
    /\ cached' = NoSensors
    /\ current' = {}
    /\ shown' = NoSensors
    /\ answers' = 0

Next ==
    \/ \E payload \in Payloads : PollAnswers(payload)
    \/ Republished
    \/ OfflineCopyPublished
    \/ PollFails
    \/ SensorsAdded
    \/ \E payload \in Payloads \cup {Nothing} : Loads(payload)

Spec == Init /\ [][Next]_vars

(***************************************************************************)
(* Properties.                                                             *)
(***************************************************************************)

\* A key made of lasting identities that does not end like a position.
Identified(k) ==
    /\ k.kind # "cache" => k.pool \in Lasting
    /\ k.kind # "pool" => k.drive \in Lasting
    /\ k.kind = "pool" => PoolIndex(k.pool) = 0
    /\ k.kind = "drive" => DriveIndex(k.pool \o k.drive) = 0

\* Whatever payloads came since, in whatever order and with whatever identities
\* the firmware reports by now, a sensor whose key is a lasting identity shows
\* what that key named when the sensor was created, or is unavailable
\* (entities.py:278-285 and 344-392, pools.py:360-424).
OwnDataOnly ==
    \A k \in added : Identified(k) => shown[k] \in named[k] \cup {Nothing}

\* No pool or drive stays without a sensor of its own, also one that appears in
\* a pool known before or under a key that an earlier position had
\* (entities.py:75-146).
ListedIsShown ==
    success /\ Distinct(data) =>
        \A x \in Listed(data) :
            /\ x[1] \in known
            /\ x[1] \in added => shown[x[1]] = x[2]

\* The look-up kept from the last object never outlives it: what is shown is
\* what a look-up in the coordinator's data gives (entity_base.py:41-50).
ShownIsCurrent ==
    \A k \in added : shown[k] = IF success THEN Resolve(data, k) ELSE Nothing
=============================================================================
