------------------------- MODULE StorageEntitiesProofs -------------------------
(***************************************************************************)
(* Proofs about StorageEntities, for any payloads: a sensor whose key is a *)
(* lasting identity shows what its key named when it was created, no       *)
(* sensor shows a look-up that has gone stale, and everything listed under *)
(* a key of its own has its sensor.                                        *)
(***************************************************************************)
EXTENDS StorageEntities, FiniteSetTheorems, WellFoundedInduction, TLAPS

\* What a key that is a lasting identity names, whatever the payload.
Belongs(k, thing) ==
    IF k.kind = "pool"
      THEN \E e \in PoolEntries : Token[k.pool] \in TokensOf({e.id, e.name}) /\ thing = e.pool
      ELSE \E e \in DriveEntries : Token[k.drive] \in TokensOf({e.id, e.name}) /\ thing = e.drive

LookUpsAreFresh == \A k \in current : cached[k] = Resolve(data, k)

NamesInv ==
    \A k \in known : Identified(k) => named[k] # {} /\ \A thing \in named[k] : Belongs(k, thing)

Inv == TypeOK /\ LookUpsAreFresh /\ NamesInv /\ ShownIsCurrent

(***************************************************************************)
(* Entries, positions and keys.                                            *)
(***************************************************************************)

LEMMA Entries ==
    ASSUME NEW payload \in Payloads
    PROVE  /\ \A i \in DOMAIN payload.pools : i \in Positions /\ payload.pools[i] \in PoolEntries
           /\ \A i \in DOMAIN payload.cache : i \in Positions /\ payload.cache[i] \in DriveEntries
           /\ \A i \in DOMAIN payload.pools : \A j \in DOMAIN DrivesOf(payload, i) :
                 j \in Positions /\ DrivesOf(payload, i)[j] \in DriveEntries
<1>1. \A i \in DOMAIN payload.pools : payload.pools[i] \in PoolEntries
  BY DEF PoolEntries
<1>2. \A i \in DOMAIN payload.cache : payload.cache[i] \in DriveEntries
  BY DEF DriveEntries
<1>3. \A i \in DOMAIN payload.pools : \A j \in DOMAIN DrivesOf(payload, i) :
         DrivesOf(payload, i)[j] \in DriveEntries
  BY DEF DriveEntries
<1>4. /\ DOMAIN payload.pools \subseteq Positions /\ DOMAIN payload.cache \subseteq Positions
      /\ \A i \in DOMAIN payload.pools : DOMAIN DrivesOf(payload, i) \subseteq Positions
  BY PayloadAssumption
<1> QED BY <1>1, <1>2, <1>3, <1>4

LEMMA PositionsAreNumbers == Positions \subseteq Nat
<1>1. Cardinality(Things) \in Nat
  BY PayloadAssumption, FS_CardinalityType
<1> QED BY <1>1 DEF Positions

LEMMA FirstIn ==
    ASSUME NEW positions, positions \subseteq Positions
    PROVE  FirstOf(positions) \subseteq positions
<1>1. CASE positions = {}
  BY <1>1 DEF FirstOf
<1>2. CASE positions # {}
  <2>1. positions \subseteq Nat
    BY PositionsAreNumbers
  <2>. DEFINE Less == {ss \in Nat \X Nat : ss[1] < ss[2]}
  <2>2. IsWellFoundedOn(Less, Nat)
    BY NatLessThanWellFounded DEF OpToRel
  <2>3. \E i \in positions : \A j \in positions : i <= j
    <3>. HIDE DEF Less
    <3>1. \E i \in positions : \A j \in positions : ~ (<<j, i>> \in Less)
      BY <1>2, <2>1, <2>2, WFMin
    <3>2. \A i, j \in Nat : ~ (<<j, i>> \in Less) => i <= j
      BY DEF Less
    <3> QED BY <2>1, <3>1, <3>2
  <2>4. Least(positions) \in positions
    BY <2>3 DEF Least
  <2> QED BY <1>2, <2>4 DEF FirstOf
<1> QED BY <1>1, <1>2

LEMMA EntryTypes ==
    /\ \A e \in PoolEntries : e.pool \in Pools /\ {e.id, e.name} \subseteq Slugs \cup {Nothing}
    /\ \A e \in DriveEntries : e.drive \in Drives /\ {e.id, e.name} \subseteq Slugs \cup {Nothing}
BY PayloadAssumption

\* A key made of an entry; if its letters and digits are those of a lasting
\* identity, the entry has an identity with them.
LEMMA PoolKeyType ==
    ASSUME NEW e \in PoolEntries, NEW i \in Positions
    PROVE  /\ PoolKey(e, i) \in PoolKeys
           /\ \A slug \in Lasting : Token[slug] = Token[PoolKey(e, i)] =>
                 Token[slug] \in TokensOf({e.id, e.name})
<1>1. PoolKey(e, i) \in ({e.id, e.name} \ {Nothing}) \cup {PoolAt(i)}
  BY DEF PoolKey
<1>2. PoolKey(e, i) \in PoolKeys
  BY <1>1, EntryTypes DEF PoolKeys
<1>3. \A slug \in Lasting : Token[slug] # Token[PoolAt(i)]
  BY IdentityAssumption
<1> QED BY <1>1, <1>2, <1>3 DEF TokensOf

LEMMA DriveKeyType ==
    ASSUME NEW e \in DriveEntries, NEW i \in Positions
    PROVE  /\ DriveKey(e, i) \in DriveKeys
           /\ \A slug \in Lasting : Token[slug] = Token[DriveKey(e, i)] =>
                 Token[slug] \in TokensOf({e.id, e.name})
<1>1. DriveKey(e, i) \in ({e.id, e.name} \ {Nothing}) \cup {DriveAt(i)}
  BY DEF DriveKey
<1>2. DriveKey(e, i) \in DriveKeys
  BY <1>1, EntryTypes DEF DriveKeys
<1>3. \A slug \in Lasting : Token[slug] # Token[DriveAt(i)]
  BY IdentityAssumption
<1> QED BY <1>1, <1>2, <1>3 DEF TokensOf

\* The name a pool is displayed with adds only that of its position.
LEMMA PoolNameType ==
    ASSUME NEW e \in PoolEntries, NEW i \in Positions, NEW slug \in Lasting,
           Token[slug] \in TokensOf({e.id, e.name, PoolName(e, i)})
    PROVE  Token[slug] \in TokensOf({e.id, e.name})
<1>1. PoolName(e, i) \in {e.id, e.name} \cup {PoolAt(i)}
  BY DEF PoolName
<1>2. Token[slug] # Token[PoolAt(i)]
  BY IdentityAssumption
<1> QED BY <1>1, <1>2 DEF TokensOf

LEMMA OneOwner ==
    ASSUME NEW k \in Keys, Identified(k), NEW a, NEW b, Belongs(k, a), Belongs(k, b)
    PROVE  a = b
<1>1. CASE k.kind = "pool"
  <2>1. k.pool \in Lasting
    BY <1>1 DEF Identified
  <2> QED BY <1>1, <2>1, IdentityAssumption DEF Belongs
<1>2. CASE k.kind # "pool"
  <2>1. k.drive \in Lasting
    BY <1>2 DEF Identified, Keys
  <2> QED BY <1>2, <2>1, IdentityAssumption DEF Belongs
<1> QED BY <1>1, <1>2

(***************************************************************************)
(* What is listed, and what a look-up finds.                               *)
(***************************************************************************)

\* Whatever a payload lists has a key, and is what the key names.
LEMMA ListedTypes ==
    ASSUME NEW payload \in Payloads \cup {Nothing}, NEW x \in Listed(payload)
    PROVE  /\ x[1] \in Keys /\ x[2] \in Things
           /\ Identified(x[1]) => Belongs(x[1], x[2])
<1>1. payload \in Payloads
  BY DEF Listed
<1>2. CASE x \in ListedPools(payload)
  <2>1. PICK i \in DOMAIN payload.pools :
           x = <<[kind |-> "pool", pool |-> PoolKey(payload.pools[i], i)], payload.pools[i].pool>>
    BY <1>2 DEF ListedPools
  <2>2. payload.pools[i] \in PoolEntries /\ i \in Positions
    BY <1>1, Entries
  <2>3. PoolKey(payload.pools[i], i) \in PoolKeys /\ payload.pools[i].pool \in Pools
    BY <2>2, PoolKeyType, EntryTypes
  <2>4. x[1] \in Keys /\ x[2] \in Things
    BY <2>1, <2>3 DEF Keys, Things
  <2>5. Identified(x[1]) => Belongs(x[1], x[2])
    BY <2>1, <2>2, PoolKeyType DEF Identified, Belongs
  <2> QED BY <2>4, <2>5
<1>3. CASE x \in ListedDrives(payload)
  <2>1. PICK i \in DOMAIN payload.pools : \E j \in DOMAIN DrivesOf(payload, i) :
           x = <<[kind |-> "drive", pool |-> PoolKey(payload.pools[i], i),
                  drive |-> DriveKey(DrivesOf(payload, i)[j], j)],
                 DrivesOf(payload, i)[j].drive>>
    BY <1>3 DEF ListedDrives, DrivesOf
  <2>2. PICK j \in DOMAIN DrivesOf(payload, i) :
           x = <<[kind |-> "drive", pool |-> PoolKey(payload.pools[i], i),
                  drive |-> DriveKey(DrivesOf(payload, i)[j], j)],
                 DrivesOf(payload, i)[j].drive>>
    BY <2>1
  <2>3. /\ payload.pools[i] \in PoolEntries /\ i \in Positions
        /\ DrivesOf(payload, i)[j] \in DriveEntries /\ j \in Positions
    BY <1>1, Entries
  <2>. DEFINE e == DrivesOf(payload, i)[j]
  <2>4. /\ PoolKey(payload.pools[i], i) \in PoolKeys
        /\ DriveKey(e, j) \in DriveKeys /\ e.drive \in Drives
    BY <2>3, PoolKeyType, DriveKeyType, EntryTypes
  <2>. HIDE DEF e
  <2>5. x = <<[kind |-> "drive", pool |-> PoolKey(payload.pools[i], i), drive |-> DriveKey(e, j)],
              e.drive>>
    BY <2>2 DEF e
  <2>6. x[1] \in Keys /\ x[2] \in Things
    BY <2>4, <2>5 DEF Keys, Things
  <2>7. e \in DriveEntries
    BY <2>3 DEF e
  <2>8. Identified(x[1]) => Belongs(x[1], x[2])
    BY <2>3, <2>5, <2>7, DriveKeyType DEF Identified, Belongs
  <2> QED BY <2>6, <2>8
<1>4. CASE x \in ListedCache(payload)
  <2>1. PICK i \in DOMAIN payload.cache :
           x = <<[kind |-> "cache", drive |-> DriveKey(payload.cache[i], i)], payload.cache[i].drive>>
    BY <1>4 DEF ListedCache
  <2>2. payload.cache[i] \in DriveEntries /\ i \in Positions
    BY <1>1, Entries
  <2>3. DriveKey(payload.cache[i], i) \in DriveKeys /\ payload.cache[i].drive \in Drives
    BY <2>2, DriveKeyType, EntryTypes
  <2>4. x[1] \in Keys /\ x[2] \in Things
    BY <2>1, <2>3 DEF Keys, Things
  <2>5. Identified(x[1]) => Belongs(x[1], x[2])
    BY <2>1, <2>2, DriveKeyType DEF Identified, Belongs
  <2> QED BY <2>4, <2>5
<1> QED BY <1>2, <1>3, <1>4 DEF Listed

LEMMA PoolFound ==
    ASSUME NEW payload \in Payloads, NEW key, NEW i \in PoolFromKey(payload, key)
    PROVE  /\ i \in DOMAIN payload.pools
           /\ key \in Lasting /\ PoolIndex(key) = 0 =>
                 Token[key] \in TokensOf({payload.pools[i].id, payload.pools[i].name})
<1>. DEFINE pools == payload.pools
            exact == {j \in DOMAIN pools : PoolKey(pools[j], j) = key}
            legacy == {j \in DOMAIN pools : PoolIndex(key) = j}
            alike == {j \in DOMAIN pools :
                        Token[key] \in TokensOf({pools[j].id, pools[j].name, PoolName(pools[j], j)})
                                       \ {""}}
<1>1. exact \subseteq Positions /\ alike \subseteq Positions
  BY Entries
<1>2. i \in exact \/ i \in legacy \/ i \in alike
  <2>1. FirstOf(exact) \subseteq exact /\ FirstOf(alike) \subseteq alike
    BY <1>1, FirstIn
  <2>2. i \in IF exact # {} THEN FirstOf(exact) ELSE IF legacy # {} THEN legacy ELSE FirstOf(alike)
    BY DEF PoolFromKey
  <2>. HIDE DEF exact, legacy, alike
  <2> QED BY <2>1, <2>2
<1>3. i \in DOMAIN payload.pools
  BY <1>2
<1>4. pools[i] \in PoolEntries /\ i \in Positions
  BY <1>3, Entries
<1>5. i \in legacy => PoolIndex(key) # 0
  BY <1>4 DEF Positions
<1>6. i \in exact /\ key \in Lasting => Token[key] \in TokensOf({pools[i].id, pools[i].name})
  BY <1>4, PoolKeyType
<1>7. i \in alike /\ key \in Lasting => Token[key] \in TokensOf({pools[i].id, pools[i].name})
  BY <1>4, PoolNameType
<1> QED BY <1>2, <1>3, <1>5, <1>6, <1>7

LEMMA DriveFound ==
    ASSUME NEW drives, \A j \in DOMAIN drives : j \in Positions /\ drives[j] \in DriveEntries,
           NEW pool, NEW key, NEW i \in DriveFromKey(drives, pool, key) \cup CacheFromKey(drives, key)
    PROVE  /\ i \in DOMAIN drives
           /\ key \in Lasting /\ (DriveIndex(pool \o key) = 0 \/ i \in CacheFromKey(drives, key)) =>
                 Token[key] \in TokensOf({drives[i].id, drives[i].name})
<1>. DEFINE exact == {j \in DOMAIN drives : DriveKey(drives[j], j) = key}
            legacy == {j \in DOMAIN drives : DriveIndex(pool \o key) = j}
            alike == {j \in DOMAIN drives : Token[DriveKey(drives[j], j)] \in {Token[key]} \ {""}}
<1>1. exact \subseteq Positions /\ alike \subseteq Positions
  OBVIOUS
<1>2. CacheFromKey(drives, key) \subseteq exact
  BY <1>1, FirstIn DEF CacheFromKey
<1>3. i \in exact \/ (i \in legacy /\ i \notin CacheFromKey(drives, key)) \/ i \in alike
  <2>1. FirstOf(exact) \subseteq exact /\ FirstOf(alike) \subseteq alike
    BY <1>1, FirstIn
  <2>2. DriveFromKey(drives, pool, key)
           = IF exact # {} THEN FirstOf(exact) ELSE IF legacy # {} THEN legacy ELSE FirstOf(alike)
    BY DEF DriveFromKey
  <2>. HIDE DEF exact, legacy, alike
  <2> QED BY <1>2, <2>1, <2>2
<1>4. i \in DOMAIN drives
  BY <1>3
<1>5. drives[i] \in DriveEntries /\ i \in Positions
  BY <1>4
<1>6. i \in legacy => DriveIndex(pool \o key) # 0
  BY <1>5 DEF Positions
<1>7. i \in exact \/ i \in alike => Token[DriveKey(drives[i], i)] = Token[key]
  OBVIOUS
<1>8. key \in Lasting /\ Token[DriveKey(drives[i], i)] = Token[key] =>
         Token[key] \in TokensOf({drives[i].id, drives[i].name})
  BY <1>5, DriveKeyType
<1> QED BY <1>3, <1>4, <1>6, <1>7, <1>8

\* A look-up finds a pool or drive, and under an identity the one it names.
LEMMA ResolveTypes ==
    ASSUME NEW payload \in Payloads \cup {Nothing}, NEW k \in Keys
    PROVE  /\ Resolve(payload, k) \in Things \cup {Nothing}
           /\ Identified(k) =>
                 Resolve(payload, k) = Nothing \/ Belongs(k, Resolve(payload, k))
<1>. DEFINE found == IF payload = Nothing THEN {}
                     ELSE CASE k.kind = "pool"  -> ResolvePool(payload, k.pool)
                            [] k.kind = "drive" -> ResolveDrive(payload, k.pool, k.drive)
                            [] k.kind = "cache" -> ResolveCache(payload, k.drive)
<1>1. ASSUME NEW thing \in found
      PROVE  thing \in Things /\ (Identified(k) => Belongs(k, thing))
  <2>1. payload \in Payloads
    BY <1>1
  <2>2. CASE k.kind = "pool"
    <3>1. Identified(k) => k.pool \in Lasting /\ PoolIndex(k.pool) = 0
      BY <2>2 DEF Identified
    <3>2. PICK i \in PoolFromKey(payload, k.pool) : thing = payload.pools[i].pool
      BY <1>1, <2>1, <2>2, PayloadAssumption DEF ResolvePool
    <3>3. /\ i \in DOMAIN payload.pools
          /\ k.pool \in Lasting /\ PoolIndex(k.pool) = 0 =>
                Token[k.pool] \in TokensOf({payload.pools[i].id, payload.pools[i].name})
      BY <2>1, <3>2, PoolFound
    <3>4. payload.pools[i] \in PoolEntries
      BY <2>1, <3>3, Entries
    <3>5. thing \in Things
      BY <3>2, <3>4, EntryTypes DEF Things
    <3> QED BY <2>2, <3>1, <3>2, <3>3, <3>4, <3>5 DEF Belongs
  <2>3. CASE k.kind = "drive"
    <3>1. Identified(k) => k.drive \in Lasting /\ DriveIndex(k.pool \o k.drive) = 0
      BY <2>3 DEF Identified
    <3>2. PICK i \in PoolFromKey(payload, k.pool) :
             \E j \in DriveFromKey(DrivesOf(payload, i), k.pool, k.drive) :
                thing = DrivesOf(payload, i)[j].drive
      BY <1>1, <2>1, <2>3, PayloadAssumption DEF ResolveDrive, DrivesOf
    <3>3. PICK j \in DriveFromKey(DrivesOf(payload, i), k.pool, k.drive) :
             thing = DrivesOf(payload, i)[j].drive
      BY <3>2
    <3>4. i \in DOMAIN payload.pools
      BY <2>1, PoolFound
    <3>5. \A n \in DOMAIN DrivesOf(payload, i) :
             n \in Positions /\ DrivesOf(payload, i)[n] \in DriveEntries
      BY <2>1, <3>4, Entries
    <3>. DEFINE drives == DrivesOf(payload, i)
    <3>. HIDE DEF drives
    <3>6. \A n \in DOMAIN drives : n \in Positions /\ drives[n] \in DriveEntries
      BY <3>5 DEF drives
    <3>7. j \in DriveFromKey(drives, k.pool, k.drive) /\ thing = drives[j].drive
      BY <3>3 DEF drives
    <3>8. /\ j \in DOMAIN drives
          /\ k.drive \in Lasting /\ DriveIndex(k.pool \o k.drive) = 0 =>
                Token[k.drive] \in TokensOf({drives[j].id, drives[j].name})
      BY <3>6, <3>7, DriveFound
    <3>9. thing \in Things
      BY <3>6, <3>7, <3>8, EntryTypes DEF Things
    <3> QED BY <2>3, <3>1, <3>6, <3>7, <3>8, <3>9 DEF Belongs
  <2>4. CASE k.kind = "cache"
    <3>1. Identified(k) => k.drive \in Lasting
      BY <2>4 DEF Identified
    <3>2. PICK i \in CacheFromKey(payload.cache, k.drive) : thing = payload.cache[i].drive
      BY <1>1, <2>1, <2>4, PayloadAssumption DEF ResolveCache
    <3>3. \A n \in DOMAIN payload.cache : n \in Positions /\ payload.cache[n] \in DriveEntries
      BY <2>1, Entries
    <3>4. /\ i \in DOMAIN payload.cache
          /\ k.drive \in Lasting =>
                Token[k.drive] \in TokensOf({payload.cache[i].id, payload.cache[i].name})
      BY <3>2, <3>3, DriveFound
    <3>5. thing \in Things
      BY <3>2, <3>3, <3>4, EntryTypes DEF Things
    <3> QED BY <2>4, <3>1, <3>2, <3>3, <3>4, <3>5 DEF Belongs
  <2> QED BY <2>2, <2>3, <2>4 DEF Keys
<1>2. Resolve(payload, k) = Only(found)
  BY Zenon DEF Resolve
<1>. HIDE DEF found
<1>3. Only(found) = Nothing \/ Only(found) \in found
  BY DEF Only
<1> QED BY <1>1, <1>2, <1>3

(***************************************************************************)
(* Steps.                                                                  *)
(***************************************************************************)

LEMMA DataType == TypeOK => data \in Payloads \cup {Nothing}
BY DEF TypeOK

\* What `past` says of the keys in `have`.
Kept(have, past) ==
    \A k \in have : /\ past[k] \subseteq Things
                    /\ Identified(k) => past[k] # {} /\ \A thing \in past[k] : Belongs(k, thing)

\* New keys name what they are listed with.
LEMMA AddsMissingKeepsNames ==
    ASSUME NEW have \in SUBSET Keys, NEW past, NEW payload \in Payloads \cup {Nothing},
           AddsMissing(have, past, payload), Kept(have, past)
    PROVE  /\ known' \subseteq Keys /\ have \subseteq known'
           /\ DOMAIN named' = known' /\ \A k \in known' : named'[k] \subseteq Things
           /\ NamesInv'
<1>. DEFINE new == Missing(have, payload)
            names(k) == {x[2] : x \in {y \in Listed(payload) : y[1] = k}}
<1>1. /\ known' = have \cup new
      /\ named' = [k \in have \cup new |-> IF k \in have THEN past[k] ELSE names(k)]
  BY DEF AddsMissing
<1>2. \A k \in new : \E x \in Listed(payload) : x[1] = k
  BY DEF Missing
<1>3. ASSUME NEW k \in new
      PROVE  /\ k \in Keys /\ names(k) \subseteq Things
             /\ Identified(k) => names(k) # {} /\ \A thing \in names(k) : Belongs(k, thing)
  <2>1. PICK x \in Listed(payload) : x[1] = k
    BY <1>2
  <2>2. \A y \in Listed(payload) : y[1] = k =>
           k \in Keys /\ y[2] \in Things /\ (Identified(k) => Belongs(k, y[2]))
    BY ListedTypes
  <2>3. names(k) # {}
    BY <2>1
  <2> QED BY <2>1, <2>2, <2>3
<1>. HIDE DEF new, names
<1>4. \A k \in known' : named'[k] = IF k \in have THEN past[k] ELSE names(k)
  BY <1>1
<1>5. known' \subseteq Keys /\ have \subseteq known' /\ DOMAIN named' = known'
  BY <1>1, <1>3
<1>6. \A k \in known' : named'[k] \subseteq Things
  BY <1>1, <1>3, <1>4 DEF Kept
<1>7. \A k \in known' : Identified(k) =>
         named'[k] # {} /\ \A thing \in named'[k] : Belongs(k, thing)
  BY <1>1, <1>3, <1>4 DEF Kept
<1>8. NamesInv'
  BY <1>7 DEF NamesInv
<1> QED BY <1>5, <1>6, <1>8

LEMMA PublishStep ==
    ASSUME Inv, NEW payload \in Payloads, NEW fresh,
           fresh = {} \/ (fresh = current /\ payload = data),
           Publishes(payload, fresh), answers' \in 0 .. MaxAnswers
    PROVE  Inv'
<1>1. /\ data' = payload /\ success' = TRUE /\ added' = added /\ current' = added
      /\ cached' = [k \in added |-> IF k \in fresh THEN cached[k] ELSE Resolve(payload, k)]
      /\ shown' = cached'
  BY DEF Publishes, WritesStates
<1>2. /\ known' \subseteq Keys /\ known \subseteq known'
      /\ DOMAIN named' = known' /\ \A k \in known' : named'[k] \subseteq Things
      /\ NamesInv'
  <2>1. known \in SUBSET Keys /\ Kept(known, named)
    BY DEF Inv, TypeOK, NamesInv, Kept
  <2>2. AddsMissing(known, named, payload)
    BY DEF Publishes
  <2> QED BY <2>1, <2>2, AddsMissingKeepsNames
<1>3. added \subseteq known /\ added \subseteq Keys
  BY DEF Inv, TypeOK
<1>4. \A k \in added : cached'[k] = Resolve(payload, k)
  BY <1>1 DEF Inv, LookUpsAreFresh
<1>5. \A k \in added : Resolve(payload, k) \in Things \cup {Nothing}
  BY <1>3, ResolveTypes
<1>6. DOMAIN cached' = added
  BY <1>1
<1>7. TypeOK'
  BY <1>1, <1>2, <1>3, <1>4, <1>5, <1>6 DEF TypeOK
<1>8. LookUpsAreFresh' /\ ShownIsCurrent'
  BY <1>1, <1>4 DEF LookUpsAreFresh, ShownIsCurrent
<1> QED BY <1>2, <1>7, <1>8 DEF Inv

LEMMA SensorsAddedStep ==
    ASSUME Inv, SensorsAdded
    PROVE  Inv'
<1>. DEFINE new == known \ added
<1>1. /\ added' = known
      /\ cached' = [k \in known |-> IF k \in added THEN cached[k]
                                    ELSE IF success THEN Resolve(data, k) ELSE Nothing]
      /\ current' = IF success THEN current \cup new ELSE current
      /\ shown' = [k \in known |-> IF k \in added THEN shown[k]
                                   ELSE IF success THEN Resolve(data, k) ELSE Nothing]
      /\ UNCHANGED <<data, success, known, named, answers>>
  BY DEF SensorsAdded
<1>2. \A k \in known : Resolve(data, k) \in Things \cup {Nothing}
  BY DataType, ResolveTypes DEF Inv, TypeOK
<1>3. /\ DOMAIN cached' = known /\ \A k \in known : cached'[k] \in Things \cup {Nothing}
      /\ DOMAIN shown' = known /\ \A k \in known : shown'[k] \in Things \cup {Nothing}
  BY <1>1, <1>2 DEF Inv, TypeOK
<1>4. TypeOK'
  BY <1>1, <1>3 DEF Inv, TypeOK
<1>5. LookUpsAreFresh'
  BY <1>1 DEF Inv, LookUpsAreFresh, TypeOK
<1>6. ShownIsCurrent'
  BY <1>1 DEF Inv, ShownIsCurrent
<1>7. NamesInv'
  BY <1>1 DEF Inv, NamesInv
<1> QED BY <1>4, <1>5, <1>6, <1>7 DEF Inv

LEMMA LoadStep ==
    ASSUME NEW payload \in Payloads \cup {Nothing}, Loads(payload)
    PROVE  Inv'
<1>1. /\ known' \subseteq Keys
      /\ DOMAIN named' = known' /\ \A k \in known' : named'[k] \subseteq Things
      /\ NamesInv'
  <2>1. AddsMissing({}, NoSensors, payload)
    BY DEF Loads
  <2>2. {} \in SUBSET Keys /\ Kept({}, NoSensors)
    BY DEF Kept
  <2> QED BY <2>1, <2>2, AddsMissingKeepsNames
<1>2. DOMAIN cached' = {} /\ DOMAIN shown' = {}
  BY DEF Loads, NoSensors
<1>3. answers' \in 0 .. MaxAnswers
  BY PayloadAssumption DEF Loads
<1>4. success' \in BOOLEAN /\ data' \in Payloads \cup {Nothing}
  BY DEF Loads
<1>5. TypeOK'
  BY <1>1, <1>2, <1>3, <1>4 DEF Loads, TypeOK
<1> QED BY <1>1, <1>5 DEF Loads, Inv, LookUpsAreFresh, ShownIsCurrent

LEMMA InvInitial == Init => Inv
<1>1. 0 \in 0 .. MaxAnswers
  BY PayloadAssumption
<1>2. Init => DOMAIN cached = {} /\ DOMAIN shown = {} /\ DOMAIN named = {}
  BY DEF Init, NoSensors
<1> QED BY <1>1, <1>2 DEF Init, Inv, TypeOK, LookUpsAreFresh, NamesInv, ShownIsCurrent

LEMMA InvStep == Inv /\ [Next]_vars => Inv'
<1>. SUFFICES ASSUME Inv, [Next]_vars PROVE Inv'
  OBVIOUS
<1>0. data \in Payloads \cup {Nothing} /\ answers \in 0 .. MaxAnswers /\ MaxAnswers \in Nat
  BY PayloadAssumption DEF Inv, TypeOK
<1>1. ASSUME NEW payload \in Payloads, PollAnswers(payload) PROVE Inv'
  <2>1. answers' \in 0 .. MaxAnswers
    BY <1>0, <1>1 DEF PollAnswers
  <2> QED BY <1>1, <2>1, PublishStep DEF PollAnswers
<1>2. CASE Republished
  BY <1>0, <1>2, PublishStep DEF Republished
<1>3. CASE OfflineCopyPublished
  BY <1>0, <1>3, PublishStep DEF OfflineCopyPublished
<1>4. CASE PollFails
  <2>1. /\ success' = FALSE /\ shown' = [k \in added |-> Nothing]
        /\ UNCHANGED <<data, known, added, cached, current, named, answers>>
    BY <1>4 DEF PollFails
  <2>2. TypeOK'
    BY <2>1 DEF Inv, TypeOK
  <2> QED BY <2>1, <2>2 DEF Inv, LookUpsAreFresh, NamesInv, ShownIsCurrent
<1>5. CASE SensorsAdded
  BY <1>5, SensorsAddedStep
<1>6. ASSUME NEW payload \in Payloads \cup {Nothing}, Loads(payload) PROVE Inv'
  BY <1>6, LoadStep
<1>7. CASE UNCHANGED vars
  BY <1>7 DEF vars, Inv, TypeOK, LookUpsAreFresh, NamesInv, ShownIsCurrent
<1> QED BY <1>1, <1>2, <1>3, <1>4, <1>5, <1>6, <1>7 DEF Next

(***************************************************************************)
(* Theorems.                                                               *)
(***************************************************************************)

\* The inductive invariant: types, look-ups kept from the object that is
\* published, and keys that are identities naming one thing
\* (entity_base.py:38-64, entities.py:57-392).
THEOREM InvHolds == Spec => []Inv
BY InvInitial, InvStep, PTL DEF Spec

\* A key made from any payload is a key, and what is looked up and shown is a
\* pool, a drive or nothing (pools.py:277-396, drives.py:162-335).
THEOREM TypeCorrect == Spec => []TypeOK
<1>1. Inv => TypeOK
  BY DEF Inv
<1> QED BY <1>1, InvHolds, PTL

\* The look-up a sensor keeps never outlives the object it was made in: what
\* is shown is what a look-up in the published data gives
\* (entity_base.py:41-50).
THEOREM ShownCurrent == Spec => []ShownIsCurrent
<1>1. Inv => ShownIsCurrent
  BY DEF Inv
<1> QED BY <1>1, InvHolds, PTL

\* Reordered lists, other identities and vanished things never make a sensor
\* show another pool or drive when its key is a lasting identity that neither
\* reads nor ends like a position (entities.py:278-285, 344-392,
\* pools.py:360-424).
THEOREM OwnData == Spec => []OwnDataOnly
<1>1. ASSUME Inv, NEW k \in added, Identified(k)
      PROVE  shown[k] \in named[k] \cup {Nothing}
  <2>1. k \in known /\ k \in Keys /\ data \in Payloads \cup {Nothing}
    BY <1>1 DEF Inv, TypeOK
  <2>2. named[k] # {} /\ \A thing \in named[k] : Belongs(k, thing)
    BY <1>1, <2>1 DEF Inv, NamesInv
  <2>3. shown[k] = Nothing \/ shown[k] = Resolve(data, k)
    BY <1>1 DEF Inv, ShownIsCurrent
  <2>4. Resolve(data, k) = Nothing \/ Belongs(k, Resolve(data, k))
    BY <1>1, <2>1, ResolveTypes
  <2>5. Belongs(k, Resolve(data, k)) => Resolve(data, k) \in named[k]
    BY <1>1, <2>1, <2>2, OneOwner
  <2> QED BY <2>3, <2>4, <2>5
<1>2. Inv => OwnDataOnly
  BY <1>1 DEF OwnDataOnly
<1> QED BY <1>2, InvHolds, PTL

(***************************************************************************)
(* What is listed has its sensor.                                          *)
(***************************************************************************)

LEMMA FirstOfSome ==
    ASSUME NEW positions, positions \subseteq Positions, positions # {}
    PROVE  \E p \in positions : FirstOf(positions) = {p}
<1>1. FirstOf(positions) = {Least(positions)}
  BY DEF FirstOf
<1>2. FirstOf(positions) \subseteq positions
  BY FirstIn
<1> QED BY <1>1, <1>2

LEMMA OnlyOne == ASSUME NEW thing PROVE Only({thing}) = thing
BY DEF Only

\* The pool at a position is found under its own key, or one with that key.
LEMMA PoolFoundAgain ==
    ASSUME NEW payload \in Payloads, NEW i \in DOMAIN payload.pools
    PROVE  \E p \in DOMAIN payload.pools :
              /\ PoolFromKey(payload, PoolKey(payload.pools[i], i)) = {p}
              /\ PoolKey(payload.pools[p], p) = PoolKey(payload.pools[i], i)
<1>. DEFINE pools == payload.pools
            key == PoolKey(pools[i], i)
            exact == {j \in DOMAIN pools : PoolKey(pools[j], j) = key}
            legacy == {j \in DOMAIN pools : PoolIndex(key) = j}
            alike == {j \in DOMAIN pools :
                        Token[key] \in TokensOf({pools[j].id, pools[j].name, PoolName(pools[j], j)})
                                       \ {""}}
<1>1. exact \subseteq Positions /\ i \in exact
  BY Entries
<1>2. PICK p \in exact : FirstOf(exact) = {p}
  BY <1>1, FirstOfSome
<1>3. PoolFromKey(payload, key)
         = IF exact # {} THEN FirstOf(exact) ELSE IF legacy # {} THEN legacy ELSE FirstOf(alike)
  BY DEF PoolFromKey
<1>4. PoolFromKey(payload, key) = {p}
  <2>. HIDE DEF exact, legacy, alike, key
  <2> QED BY <1>1, <1>2, <1>3
<1> QED BY <1>2, <1>4

LEMMA DriveFoundAgain ==
    ASSUME NEW drives, DOMAIN drives \subseteq Positions, NEW j \in DOMAIN drives, NEW pool
    PROVE  \E q \in DOMAIN drives :
              /\ DriveFromKey(drives, pool, DriveKey(drives[j], j)) = {q}
              /\ CacheFromKey(drives, DriveKey(drives[j], j)) = {q}
              /\ DriveKey(drives[q], q) = DriveKey(drives[j], j)
<1>. DEFINE key == DriveKey(drives[j], j)
            exact == {i \in DOMAIN drives : DriveKey(drives[i], i) = key}
            legacy == {i \in DOMAIN drives : DriveIndex(pool \o key) = i}
            alike == {i \in DOMAIN drives : Token[DriveKey(drives[i], i)] \in {Token[key]} \ {""}}
<1>1. exact \subseteq Positions /\ j \in exact
  OBVIOUS
<1>2. PICK q \in exact : FirstOf(exact) = {q}
  BY <1>1, FirstOfSome
<1>3. /\ DriveFromKey(drives, pool, key)
            = IF exact # {} THEN FirstOf(exact) ELSE IF legacy # {} THEN legacy ELSE FirstOf(alike)
      /\ CacheFromKey(drives, key) = FirstOf(exact)
  BY DEF DriveFromKey, CacheFromKey
<1>4. DriveFromKey(drives, pool, key) = {q} /\ CacheFromKey(drives, key) = {q}
  <2>. HIDE DEF exact, legacy, alike, key
  <2> QED BY <1>1, <1>2, <1>3
<1> QED BY <1>2, <1>4

\* Where no key stands for two things, looking up the key of a pool or drive in
\* the payload that lists it finds that pool or drive.
LEMMA ListedIsFound ==
    ASSUME NEW payload \in Payloads, Distinct(payload), NEW x \in Listed(payload)
    PROVE  Resolve(payload, x[1]) = x[2]
<1>0. payload # Nothing
  BY PayloadAssumption
<1>1. \A y \in Listed(payload) : y[1] = x[1] => y[2] = x[2]
  BY DEF Distinct
<1>2. CASE x \in ListedPools(payload)
  <2>1. PICK i \in DOMAIN payload.pools :
           x = <<[kind |-> "pool", pool |-> PoolKey(payload.pools[i], i)], payload.pools[i].pool>>
    BY <1>2 DEF ListedPools
  <2>. DEFINE key == PoolKey(payload.pools[i], i)
  <2>2. PICK p \in DOMAIN payload.pools :
           PoolFromKey(payload, key) = {p} /\ PoolKey(payload.pools[p], p) = key
    BY PoolFoundAgain
  <2>3. <<[kind |-> "pool", pool |-> PoolKey(payload.pools[p], p)], payload.pools[p].pool>>
           \in Listed(payload)
    BY <1>0 DEF Listed, ListedPools
  <2>. HIDE DEF key
  <2>4. <<[kind |-> "pool", pool |-> key], payload.pools[p].pool>> \in Listed(payload)
    BY <2>2, <2>3
  <2>5. x[1] = [kind |-> "pool", pool |-> key]
    BY <2>1 DEF key
  <2>6. payload.pools[p].pool = x[2]
    BY <1>1, <2>4, <2>5
  <2>7. ResolvePool(payload, key) = {payload.pools[p].pool}
    BY <2>2 DEF ResolvePool
  <2>8. Resolve(payload, [kind |-> "pool", pool |-> key]) = Only(ResolvePool(payload, key))
    BY <1>0 DEF Resolve
  <2> QED BY <2>5, <2>6, <2>7, <2>8, OnlyOne
<1>3. CASE x \in ListedDrives(payload)
  <2>1. PICK i \in DOMAIN payload.pools : \E j \in DOMAIN DrivesOf(payload, i) :
           x = <<[kind |-> "drive", pool |-> PoolKey(payload.pools[i], i),
                  drive |-> DriveKey(DrivesOf(payload, i)[j], j)],
                 DrivesOf(payload, i)[j].drive>>
    BY <1>3 DEF ListedDrives, DrivesOf
  <2>. DEFINE pool == PoolKey(payload.pools[i], i)
              drives == DrivesOf(payload, i)
  <2>2. PICK j \in DOMAIN drives :
           x = <<[kind |-> "drive", pool |-> pool, drive |-> DriveKey(drives[j], j)],
                 drives[j].drive>>
    BY <2>1
  <2>3. PICK p \in DOMAIN payload.pools :
           PoolFromKey(payload, pool) = {p} /\ PoolKey(payload.pools[p], p) = pool
    BY PoolFoundAgain
  <2>4. payload.pools[p] = payload.pools[i]
    BY <2>3 DEF Distinct
  <2>5. DOMAIN drives \subseteq Positions
    BY PayloadAssumption
  <2>6. DrivesOf(payload, p) = drives
    BY <2>4 DEF DrivesOf
  <2>7. \A n \in DOMAIN drives :
           <<[kind |-> "drive", pool |-> pool, drive |-> DriveKey(drives[n], n)],
             drives[n].drive>> \in ListedDrives(payload)
    BY DEF ListedDrives, DrivesOf
  <2>. HIDE DEF pool, drives
  <2>. DEFINE key == DriveKey(drives[j], j)
  <2>8. PICK q \in DOMAIN drives :
           DriveFromKey(drives, pool, key) = {q} /\ DriveKey(drives[q], q) = key
    BY <2>5, DriveFoundAgain
  <2>. HIDE DEF key
  <2>9. <<[kind |-> "drive", pool |-> pool, drive |-> key], drives[q].drive>> \in Listed(payload)
    BY <1>0, <2>7, <2>8 DEF Listed
  <2>10. x[1] = [kind |-> "drive", pool |-> pool, drive |-> key]
    BY <2>2 DEF key
  <2>11. drives[q].drive = x[2]
    BY <1>1, <2>9, <2>10
  <2>12. ResolveDrive(payload, pool, key) = {drives[q].drive}
    <3>1. ResolveDrive(payload, pool, key)
             = UNION {{DrivesOf(payload, n)[m].drive : m \in DriveFromKey(DrivesOf(payload, n), pool, key)} :
                      n \in PoolFromKey(payload, pool)}
      BY DEF ResolveDrive, DrivesOf
    <3>2. ResolveDrive(payload, pool, key)
             = {DrivesOf(payload, p)[m].drive : m \in DriveFromKey(DrivesOf(payload, p), pool, key)}
      BY <2>3, <3>1
    <3>3. ResolveDrive(payload, pool, key) = {drives[m].drive : m \in {q}}
      BY <2>6, <2>8, <3>2
    <3> QED BY <3>3
  <2>13. Resolve(payload, [kind |-> "drive", pool |-> pool, drive |-> key])
            = Only(ResolveDrive(payload, pool, key))
    BY <1>0 DEF Resolve
  <2> QED BY <2>10, <2>11, <2>12, <2>13, OnlyOne
<1>4. CASE x \in ListedCache(payload)
  <2>1. PICK i \in DOMAIN payload.cache :
           x = <<[kind |-> "cache", drive |-> DriveKey(payload.cache[i], i)], payload.cache[i].drive>>
    BY <1>4 DEF ListedCache
  <2>. DEFINE drives == payload.cache
              key == DriveKey(drives[i], i)
  <2>2. DOMAIN drives \subseteq Positions
    BY PayloadAssumption
  <2>3. PICK q \in DOMAIN drives :
           CacheFromKey(drives, key) = {q} /\ DriveKey(drives[q], q) = key
    BY <2>2, DriveFoundAgain
  <2>4. <<[kind |-> "cache", drive |-> DriveKey(drives[q], q)], drives[q].drive>>
           \in Listed(payload)
    BY <1>0 DEF Listed, ListedCache
  <2>. HIDE DEF key
  <2>5. x[1] = [kind |-> "cache", drive |-> key]
    BY <2>1 DEF key
  <2>6. drives[q].drive = x[2]
    BY <1>1, <2>3, <2>4, <2>5
  <2>7. ResolveCache(payload, key) = {drives[q].drive}
    BY <2>3 DEF ResolveCache
  <2>8. Resolve(payload, [kind |-> "cache", drive |-> key]) = Only(ResolveCache(payload, key))
    BY <1>0 DEF Resolve
  <2> QED BY <2>5, <2>6, <2>7, <2>8, OnlyOne
<1> QED BY <1>0, <1>2, <1>3, <1>4 DEF Listed

\* As long as the last poll succeeded there is data, and what it lists has a
\* key that the listeners know.
ListedInv ==
    success => data # Nothing /\ \A x \in Listed(data) : x[1] \in known

LEMMA ListedStep == ListedInv /\ [Next]_vars => ListedInv'
<1>. SUFFICES ASSUME ListedInv, [Next]_vars PROVE ListedInv'
  OBVIOUS
<1>1. ASSUME NEW payload, NEW have, NEW past, AddsMissing(have, past, payload)
      PROVE  \A x \in Listed(payload) : x[1] \in known'
  BY <1>1 DEF AddsMissing, Missing
<1>2. ASSUME NEW payload, NEW fresh, payload # Nothing, Publishes(payload, fresh)
      PROVE  ListedInv'
  BY <1>1, <1>2 DEF Publishes, ListedInv
<1>3. ASSUME NEW payload \in Payloads, PollAnswers(payload) PROVE ListedInv'
  BY <1>2, <1>3, PayloadAssumption DEF PollAnswers
<1>4. CASE Republished \/ OfflineCopyPublished
  BY <1>2, <1>4 DEF Republished, OfflineCopyPublished
<1>5. CASE PollFails
  BY <1>5 DEF PollFails, ListedInv
<1>6. CASE SensorsAdded
  BY <1>6 DEF SensorsAdded, ListedInv
<1>7. ASSUME NEW payload \in Payloads \cup {Nothing}, Loads(payload) PROVE ListedInv'
  <2>1. \A x \in Listed(payload) : x[1] \in known'
    BY <1>1, <1>7 DEF Loads
  <2> QED BY <1>7, <2>1 DEF Loads, ListedInv
<1>8. CASE UNCHANGED vars
  BY <1>8 DEF vars, ListedInv
<1> QED BY <1>3, <1>4, <1>5, <1>6, <1>7, <1>8 DEF Next

\* Every pool and drive of the last answer has a sensor that shows it, also
\* one that is listed where another was, under a position's key, or with an
\* identity it did not have before, as long as no key stands for two of them
\* (entities.py:75-146, pools.py:360-396, drives.py:645-659).
THEOREM ListedShown == Spec => []ListedIsShown
<1>1. Init => ListedInv
  BY DEF Init, ListedInv
<1>2. ASSUME Inv, ListedInv, success, Distinct(data), NEW x \in Listed(data)
      PROVE  x[1] \in known /\ (x[1] \in added => shown[x[1]] = x[2])
  <2>1. data \in Payloads /\ x[1] \in known
    BY <1>2, DataType DEF Inv, ListedInv
  <2>2. Resolve(data, x[1]) = x[2]
    BY <1>2, <2>1, ListedIsFound
  <2> QED BY <1>2, <2>1, <2>2 DEF Inv, ShownIsCurrent
<1>3. Inv /\ ListedInv => ListedIsShown
  BY <1>2 DEF ListedIsShown
<1> QED BY <1>1, <1>3, InvHolds, ListedStep, PTL DEF Spec
=============================================================================
