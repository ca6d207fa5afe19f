----------------------- MODULE DiscoveryIdentityProofs -----------------------
(***************************************************************************)
(* Proofs about DiscoveryIdentity, for any consoles, hosts, flows and any  *)
(* number of entries: types, that a console that gives its id has one      *)
(* entry, that an entry stays with its console, and where its MAC address  *)
(* comes from.                                                             *)
(***************************************************************************)
EXTENDS DiscoveryIdentity, TLAPS

\* An id from a console's system data.
SystemIds == {"system"} \X Consoles

\* An entry created with such an id still has it, as its unique id, and only
\* connections with this id were saved in it.
BornInv ==
    \A i \in Slots : born[i] # {} =>
        /\ entries[i] # NoEntry
        /\ entries[i].uid \in SystemIds
        /\ born[i] = {entries[i].uid}
        /\ told[i] \subseteq born[i]

\* What a validated flow will create is not configured yet, if it has such an
\* id, and a unique id that is a MAC address is the one it prefills.
Chosen(choice, known) ==
    /\ choice.data.uid = choice.uid
    /\ choice.scoped # {} =>
          /\ choice.uid \in SystemIds
          /\ choice.scoped = {choice.uid}
          /\ \A i \in Slots : known[i] # NoEntry => known[i].uid # choice.uid
    /\ \A m \in Macs : choice.uid = <<"mac", m>> => choice.data.wol = m

\* What a reconfiguration has read is of its entry, and vouched for.
Read(flow, known, reasons) ==
    /\ known[flow.slot] # NoEntry
    /\ flow.read.uid = known[flow.slot].uid
    /\ {flow.read.mac, flow.read.wol} \subseteq reasons[flow.slot] \cup {Nothing}

FlowInv ==
    \A f \in Flows :
        /\ flows[f].step = "features" => Chosen(flows[f], entries)
        /\ flows[f].step = "reconfigure" => Read(flows[f], entries, vouched)

\* Every MAC address in an entry is vouched for, also the one in its id.
VouchInv ==
    \A i \in Slots : entries[i] # NoEntry =>
        /\ {entries[i].mac, entries[i].wol} \subseteq vouched[i] \cup {Nothing}
        /\ \A m \in Macs : entries[i].uid = <<"mac", m>> => m \in vouched[i]

\* Only an entry is set up.
Started == \A i \in Slots : stage[i] # "idle" => entries[i] # NoEntry

\* An entry that has taken a MAC address on trust has one for good.
TrustInv ==
    \A i \in Slots :
        /\ trusted[i] # {} => entries[i] # NoEntry /\ entries[i].mac # Nothing
        /\ \A m, n \in trusted[i] : m = n

Inv == TypeOK /\ Started /\ BornInv /\ FlowInv /\ VouchInv /\ TrustInv /\ ConfiguredOnce

\* The disjuncts of Next, one alternative each.
LEMMA StepKinds ==
    ASSUME Next
    PROVE  \/ \E h \in Hosts, c \in Consoles : Moves(h, c)
           \/ \E c \in Consoles : Upgrades(c)
           \/ \E i \in Slots, m \in MaybeMac : WolEdited(i, m)
           \/ \E f \in Flows, found \in ScanResults : UserStarts(f, found)
           \/ \E f \in Flows, c \in Consoles : \E o \in Announced(c) : Zeroconf(f, o)
           \/ \E f \in Flows : \E o \in flows[f].found \cup {NoDevice} : UserSelects(f, o)
           \/ \E f \in Flows, h \in Hosts : Submits(f, h)
           \/ \E f \in Flows : ValidationFails(f)
           \/ \E f \in Flows, c \in Consoles : Validated(f, c)
           \/ \E f \in Flows, c \in Consoles : Reconfigured(f, c)
           \/ \E f \in Flows, i \in Slots, wol \in MaybeMac : FeaturesChosen(f, i, wol)
           \/ \E f \in Flows, i \in Slots, h \in Hosts : ReconfigureSubmitted(f, i, h)
           \/ \E i \in Slots : SetUpBegins(i)
           \/ \E i \in Slots : SetUpUnanswered(i)
           \/ \E i \in Slots, c \in Consoles : SetUpAnswered(i, c)
           \/ \E i \in Slots : CleansUp(i)
           \/ \E i \in Slots : Unloaded(i)
           \/ scan # NoScan /\ \E o \in scan.left : ScanFilters(o)
           \/ scan # NoScan /\ ScanEnds
BY DEF Next, NetworkStep, FlowStep, SetUpStep, Waiting

(***************************************************************************)
(* Types.                                                                  *)
(***************************************************************************)

\* What a console announces, what a scan finds, and the ids of a connection.
LEMMA AnnouncedType ==
    ASSUME NEW c \in Consoles
    PROVE  Announced(c) \subseteq Observations
BY DEF Announced, HardwareAddress, Observations, MaybeMac

LEMMA ScanType ==
    ASSUME NEW found \in ScanResults
    PROVE  found \in SUBSET Observations
<1>1. UNION {Announced(c) : c \in Consoles} \subseteq Observations
  BY AnnouncedType
<1> QED BY <1>1 DEF ScanResults, kSubset

LEMMA IdTypes ==
    ASSUME TypeOK, NEW c \in Consoles, NEW h \in Hosts
    PROVE  /\ ConnectionUniqueId(c, h) \in UniqueIds
           /\ ScopedIds(c) \subseteq UniqueIds
<1>1. says[c] \in {"system", "account", "little"}
  BY DEF TypeOK
<1>2. SystemMac[c] \in MaybeMac
  BY DiscoveryAssumption
<1> QED BY <1>1, <1>2 DEF ConnectionUniqueId, ScopedIds, UniqueIds, MaybeMac

LEMMA ZeroconfIdType ==
    ASSUME NEW o \in Observations
    PROVE  ZeroconfUniqueId(o) \in UniqueIds
BY DEF ZeroconfUniqueId, Observations, MaybeMac, UniqueIds

\* What the flows hold at each step.
LEMMA FlowKinds ==
    ASSUME TypeOK, NEW f \in Flows
    PROVE  /\ flows[f].step = "select" => flows[f] \in Selecting
           /\ flows[f].step = "connection" => flows[f] \in Connecting
           /\ flows[f].step = "validating" => flows[f] \in Validating
           /\ flows[f].step = "features" => flows[f] \in Choosing
           /\ flows[f].step = "reconfigure" => flows[f] \in Reconfiguring
BY DEF TypeOK, FlowStates, NoFlow, Over, Selecting, Connecting, Validating, Choosing,
       Reconfiguring

LEMMA DeviceTypes ==
    ASSUME NEW o \in Observations \cup {NoDevice}
    PROVE  o.mac \in MaybeMac /\ o.hosts \subseteq Hosts
BY DEF Observations, NoDevice, MaybeMac

\* Cards that are dismissed are over, the other flows stay as they are.
LEMMA AbortTypes ==
    ASSUME TypeOK, NEW e, AbortsMatchingCards(e)
    PROVE  /\ flows' \in [Flows -> FlowStates]
           /\ \A f \in Flows : flows'[f] = flows[f] \/ flows'[f].step = "over"
BY DEF AbortsMatchingCards, TypeOK, FlowStates, Over

LEMMA FormTypes ==
    ASSUME TypeOK, NEW f \in Flows, NEW card \in BOOLEAN, NEW uid \in UniqueIds \cup {Nothing},
           NEW o \in Observations \cup {NoDevice}, ConnectionForm(f, card, uid, o)
    PROVE  /\ flows' \in [Flows -> FlowStates]
           /\ \A g \in Flows : flows'[g] = flows[g] \/ flows'[g].step = "connection"
<1>1. [step |-> "connection", card |-> card, uid |-> uid, device |-> o] \in FlowStates
  BY DEF FlowStates, Connecting
<1> QED BY <1>1 DEF ConnectionForm, TypeOK

LEMMA EndTypes ==
    ASSUME TypeOK, NEW f \in Flows, Ends(f)
    PROVE  /\ flows' \in [Flows -> FlowStates]
           /\ \A g \in Flows : flows'[g] = flows[g] \/ flows'[g].step = "over"
BY DEF Ends, TypeOK, FlowStates, Over

LEMMA RecordTypes ==
    ASSUME TypeOK, NEW o \in Observations, Records(o)
    PROVE  /\ entries' \in [Slots -> Entries \cup {NoEntry}]
           /\ vouched' \in [Slots -> SUBSET Macs]
           /\ trusted' \in [Slots -> SUBSET Macs]
           /\ UNCHANGED <<born, told>>
<1>1. ASSUME NEW i \in FirstMatch(o) PROVE i \in Slots /\ Observed(entries[i], o) \in Entries
  <2>1. i \in Slots /\ entries[i] \in Entries
    BY DEF FirstMatch, Matches, Configured, TypeOK
  <2>2. o.mac \in MaybeMac /\ o.hosts \subseteq Hosts
    BY DEF Observations
  <2> QED BY <2>1, <2>2 DEF Observed, Entries
<1>2. {o.mac} \ {Nothing} \subseteq Macs
  BY DEF Observations, MaybeMac
<1> QED BY <1>1, <1>2 DEF Records, TypeOK

LEMMA TypeInitial == Init => TypeOK
<1> SUFFICES ASSUME Init PROVE TypeOK
  OBVIOUS
<1>1. \A h \in Hosts : Legacy(h) \in Entries
  BY DEF Legacy, Entries, UniqueIds, MaybeMac
<1>2. entries \in [Slots -> Entries \cup {NoEntry}]
  BY <1>1 DEF Init
<1>3. 0 \in 0 .. MaxEvents
  BY DiscoveryAssumption
<1> QED BY <1>2, <1>3 DEF Init, TypeOK, FlowStates

LEMMA TypeStep == TypeOK /\ Started /\ [Next]_vars => TypeOK'
<1> SUFFICES ASSUME TypeOK, Started, [Next]_vars PROVE TypeOK'
  OBVIOUS
<1>. USE DEF network, history
<1>0. Event => events' \in 0 .. MaxEvents
  BY DiscoveryAssumption DEF Event, TypeOK
<1>1. ASSUME NEW h \in Hosts, NEW c \in Consoles, Moves(h, c) PROVE TypeOK'
  BY <1>0, <1>1 DEF Moves, TypeOK
<1>2. ASSUME NEW c \in Consoles, Upgrades(c) PROVE TypeOK'
  BY <1>0, <1>2 DEF Upgrades, TypeOK
<1>3. ASSUME NEW i \in Slots, NEW m \in MaybeMac, WolEdited(i, m) PROVE TypeOK'
  <2>1. entries[i] \in Entries
    BY <1>3 DEF WolEdited, Configured, TypeOK
  <2>2. [entries[i] EXCEPT !.wol = m] \in Entries
    BY <2>1 DEF Entries
  <2>3. entries' \in [Slots -> Entries \cup {NoEntry}]
    BY <1>3, <2>2 DEF WolEdited, TypeOK
  <2>4. vouched' \in [Slots -> SUBSET Macs]
    BY <1>3 DEF WolEdited, TypeOK, MaybeMac
  <2>5. stage' \in [Slots -> {"idle", "refreshing", "loaded"}]
    BY <1>3 DEF WolEdited, Saved, TypeOK
  <2> QED BY <1>0, <1>3, <2>3, <2>4, <2>5 DEF WolEdited, TypeOK
<1>4. ASSUME NEW f \in Flows, NEW found \in ScanResults, UserStarts(f, found) PROVE TypeOK'
  <2>1. scan' \in Scans
    BY <1>4, ScanType DEF UserStarts, Scans
  <2> QED BY <1>4, <2>1 DEF UserStarts, TypeOK
<1>5. ASSUME NEW f \in Flows, NEW c \in Consoles, NEW o \in Announced(c), Zeroconf(f, o)
      PROVE  TypeOK'
  <2>1. o \in Observations
    BY AnnouncedType
  <2>2. flows' \in [Flows -> FlowStates]
    <3>1. CASE UNCHANGED flows
      BY <3>1 DEF TypeOK
    <3>2. CASE ConnectionForm(f, TRUE, ZeroconfUniqueId(o), o)
      BY <2>1, <3>2, FormTypes, ZeroconfIdType
    <3> QED BY <1>5, <3>1, <3>2 DEF Zeroconf
  <2>3. Records(o)
    BY <1>5 DEF Zeroconf
  <2> QED BY <1>5, <2>1, <2>2, <2>3, RecordTypes DEF Zeroconf, TypeOK
<1>6. ASSUME NEW f \in Flows, NEW o \in flows[f].found \cup {NoDevice}, UserSelects(f, o)
      PROVE  TypeOK'
  <2>1. o \in Observations \cup {NoDevice}
    BY <1>6, FlowKinds DEF UserSelects, Selecting
  <2>2. flows' \in [Flows -> FlowStates]
    BY <1>6, <2>1, FormTypes DEF UserSelects
  <2> QED BY <1>6, <2>2 DEF UserSelects, TypeOK
<1>7. ASSUME NEW f \in Flows, NEW h \in Hosts, Submits(f, h) PROVE TypeOK'
  <2>1. flows[f] \in Connecting
    BY <1>7, FlowKinds DEF Submits
  <2>2. [step |-> "validating", card |-> flows[f].card, uid |-> flows[f].uid,
         device |-> flows[f].device, host |-> h] \in FlowStates
    BY <2>1 DEF Connecting, Validating, FlowStates
  <2> QED BY <1>7, <2>2 DEF Submits, TypeOK
<1>8. ASSUME NEW f \in Flows, ValidationFails(f) PROVE TypeOK'
  <2>1. flows[f] \in Validating
    BY <1>8, FlowKinds DEF ValidationFails
  <2>2. flows' \in [Flows -> FlowStates]
    BY <1>8, <2>1, FormTypes DEF ValidationFails, Validating
  <2> QED BY <1>8, <2>2 DEF ValidationFails, TypeOK
<1>9. ASSUME NEW f \in Flows, NEW c \in Consoles, Validated(f, c) PROVE TypeOK'
  <2>1. flows[f] \in Validating
    BY <1>9, FlowKinds DEF Validated
  <2>. DEFINE h == flows[f].host
              o == flows[f].device
              uid == ConnectionUniqueId(c, h)
  <2>2. h \in Hosts /\ o \in Observations \cup {NoDevice} /\ flows[f].card \in BOOLEAN
    BY <2>1 DEF Validating
  <2>3. uid \in UniqueIds /\ ScopedIds(c) \subseteq UniqueIds
    BY <2>2, IdTypes
  <2>4. ValidatedData(uid, c, h, o) \in Entries
    <3>1. SystemMac[c] \in MaybeMac
      BY DiscoveryAssumption
    <3> QED BY <2>2, <2>3, <3>1, DeviceTypes DEF ValidatedData, Entries
  <2>5. [step |-> "features", card |-> flows[f].card, uid |-> uid, device |-> o,
         data |-> ValidatedData(uid, c, h, o), scoped |-> ScopedIds(c)] \in FlowStates
    BY <2>2, <2>3, <2>4 DEF Choosing, FlowStates
  <2>6. flows' \in [Flows -> FlowStates]
    <3>1. CASE Ends(f)
      BY <3>1, EndTypes
    <3>2. CASE ~Ends(f)
      BY <1>9, <2>5, <3>2 DEF Validated, ValidatedUniqueId, TypeOK
    <3> QED BY <3>1, <3>2
  <2> QED BY <1>9, <2>6 DEF Validated, TypeOK
<1>10. ASSUME NEW f \in Flows, NEW c \in Consoles, Reconfigured(f, c) PROVE TypeOK'
  <2>1. flows[f] \in Reconfiguring
    BY <1>10, FlowKinds DEF Reconfigured
  <2>. DEFINE i == flows[f].slot
              h == flows[f].host
  <2>2. i \in Slots /\ h \in Hosts /\ flows[f].read \in Entries
    BY <2>1 DEF Reconfiguring
  <2>3. flows' \in [Flows -> FlowStates]
    BY <1>10, EndTypes DEF Reconfigured
  <2>4. CASE UNCHANGED <<entries, told, stage>>
    BY <1>10, <2>3, <2>4 DEF Reconfigured, TypeOK
  <2>5. CASE /\ entries' = [entries EXCEPT ![i] = Overlaid(entries[i], flows[f].read, h)]
             /\ told' = [told EXCEPT ![i] = @ \cup ScopedIds(c)]
             /\ Saved(i)
             /\ EntryMatchesValidatedDevice(entries[i], c, h)
    <3>1. ASSUME entries[i] \in Entries
          PROVE  Overlaid(entries[i], flows[f].read, h) \in Entries
      BY <2>2, <3>1 DEF Overlaid, Entries
    <3>2. <<"host", h>> \in UniqueIds
      BY <2>2 DEF UniqueIds
    <3>3. entries[i].uid \in UniqueIds
      BY <2>2, <2>5, <3>2, IdTypes DEF EntryMatchesValidatedDevice, LegacyMatch
    <3>4. entries[i] # NoEntry
      BY <3>3, DiscoveryAssumption DEF NoEntry
    <3> QED BY <1>10, <2>2, <2>3, <2>5, <3>1, <3>4, IdTypes DEF Reconfigured, Saved, TypeOK
  <2> QED BY <1>10, <2>4, <2>5 DEF Reconfigured
<1>11. ASSUME NEW f \in Flows, NEW i \in Slots, NEW wol \in MaybeMac, FeaturesChosen(f, i, wol)
       PROVE  TypeOK'
  <2>1. flows[f] \in Choosing
    BY <1>11, FlowKinds DEF FeaturesChosen
  <2>2. [flows[f].data EXCEPT !.wol = wol] \in Entries
    BY <2>1 DEF Choosing, Entries
  <2>3. flows' \in [Flows -> FlowStates]
    BY <1>11 DEF FeaturesChosen, FlowFinished, TypeOK, FlowStates
  <2>4. {flows[f].data.mac, flows[f].data.wol} \ {Nothing} \subseteq Macs
    BY <2>1 DEF Choosing, Entries, MaybeMac
  <2>5. flows[f].scoped \in SUBSET UniqueIds
    BY <2>1 DEF Choosing
  <2> QED BY <1>11, <2>2, <2>3, <2>4, <2>5 DEF FeaturesChosen, TypeOK
<1>12. ASSUME NEW f \in Flows, NEW i \in Slots, NEW h \in Hosts, ReconfigureSubmitted(f, i, h)
       PROVE  TypeOK'
  <2>1. entries[i] \in Entries
    BY <1>12 DEF ReconfigureSubmitted, Configured, TypeOK
  <2>2. [step |-> "reconfigure", slot |-> i, host |-> h, read |-> entries[i]] \in FlowStates
    BY <2>1 DEF Reconfiguring, FlowStates
  <2> QED BY <1>12, <2>2 DEF ReconfigureSubmitted, TypeOK
<1>13. ASSUME NEW i \in Slots, SetUpBegins(i) PROVE TypeOK'
  <2>1. entries[i] \in Entries
    BY <1>13 DEF SetUpBegins, Configured, TypeOK
  <2>2. Backfilled(entries[i], entries[i].wol) \in Entries /\ entries[i].host \in Hosts
    BY <2>1 DEF Backfilled, Entries
  <2>3. flows' \in [Flows -> FlowStates]
    BY <1>13, AbortTypes DEF SetUpBegins
  <2> QED BY <1>13, <2>2, <2>3 DEF SetUpBegins, TypeOK
<1>14. ASSUME NEW i \in Slots, SetUpUnanswered(i) PROVE TypeOK'
  <2>1. flows' \in [Flows -> FlowStates]
    BY <1>14, AbortTypes DEF SetUpUnanswered, TypeOK
  <2>2. stage' \in [Slots -> {"idle", "refreshing", "loaded"}]
    BY <1>14 DEF SetUpUnanswered, TypeOK
  <2> QED BY <1>14, <2>1, <2>2 DEF SetUpUnanswered, TypeOK
<1>15. ASSUME NEW i \in Slots, NEW c \in Consoles, SetUpAnswered(i, c) PROVE TypeOK'
  <2>1. SystemMac[c] \in MaybeMac /\ {SystemMac[c]} \ {Nothing} \subseteq Macs
    BY DiscoveryAssumption DEF MaybeMac
  <2>2. ASSUME entries[i] \in Entries
        PROVE  Refreshed(Backfilled(entries[i], SystemMac[c]), SystemMac[c]) \in Entries
    BY <2>1, <2>2 DEF Refreshed, Backfilled, Entries
  <2>3. entries[i] # NoEntry
    BY <1>15 DEF SetUpAnswered, Started
  <2>4. flows' \in [Flows -> FlowStates]
    BY <1>15, AbortTypes DEF SetUpAnswered
  <2> QED BY <1>15, <2>1, <2>2, <2>3, <2>4 DEF SetUpAnswered, TypeOK
<1>16. ASSUME NEW i \in Slots, CleansUp(i) PROVE TypeOK'
  BY <1>16, AbortTypes DEF CleansUp, TypeOK
<1>17. ASSUME NEW i \in Slots, Unloaded(i) PROVE TypeOK'
  BY <1>0, <1>17 DEF Unloaded, TypeOK
<1>18. ASSUME scan # NoScan, NEW o \in scan.left, ScanFilters(o) PROVE TypeOK'
  <2>1. scan \in Scans /\ o \in Observations
    BY <1>18 DEF TypeOK, Scans
  <2>2. scan' \in Scans
    BY <1>18, <2>1 DEF ScanFilters, Scans
  <2>3. Records(o)
    BY <1>18 DEF ScanFilters
  <2> QED BY <1>18, <2>1, <2>2, <2>3, RecordTypes DEF ScanFilters, TypeOK
<1>19. ASSUME scan # NoScan, ScanEnds PROVE TypeOK'
  <2>1. scan \in Scans
    BY <1>19 DEF TypeOK
  <2>2. [step |-> "select", found |-> scan.found] \in FlowStates
    BY <2>1 DEF Scans, Selecting, FlowStates
  <2>3. flows' \in [Flows -> FlowStates]
    <3>1. CASE ConnectionForm(scan.flow, FALSE, Nothing, NoDevice)
      BY <2>1, <3>1, FormTypes DEF Scans
    <3>2. CASE flows' = [flows EXCEPT ![scan.flow] = [step |-> "select", found |-> scan.found]]
      BY <2>1, <2>2, <3>2 DEF TypeOK
    <3> QED BY <1>19, <3>1, <3>2 DEF ScanEnds
  <2> QED BY <1>19, <2>3 DEF ScanEnds, TypeOK
<1>20. CASE UNCHANGED vars
  BY <1>20 DEF vars, TypeOK
<1> QED
  BY <1>1, <1>2, <1>3, <1>4, <1>5, <1>6, <1>7, <1>8, <1>9, <1>10, <1>11, <1>12, <1>13,
     <1>14, <1>15, <1>16, <1>17, <1>18, <1>19, <1>20, StepKinds

(***************************************************************************)
(* Entries, flows and where the MAC addresses come from.                   *)
(***************************************************************************)

\* A step that creates no entry, gives none another unique id, puts only
\* addresses into entries that are vouched for, saves only connections with
\* the id an entry was created with, and leaves in the flows only choices and
\* readings as they should be.
LEMMA GentleStep ==
    ASSUME Inv,
           UNCHANGED born,
           \A i \in Slots : /\ entries'[i] # NoEntry <=> entries[i] # NoEntry
                            /\ stage'[i] = "idle" \/ entries[i] # NoEntry
                            /\ vouched[i] \subseteq vouched'[i],
           \A i \in Slots : entries[i] # NoEntry =>
               /\ entries'[i].uid = entries[i].uid
               /\ {entries'[i].mac, entries'[i].wol} \subseteq vouched'[i] \cup {Nothing}
               /\ born[i] # {} => told'[i] \subseteq born[i],
           \A f \in Flows :
               \/ flows'[f] = flows[f]
               \/ flows'[f].step \notin {"features", "reconfigure"}
               \/ flows'[f].step = "features" /\ Chosen(flows'[f], entries)
               \/ flows'[f].step = "reconfigure" /\ flows'[f].slot \in Slots /\ Read(flows'[f], entries, vouched)
    PROVE  Started' /\ BornInv' /\ FlowInv' /\ VouchInv' /\ ConfiguredOnce'
<1>1. Started' /\ BornInv'
  BY DEF Inv, Started, BornInv
<1>2. VouchInv'
  BY DEF Inv, VouchInv
<1>3. ConfiguredOnce'
  BY DEF Inv, ConfiguredOnce, Configured
<1>4. ASSUME NEW choice, Chosen(choice, entries) PROVE Chosen(choice, entries')
  BY <1>4 DEF Chosen
<1>5. ASSUME NEW flow, flow.slot \in Slots, Read(flow, entries, vouched)
      PROVE  Read(flow, entries', vouched')
  BY <1>5 DEF Read
<1>6. ASSUME NEW f \in Flows, flows'[f].step = "features" PROVE Chosen(flows'[f], entries')
  <2>1. Chosen(flows'[f], entries)
    BY <1>6 DEF Inv, FlowInv
  <2> QED BY <1>4, <2>1
<1>7. ASSUME NEW f \in Flows, flows'[f].step = "reconfigure"
      PROVE  Read(flows'[f], entries', vouched')
  <2>1. Read(flows'[f], entries, vouched) /\ flows'[f].slot \in Slots
    BY <1>7, FlowKinds DEF Inv, FlowInv, Reconfiguring
  <2> QED BY <1>5, <2>1
<1>8. FlowInv'
  BY <1>6, <1>7 DEF FlowInv
<1> QED BY <1>1, <1>2, <1>3, <1>8

\* Nothing of the entries changes.
LEMMA EntriesStay ==
    ASSUME Inv,
           UNCHANGED <<entries, born, told, vouched>>,
           \A i \in Slots : stage'[i] \in {"idle", stage[i]} \/ entries[i] # NoEntry,
           \A f \in Flows : flows'[f] = flows[f]
                              \/ flows'[f].step \notin {"features", "reconfigure"}
    PROVE  Started' /\ BornInv' /\ FlowInv' /\ VouchInv' /\ ConfiguredOnce'
<1>1. \A i \in Slots : stage'[i] = "idle" \/ entries[i] # NoEntry
  BY DEF Inv, Started
<1>2. \A i \in Slots : entries[i] # NoEntry =>
          /\ {entries[i].mac, entries[i].wol} \subseteq vouched[i] \cup {Nothing}
          /\ born[i] # {} => told[i] \subseteq born[i]
  BY DEF Inv, VouchInv, BornInv
<1> QED BY <1>1, <1>2, GentleStep

\* Recording an announcement keeps what is vouched for.
LEMMA RecordsKeep ==
    ASSUME Inv, NEW o \in Observations, Records(o)
    PROVE  /\ UNCHANGED <<born, told>>
           /\ \A i \in Slots : /\ entries'[i] # NoEntry <=> entries[i] # NoEntry
                               /\ vouched[i] \subseteq vouched'[i]
           /\ \A i \in Slots : entries[i] # NoEntry =>
                 /\ entries'[i].uid = entries[i].uid
                 /\ {entries'[i].mac, entries'[i].wol} \subseteq vouched'[i] \cup {Nothing}
<1>1. UNCHANGED <<born, told>>
  BY DEF Records
<1>2. ASSUME NEW i \in Slots, i \notin FirstMatch(o)
      PROVE  UNCHANGED <<entries[i], vouched[i]>>
  BY <1>2 DEF Records, Inv, TypeOK
<1>3. ASSUME NEW i \in FirstMatch(o)
      PROVE  /\ i \in Slots
             /\ entries[i] \in Entries
             /\ ~Contradicts(entries[i], o)
             /\ entries'[i] = Observed(entries[i], o)
             /\ vouched'[i] = vouched[i] \cup
                                (IF MacKeys(entries[i]) = {} THEN {o.mac} \ {Nothing} ELSE {})
  BY <1>3 DEF FirstMatch, Matches, Configured, Records, Inv, TypeOK
<1>4. o.mac \in MaybeMac
  BY DEF Observations
<1>5. ASSUME NEW i \in FirstMatch(o)
      PROVE  /\ entries[i] # NoEntry
             /\ entries'[i] # NoEntry
             /\ vouched[i] \subseteq vouched'[i]
             /\ entries'[i].uid = entries[i].uid
             /\ {entries'[i].mac, entries'[i].wol} \subseteq vouched'[i] \cup {Nothing}
  <2>1. /\ entries'[i].uid = entries[i].uid
        /\ entries'[i].wol = entries[i].wol
        /\ entries'[i].mac = IF o.mac # Nothing THEN o.mac ELSE entries[i].mac
    BY <1>3 DEF Observed, Entries
  <2>2. entries[i] # NoEntry /\ entries[i].uid \in UniqueIds
    BY <1>3, <1>5 DEF FirstMatch, Matches, Configured, Entries
  <2>3. entries'[i] # NoEntry
    BY <2>1, <2>2, DiscoveryAssumption DEF NoEntry
  <2>4. vouched[i] \subseteq vouched'[i]
    BY <1>3
  <2>5. {entries[i].mac, entries[i].wol} \subseteq vouched[i] \cup {Nothing}
    BY <1>3, <2>2 DEF Inv, VouchInv
  <2>6. MacKeys(entries[i]) \subseteq vouched[i] \cup {Nothing}
    BY <1>3, <2>2, <2>5 DEF Inv, VouchInv, MacKeys
  <2>7. CASE o.mac = Nothing
    BY <2>1, <2>2, <2>3, <2>4, <2>5, <2>7
  <2>8. CASE o.mac # Nothing /\ MacKeys(entries[i]) = {}
    BY <1>3, <2>1, <2>2, <2>3, <2>4, <2>5, <2>8
  <2>9. CASE o.mac # Nothing /\ MacKeys(entries[i]) # {}
    <3>1. o.mac \in MacKeys(entries[i])
      BY <1>3, <2>9 DEF Contradicts
    <3> QED BY <2>1, <2>2, <2>3, <2>4, <2>5, <2>6, <3>1
  <2> QED BY <2>7, <2>8, <2>9
<1>6. ASSUME NEW i \in Slots
      PROVE  /\ entries'[i] # NoEntry <=> entries[i] # NoEntry
             /\ vouched[i] \subseteq vouched'[i]
             /\ entries[i] # NoEntry =>
                   /\ entries'[i].uid = entries[i].uid
                   /\ {entries'[i].mac, entries'[i].wol} \subseteq vouched'[i] \cup {Nothing}
  BY <1>2, <1>5 DEF Inv, VouchInv
<1> QED BY <1>1, <1>6

LEMMA PartsInitial == Init => Started /\ BornInv /\ FlowInv /\ VouchInv /\ ConfiguredOnce
<1> SUFFICES ASSUME Init PROVE Started /\ BornInv /\ FlowInv /\ VouchInv /\ ConfiguredOnce
  OBVIOUS
<1>1. Started /\ BornInv /\ ConfiguredOnce
  BY DEF Init, Started, BornInv, ConfiguredOnce, Configured
<1>2. FlowInv
  BY DEF Init, FlowInv, NoFlow
<1>3. ASSUME NEW i \in Slots, entries[i] # NoEntry PROVE \E h \in Hosts : entries[i] = Legacy(h)
  BY <1>3 DEF Init
<1>4. VouchInv
  <2>1. ASSUME NEW i \in Slots, NEW h \in Hosts, entries[i] = Legacy(h)
        PROVE  /\ entries[i].mac = Nothing /\ entries[i].wol = Nothing
               /\ \A m \in Macs : entries[i].uid # <<"mac", m>>
    BY <2>1 DEF Legacy
  <2> QED BY <1>3, <2>1 DEF VouchInv
<1> QED BY <1>1, <1>2, <1>4

\* A flow that ends well creates the first entry with its unique id.
LEMMA ChosenKeeps ==
    ASSUME Inv, NEW f \in Flows, NEW i \in Slots, NEW wol \in MaybeMac, FeaturesChosen(f, i, wol)
    PROVE  Started' /\ BornInv' /\ FlowInv' /\ VouchInv' /\ ConfiguredOnce'
<1>. DEFINE choice == flows[f]
            e == [choice.data EXCEPT !.wol = wol]
<1>1. choice \in Choosing /\ Chosen(choice, entries)
  BY FlowKinds DEF FeaturesChosen, Inv, FlowInv
<1>0. entries[i] = NoEntry
  <2>1. i \in Int /\ ~(i < i)
    BY DiscoveryAssumption DEF Slots
  <2>2. \A j \in Slots : j \in Configured <=> j < i
    BY DEF FeaturesChosen
  <2> QED BY <2>1, <2>2 DEF Configured
<1>2. /\ wol \in {choice.data.wol, Nothing}
      /\ entries' = [entries EXCEPT ![i] = e]
      /\ born' = [born EXCEPT ![i] = choice.scoped]
      /\ told' = [told EXCEPT ![i] = choice.scoped]
      /\ vouched' = [vouched EXCEPT ![i] = {choice.data.mac, choice.data.wol} \ {Nothing}]
      /\ UNCHANGED stage
  BY DEF FeaturesChosen
<1>3. /\ e.uid = choice.uid
      /\ e.mac = choice.data.mac
      /\ e.wol = wol
      /\ e.uid \in UniqueIds
  BY <1>1 DEF Chosen, Choosing, Entries
<1>4. e # NoEntry
  BY <1>3, DiscoveryAssumption DEF NoEntry
<1>5. /\ entries'[i] = e /\ born'[i] = choice.scoped /\ told'[i] = choice.scoped
      /\ vouched'[i] = {choice.data.mac, choice.data.wol} \ {Nothing}
      /\ \A j \in Slots \ {i} : UNCHANGED <<entries[j], born[j], told[j], vouched[j]>>
  BY <1>2 DEF Inv, TypeOK
<1>6. born[i] = {}
  BY <1>0 DEF Inv, BornInv
<1>7. Started'
  BY <1>2, <1>4, <1>5 DEF Inv, Started
<1>8. choice.scoped # {} => choice.uid \in SystemIds /\ choice.scoped = {choice.uid}
  BY <1>1 DEF Chosen
<1>. HIDE DEF e, choice
<1>9. BornInv'
  BY <1>3, <1>4, <1>5, <1>8 DEF Inv, BornInv
<1>10. ConfiguredOnce'
  <2>1. ASSUME NEW j \in Slots \ {i} PROVE born'[i] \cap born'[j] = {}
    <3>1. CASE choice.scoped = {} \/ born[j] = {}
      BY <1>5, <3>1
    <3>2. CASE choice.scoped # {} /\ born[j] # {}
      <4>1. entries[j] # NoEntry /\ born[j] = {entries[j].uid}
        BY <3>2 DEF Inv, BornInv
      <4>2. entries[j].uid # choice.uid
        BY <1>1, <3>2, <4>1 DEF Chosen
      <4> QED BY <1>5, <1>8, <3>2, <4>1, <4>2
    <3> QED BY <3>1, <3>2
  <2> QED BY <1>5, <2>1 DEF Inv, ConfiguredOnce, Configured
<1>11. VouchInv'
  <2>1. {e.mac, e.wol} \subseteq vouched'[i] \cup {Nothing}
    BY <1>2, <1>3, <1>5
  <2>2. \A m \in Macs : e.uid = <<"mac", m>> => m \in vouched'[i]
    BY <1>1, <1>3, <1>5, DiscoveryAssumption DEF Chosen
  <2> QED BY <1>5, <2>1, <2>2 DEF Inv, VouchInv
<1>12. FlowInv'
  <2>1. ASSUME NEW g \in Flows, flows'[g].step = "features"
        PROVE  Chosen(flows'[g], entries')
    <3>1. flows'[g] = flows[g] /\ FlowUniqueId(g) # choice.uid
      BY <2>1 DEF FeaturesChosen, FlowFinished, Over, choice
    <3>2. flows[g].uid # choice.uid /\ Chosen(flows[g], entries)
      BY <2>1, <3>1 DEF FlowUniqueId, Inv, FlowInv
    <3> QED BY <1>3, <1>5, <3>1, <3>2 DEF Chosen
  <2>2. ASSUME NEW g \in Flows, flows'[g].step = "reconfigure"
        PROVE  Read(flows'[g], entries', vouched')
    <3>1. flows'[g] = flows[g]
      BY <2>2 DEF FeaturesChosen, FlowFinished, Over
    <3>2. Read(flows[g], entries, vouched) /\ flows[g].slot \in Slots
      BY <2>2, <3>1, FlowKinds DEF Inv, FlowInv, Reconfiguring
    <3>3. flows[g].slot # i
      BY <1>0, <3>2 DEF Read
    <3> QED BY <1>5, <3>1, <3>2, <3>3 DEF Read
  <2> QED BY <2>1, <2>2 DEF FlowInv
<1> QED BY <1>7, <1>9, <1>10, <1>11, <1>12

LEMMA PartsStep ==
    Inv /\ [Next]_vars => Started' /\ BornInv' /\ FlowInv' /\ VouchInv' /\ ConfiguredOnce'
<1>. DEFINE Goal == Started' /\ BornInv' /\ FlowInv' /\ VouchInv' /\ ConfiguredOnce'
<1> SUFFICES ASSUME Inv, [Next]_vars PROVE Goal
  OBVIOUS
<1>. HIDE DEF Goal
<1>. USE DEF network, history
<1>0. TypeOK
  BY DEF Inv
<1>1. ASSUME NEW h \in Hosts, NEW c \in Consoles, Moves(h, c) PROVE Goal
  BY <1>1, EntriesStay DEF Moves, Goal
<1>2. ASSUME NEW c \in Consoles, Upgrades(c) PROVE Goal
  BY <1>2, EntriesStay DEF Upgrades, Goal
<1>3. ASSUME NEW i \in Slots, NEW m \in MaybeMac, WolEdited(i, m) PROVE Goal
  <2>1. entries[i] \in Entries /\ entries[i] # NoEntry /\ entries[i].uid \in UniqueIds
    BY <1>0, <1>3 DEF WolEdited, Configured, TypeOK, Entries
  <2>2. /\ entries' = [entries EXCEPT ![i].wol = m]
        /\ vouched' = [vouched EXCEPT ![i] = @ \cup ({m} \ {Nothing})]
        /\ UNCHANGED <<born, told, flows>>
        /\ Saved(i)
    BY <1>3 DEF WolEdited
  <2>3. /\ entries'[i].uid = entries[i].uid
        /\ entries'[i].mac = entries[i].mac
        /\ entries'[i].wol = m
        /\ vouched'[i] = vouched[i] \cup ({m} \ {Nothing})
        /\ \A j \in Slots \ {i} : UNCHANGED <<entries[j], vouched[j]>>
    BY <1>0, <2>1, <2>2 DEF TypeOK, Entries
  <2>4. entries'[i] # NoEntry
    BY <2>1, <2>3, DiscoveryAssumption DEF NoEntry
  <2>5. \A j \in Slots : stage'[j] = "idle" \/ entries[j] # NoEntry
    BY <1>0, <2>2 DEF Saved, TypeOK, Inv, Started
  <2>6. \A j \in Slots : entries[j] # NoEntry =>
            /\ {entries[j].mac, entries[j].wol} \subseteq vouched[j] \cup {Nothing}
            /\ born[j] # {} => told[j] \subseteq born[j]
    BY DEF Inv, VouchInv, BornInv
  <2>7. \A j \in Slots : entries[j] # NoEntry =>
            {entries'[j].mac, entries'[j].wol} \subseteq vouched'[j] \cup {Nothing}
    BY <2>1, <2>3, <2>6
  <2> QED BY <2>1, <2>2, <2>3, <2>4, <2>5, <2>6, <2>7, GentleStep DEF Goal
<1>4. ASSUME NEW f \in Flows, NEW found \in ScanResults, UserStarts(f, found) PROVE Goal
  BY <1>4, EntriesStay DEF UserStarts, Goal
<1>5. ASSUME NEW f \in Flows, NEW c \in Consoles, NEW o \in Announced(c), Zeroconf(f, o)
      PROVE  Goal
  <2>1. o \in Observations /\ Records(o) /\ UNCHANGED stage
    BY <1>5, AnnouncedType DEF Zeroconf
  <2>2. \A g \in Flows : flows'[g] = flows[g] \/ flows'[g].step = "connection"
    <3>1. CASE UNCHANGED flows
      BY <3>1
    <3>2. CASE ConnectionForm(f, TRUE, ZeroconfUniqueId(o), o)
      BY <1>0, <2>1, <3>2, FormTypes, ZeroconfIdType
    <3> QED BY <1>5, <3>1, <3>2 DEF Zeroconf
  <2>3. /\ \A i \in Slots : stage'[i] = "idle" \/ entries[i] # NoEntry
        /\ \A i \in Slots : born[i] # {} => told[i] \subseteq born[i]
    BY <2>1 DEF Inv, Started, BornInv
  <2> QED BY <2>1, <2>2, <2>3, RecordsKeep, GentleStep DEF Goal
<1>6. ASSUME NEW f \in Flows, NEW o \in flows[f].found \cup {NoDevice}, UserSelects(f, o)
      PROVE  Goal
  <2>1. o \in Observations \cup {NoDevice}
    BY <1>0, <1>6, FlowKinds DEF UserSelects, Selecting
  <2>2. \A g \in Flows : flows'[g] = flows[g] \/ flows'[g].step = "connection"
    BY <1>0, <1>6, <2>1, FormTypes DEF UserSelects
  <2> QED BY <1>6, <2>2, EntriesStay DEF UserSelects, Goal
<1>7. ASSUME NEW f \in Flows, NEW h \in Hosts, Submits(f, h) PROVE Goal
  <2>1. \A g \in Flows : flows'[g] = flows[g] \/ flows'[g].step = "validating"
    BY <1>0, <1>7 DEF Submits, TypeOK
  <2> QED BY <1>7, <2>1, EntriesStay DEF Submits, Goal
<1>8. ASSUME NEW f \in Flows, ValidationFails(f) PROVE Goal
  <2>1. flows[f] \in Validating
    BY <1>0, <1>8, FlowKinds DEF ValidationFails
  <2>2. \A g \in Flows : flows'[g] = flows[g] \/ flows'[g].step = "connection"
    BY <1>0, <1>8, <2>1, FormTypes DEF ValidationFails, Validating
  <2> QED BY <1>8, <2>2, EntriesStay DEF ValidationFails, Goal
<1>9. ASSUME NEW f \in Flows, NEW c \in Consoles, Validated(f, c) PROVE Goal
  <2>1. flows[f] \in Validating
    BY <1>0, <1>9, FlowKinds DEF Validated
  <2>. DEFINE h == flows[f].host
              o == flows[f].device
              uid == ConnectionUniqueId(c, h)
              choice == [step |-> "features", card |-> flows[f].card, uid |-> uid, device |-> o,
                         data |-> ValidatedData(uid, c, h, o), scoped |-> ScopedIds(c)]
  <2>2. CASE Ends(f)
    BY <1>0, <1>9, <2>2, EndTypes, EntriesStay DEF Validated, Goal
  <2>3. CASE ~Ends(f)
    <3>1. ~AnyUniqueIdConfigured(c, h) /\ flows' = [flows EXCEPT ![f] = choice]
      BY <1>9, <2>3 DEF Validated, ValidatedUniqueId
    <3>2. ScopedIds(c) # {} => uid = <<"system", c>> /\ ScopedIds(c) = {uid}
      BY DEF ScopedIds, ConnectionUniqueId
    <3>3. \A i \in Slots : entries[i] # NoEntry => entries[i].uid # uid
      BY <3>1 DEF AnyUniqueIdConfigured, Configured
    <3>4. \A m \in Macs : uid = <<"mac", m>> => SystemMac[c] = m
      BY DEF ConnectionUniqueId
    <3>5. ValidatedData(uid, c, h, o).uid = uid
      BY DEF ValidatedData
    <3>6. \A m \in Macs : SystemMac[c] = m => ValidatedData(uid, c, h, o).wol = m
      BY DiscoveryAssumption DEF ValidatedData
    <3>7. Chosen(choice, entries)
      <4>. HIDE DEF uid, h, o
      <4> QED BY <3>2, <3>3, <3>4, <3>5, <3>6 DEF Chosen, SystemIds
    <3>8. /\ UNCHANGED <<entries, stage, born, told, vouched>>
          /\ \A g \in Flows : flows'[g] = flows[g] \/ flows'[g] = choice
      BY <1>0, <1>9, <3>1 DEF Validated, TypeOK
    <3>9. /\ \A i \in Slots : stage[i] = "idle" \/ entries[i] # NoEntry
          /\ \A i \in Slots : entries[i] # NoEntry =>
                /\ {entries[i].mac, entries[i].wol} \subseteq vouched[i] \cup {Nothing}
                /\ born[i] # {} => told[i] \subseteq born[i]
      BY DEF Inv, Started, BornInv, VouchInv
    <3>10. choice.step = "features"
      OBVIOUS
    <3>. HIDE DEF choice
    <3> QED BY <3>7, <3>8, <3>9, <3>10, GentleStep DEF Goal
  <2> QED BY <2>2, <2>3
<1>10. ASSUME NEW f \in Flows, NEW c \in Consoles, Reconfigured(f, c) PROVE Goal
  <2>1. flows[f] \in Reconfiguring /\ Read(flows[f], entries, vouched)
    BY <1>0, <1>10, FlowKinds DEF Reconfigured, Inv, FlowInv
  <2>. DEFINE i == flows[f].slot
              h == flows[f].host
              read == flows[f].read
              e == Overlaid(entries[i], read, h)
  <2>2. i \in Slots /\ h \in Hosts /\ read \in Entries /\ entries[i] \in Entries
    BY <1>0, <2>1 DEF Reconfiguring, Read, TypeOK
  <2>3. \A g \in Flows : flows'[g] = flows[g] \/ flows'[g].step = "over"
    BY <1>0, <1>10, EndTypes DEF Reconfigured
  <2>4. UNCHANGED <<born, vouched>>
    BY <1>10 DEF Reconfigured
  <2>5. CASE UNCHANGED <<entries, told, stage>>
    BY <2>3, <2>4, <2>5, EntriesStay DEF Goal
  <2>6. CASE /\ EntryMatchesValidatedDevice(entries[i], c, h)
             /\ entries' = [entries EXCEPT ![i] = e]
             /\ told' = [told EXCEPT ![i] = @ \cup ScopedIds(c)]
             /\ Saved(i)
    <3>1. /\ e.uid = read.uid
          /\ e.wol = read.wol
          /\ e.mac \in {read.mac, entries[i].mac}
      BY <2>2 DEF Overlaid, Entries
    <3>2. /\ read.uid = entries[i].uid /\ entries[i] # NoEntry
          /\ {read.mac, read.wol} \subseteq vouched[i] \cup {Nothing}
      BY <2>1 DEF Read
    <3>3. entries[i].mac \in vouched[i] \cup {Nothing}
      BY <2>2, <3>2 DEF Inv, VouchInv
    <3>4. e.uid \in UniqueIds
      BY <2>2, <3>1 DEF Entries
    <3>5. e # NoEntry
      BY <3>4, DiscoveryAssumption DEF NoEntry
    <3>6. /\ entries'[i] = e /\ told'[i] = told[i] \cup ScopedIds(c)
          /\ \A j \in Slots \ {i} : UNCHANGED <<entries[j], told[j]>>
      BY <1>0, <2>2, <2>6 DEF TypeOK
    <3>7. born[i] # {} => told'[i] \subseteq born[i]
      <4>1. SUFFICES ASSUME born[i] # {} PROVE told'[i] \subseteq born[i]
        OBVIOUS
      <4>2. entries[i].uid \in SystemIds /\ born[i] = {entries[i].uid} /\ told[i] \subseteq born[i]
        BY <2>2, <4>1 DEF Inv, BornInv
      <4>3. ScopedIds(c) \subseteq {entries[i].uid}
        BY <2>6, <4>2 DEF EntryMatchesValidatedDevice, LegacyMatch, ScopedIds, SystemIds
      <4> QED BY <3>6, <4>2, <4>3
    <3>8. \A j \in Slots : stage'[j] = "idle" \/ entries[j] # NoEntry
      BY <1>0, <2>6 DEF Saved, TypeOK, Inv, Started
    <3>9. \A j \in Slots : entries[j] # NoEntry =>
              /\ {entries[j].mac, entries[j].wol} \subseteq vouched[j] \cup {Nothing}
              /\ born[j] # {} => told[j] \subseteq born[j]
      BY DEF Inv, VouchInv, BornInv
    <3>. HIDE DEF e, i, h, read
    <3>10. \A j \in Slots : entries[j] # NoEntry =>
              /\ entries'[j].uid = entries[j].uid
              /\ {entries'[j].mac, entries'[j].wol} \subseteq vouched'[j] \cup {Nothing}
              /\ born[j] # {} => told'[j] \subseteq born[j]
      BY <2>2, <2>4, <3>1, <3>2, <3>3, <3>6, <3>7, <3>9
    <3>11. \A j \in Slots : entries'[j] # NoEntry <=> entries[j] # NoEntry
      BY <3>2, <3>5, <3>6
    <3> QED BY <2>3, <2>4, <3>8, <3>10, <3>11, GentleStep DEF Goal
  <2> QED BY <1>10, <2>5, <2>6 DEF Reconfigured
<1>11. ASSUME NEW f \in Flows, NEW i \in Slots, NEW wol \in MaybeMac, FeaturesChosen(f, i, wol)
       PROVE  Goal
  BY <1>11, ChosenKeeps DEF Goal
<1>12. ASSUME NEW f \in Flows, NEW i \in Slots, NEW h \in Hosts, ReconfigureSubmitted(f, i, h)
       PROVE  Goal
  <2>. DEFINE form == [step |-> "reconfigure", slot |-> i, host |-> h, read |-> entries[i]]
  <2>1. entries[i] # NoEntry /\ flows' = [flows EXCEPT ![f] = form]
        /\ UNCHANGED <<entries, stage, born, told, vouched>>
    BY <1>12 DEF ReconfigureSubmitted, Configured
  <2>2. /\ \A j \in Slots : stage[j] = "idle" \/ entries[j] # NoEntry
        /\ \A j \in Slots : entries[j] # NoEntry =>
              /\ {entries[j].mac, entries[j].wol} \subseteq vouched[j] \cup {Nothing}
              /\ born[j] # {} => told[j] \subseteq born[j]
    BY DEF Inv, Started, BornInv, VouchInv
  <2>3. form.step = "reconfigure" /\ form.slot = i /\ form.read = entries[i]
    OBVIOUS
  <2>. HIDE DEF form
  <2>4. \A g \in Flows : flows'[g] = flows[g] \/ flows'[g] = form
    BY <1>0, <2>1 DEF TypeOK
  <2>5. Read(form, entries, vouched)
    BY <2>1, <2>2, <2>3 DEF Read
  <2> QED BY <2>1, <2>2, <2>3, <2>4, <2>5, GentleStep DEF Goal
<1>13. ASSUME NEW i \in Slots, SetUpBegins(i) PROVE Goal
  <2>. DEFINE e == Backfilled(entries[i], entries[i].wol)
  <2>1. entries[i] \in Entries /\ entries[i] # NoEntry
    BY <1>0, <1>13 DEF SetUpBegins, Configured, TypeOK
  <2>2. /\ entries' = [entries EXCEPT ![i] = e]
        /\ stage' = [stage EXCEPT ![i] = "refreshing"]
        /\ UNCHANGED <<born, told, vouched>>
        /\ AbortsMatchingCards(entries'[i])
    BY <1>13 DEF SetUpBegins
  <2>3. /\ e.uid = entries[i].uid /\ e.wol = entries[i].wol
        /\ e.mac \in {entries[i].mac, entries[i].wol}
        /\ e.uid \in UniqueIds
    BY <2>1 DEF Backfilled, Entries
  <2>4. e # NoEntry
    BY <2>3, DiscoveryAssumption DEF NoEntry
  <2>. HIDE DEF e
  <2>5. entries'[i] = e /\ \A j \in Slots \ {i} : UNCHANGED <<entries[j], stage[j]>>
    BY <1>0, <2>2 DEF TypeOK
  <2>6. /\ \A j \in Slots : stage[j] = "idle" \/ entries[j] # NoEntry
        /\ \A j \in Slots : entries[j] # NoEntry =>
              /\ {entries[j].mac, entries[j].wol} \subseteq vouched[j] \cup {Nothing}
              /\ born[j] # {} => told[j] \subseteq born[j]
    BY DEF Inv, Started, BornInv, VouchInv
  <2>7. \A g \in Flows : flows'[g] = flows[g] \/ flows'[g].step = "over"
    BY <1>0, <2>2, AbortTypes
  <2>8. \A j \in Slots : entries[j] # NoEntry =>
            /\ entries'[j].uid = entries[j].uid
            /\ {entries'[j].mac, entries'[j].wol} \subseteq vouched'[j] \cup {Nothing}
            /\ born[j] # {} => told'[j] \subseteq born[j]
    BY <2>1, <2>2, <2>3, <2>5, <2>6
  <2>9. \A j \in Slots : /\ entries'[j] # NoEntry <=> entries[j] # NoEntry
                         /\ stage'[j] = "idle" \/ entries[j] # NoEntry
    BY <2>1, <2>4, <2>5, <2>6
  <2> QED BY <2>2, <2>7, <2>8, <2>9, GentleStep DEF Goal
<1>14. ASSUME NEW i \in Slots, SetUpUnanswered(i) PROVE Goal
  <2>1. entries[i] # NoEntry
    BY <1>14 DEF SetUpUnanswered, Inv, Started
  <2>2. UNCHANGED <<entries, born, told, vouched>>
    BY <1>14 DEF SetUpUnanswered
  <2>3. \A j \in Slots \ {i} : stage'[j] = stage[j]
    BY <1>0, <1>14 DEF SetUpUnanswered, TypeOK
  <2>4. \A g \in Flows : flows'[g] = flows[g] \/ flows'[g].step = "over"
    BY <1>0, <1>14, AbortTypes DEF SetUpUnanswered
  <2> QED BY <2>1, <2>2, <2>3, <2>4, EntriesStay DEF Goal
<1>15. ASSUME NEW i \in Slots, NEW c \in Consoles, SetUpAnswered(i, c) PROVE Goal
  <2>. DEFINE mac == SystemMac[c]
              e == Refreshed(Backfilled(entries[i], mac), mac)
  <2>1. entries[i] # NoEntry
    BY <1>15 DEF SetUpAnswered, Inv, Started
  <2>2. /\ entries' = [entries EXCEPT ![i] = e]
        /\ stage' = [stage EXCEPT ![i] = "loaded"]
        /\ vouched' = [vouched EXCEPT ![i] = @ \cup ({mac} \ {Nothing})]
        /\ UNCHANGED <<born, told>>
        /\ AbortsMatchingCards(entries'[i])
    BY <1>15 DEF SetUpAnswered
  <2>3. /\ e.uid = entries[i].uid /\ e.wol = entries[i].wol
        /\ e.mac \in {entries[i].mac, mac}
        /\ e.uid \in UniqueIds
    <3>1. entries[i] \in Entries
      BY <1>0, <2>1 DEF TypeOK
    <3> QED BY <3>1 DEF Refreshed, Backfilled, Entries
  <2>4. e # NoEntry
    BY <2>3, DiscoveryAssumption DEF NoEntry
  <2>. HIDE DEF e, mac
  <2>5. /\ entries'[i] = e /\ vouched'[i] = vouched[i] \cup ({mac} \ {Nothing})
        /\ \A j \in Slots \ {i} : UNCHANGED <<entries[j], stage[j], vouched[j]>>
    BY <1>0, <2>2 DEF TypeOK
  <2>6. /\ \A j \in Slots : stage[j] = "idle" \/ entries[j] # NoEntry
        /\ \A j \in Slots : entries[j] # NoEntry =>
              /\ {entries[j].mac, entries[j].wol} \subseteq vouched[j] \cup {Nothing}
              /\ born[j] # {} => told[j] \subseteq born[j]
    BY DEF Inv, Started, BornInv, VouchInv
  <2>7. \A g \in Flows : flows'[g] = flows[g] \/ flows'[g].step = "over"
    BY <1>0, <2>2, AbortTypes
  <2>8. \A j \in Slots : entries[j] # NoEntry =>
            /\ entries'[j].uid = entries[j].uid
            /\ {entries'[j].mac, entries'[j].wol} \subseteq vouched'[j] \cup {Nothing}
            /\ born[j] # {} => told'[j] \subseteq born[j]
    BY <2>1, <2>2, <2>3, <2>5, <2>6
  <2>9. \A j \in Slots : /\ entries'[j] # NoEntry <=> entries[j] # NoEntry
                         /\ stage'[j] = "idle" \/ entries[j] # NoEntry
                         /\ vouched[j] \subseteq vouched'[j]
    BY <2>1, <2>4, <2>5, <2>6
  <2> QED BY <2>2, <2>7, <2>8, <2>9, GentleStep DEF Goal
<1>16. ASSUME NEW i \in Slots, CleansUp(i) PROVE Goal
  <2>1. \A g \in Flows : flows'[g] = flows[g] \/ flows'[g].step = "over"
    BY <1>0, <1>16, AbortTypes DEF CleansUp
  <2> QED BY <1>16, <2>1, EntriesStay DEF CleansUp, Goal
<1>17. ASSUME NEW i \in Slots, Unloaded(i) PROVE Goal
  <2>1. \A j \in Slots : stage'[j] \in {"idle", stage[j]}
    BY <1>0, <1>17 DEF Unloaded, TypeOK
  <2> QED BY <1>17, <2>1, EntriesStay DEF Unloaded, Goal
<1>18. ASSUME scan # NoScan, NEW o \in scan.left, ScanFilters(o) PROVE Goal
  <2>1. o \in Observations /\ Records(o) /\ UNCHANGED <<stage, flows>>
    BY <1>0, <1>18 DEF TypeOK, Scans, ScanFilters
  <2>2. /\ \A i \in Slots : stage'[i] = "idle" \/ entries[i] # NoEntry
        /\ \A i \in Slots : born[i] # {} => told[i] \subseteq born[i]
    BY <2>1 DEF Inv, Started, BornInv
  <2> QED BY <2>1, <2>2, RecordsKeep, GentleStep DEF Goal
<1>19. ASSUME scan # NoScan, ScanEnds PROVE Goal
  <2>1. scan \in Scans
    BY <1>0, <1>19 DEF TypeOK
  <2>2. \A g \in Flows : flows'[g] = flows[g] \/ flows'[g].step \in {"connection", "select"}
    <3>1. CASE ConnectionForm(scan.flow, FALSE, Nothing, NoDevice)
      BY <1>0, <2>1, <3>1, FormTypes DEF Scans
    <3>2. CASE flows' = [flows EXCEPT ![scan.flow] = [step |-> "select", found |-> scan.found]]
      BY <1>0, <2>1, <3>2 DEF TypeOK
    <3> QED BY <1>19, <3>1, <3>2 DEF ScanEnds
  <2> QED BY <1>19, <2>2, EntriesStay DEF ScanEnds, Goal
<1>20. CASE UNCHANGED vars
  BY <1>20, EntriesStay DEF vars, Goal
<1> QED
  BY <1>1, <1>2, <1>3, <1>4, <1>5, <1>6, <1>7, <1>8, <1>9, <1>10, <1>11, <1>12, <1>13,
     <1>14, <1>15, <1>16, <1>17, <1>18, <1>19, <1>20, StepKinds

\* Entries stay, and keep a MAC address if they have one.
LEMMA TrustKept ==
    ASSUME TrustInv, UNCHANGED trusted,
           \A i \in Slots : entries[i] # NoEntry /\ entries[i].mac # Nothing =>
                                entries'[i] # NoEntry /\ entries'[i].mac # Nothing
    PROVE  TrustInv'
BY DEF TrustInv

\* An announcement is taken on trust only by an entry without a MAC address.
LEMMA TrustRecords ==
    ASSUME TypeOK, TrustInv, NEW o \in Observations, Records(o)
    PROVE  TrustInv'
<1> SUFFICES ASSUME NEW i \in Slots
             PROVE  /\ trusted'[i] # {} => entries'[i] # NoEntry /\ entries'[i].mac # Nothing
                    /\ \A m, n \in trusted'[i] : m = n
  BY DEF TrustInv
<1>1. CASE i \notin FirstMatch(o)
  <2>1. UNCHANGED <<entries[i], trusted[i]>>
    BY <1>1 DEF Records, TypeOK
  <2> QED BY <2>1 DEF TrustInv
<1>2. CASE i \in FirstMatch(o)
  <2>1. entries[i] \in Entries /\ entries[i] # NoEntry
    BY <1>2 DEF FirstMatch, Matches, Configured, TypeOK
  <2>2. /\ entries'[i] = Observed(entries[i], o)
        /\ trusted'[i] = trusted[i] \cup
                           (IF MacKeys(entries[i]) = {} THEN {o.mac} \ {Nothing} ELSE {})
    BY <1>2 DEF Records
  <2>3. /\ entries'[i].uid = entries[i].uid
        /\ entries'[i].mac = IF o.mac # Nothing THEN o.mac ELSE entries[i].mac
    BY <2>1, <2>2 DEF Observed, Entries
  <2>4. entries'[i] # NoEntry
    BY <2>1, <2>3, DiscoveryAssumption DEF NoEntry, Entries
  <2>5. entries[i].mac # Nothing => entries'[i].mac # Nothing
    BY <2>3
  <2>6. CASE trusted'[i] = trusted[i]
    BY <2>4, <2>5, <2>6 DEF TrustInv
  <2>7. CASE trusted'[i] # trusted[i]
    <3>1. MacKeys(entries[i]) = {} /\ o.mac # Nothing
      BY <2>2, <2>7
    <3>2. entries[i].mac = Nothing
      BY <2>1, <3>1 DEF MacKeys, Entries, MaybeMac
    <3>3. trusted[i] = {}
      BY <3>2 DEF TrustInv
    <3> QED BY <2>2, <2>3, <2>4, <3>1, <3>3
  <2> QED BY <2>6, <2>7
<1> QED BY <1>1, <1>2

LEMMA TrustStep == Inv /\ [Next]_vars => TrustInv'
<1> SUFFICES ASSUME Inv, [Next]_vars PROVE TrustInv'
  OBVIOUS
<1>. USE DEF network, history
<1>0. TypeOK /\ TrustInv
  BY DEF Inv
<1>a. ASSUME UNCHANGED <<entries, trusted>> PROVE TrustInv'
  BY <1>0, <1>a, TrustKept
<1>b. ASSUME NEW i \in Slots, NEW e, entries' = [entries EXCEPT ![i] = e], UNCHANGED trusted,
             entries[i] # NoEntry /\ entries[i].mac # Nothing => e # NoEntry /\ e.mac # Nothing
      PROVE  TrustInv'
  <2>1. \A j \in Slots : entries'[j] = IF j = i THEN e ELSE entries[j]
    BY <1>0, <1>b DEF TypeOK
  <2>2. \A j \in Slots : entries[j] # NoEntry /\ entries[j].mac # Nothing =>
                             entries'[j] # NoEntry /\ entries'[j].mac # Nothing
    BY <1>b, <2>1
  <2> QED BY <1>0, <1>b, <2>2, TrustKept
<1>c. \A e \in Entries : e # NoEntry
  BY DiscoveryAssumption DEF Entries, NoEntry
<1>1. ASSUME NEW h \in Hosts, NEW c \in Consoles, Moves(h, c) PROVE TrustInv'
  BY <1>a, <1>1 DEF Moves
<1>2. ASSUME NEW c \in Consoles, Upgrades(c) PROVE TrustInv'
  BY <1>a, <1>2 DEF Upgrades
<1>3. ASSUME NEW i \in Slots, NEW m \in MaybeMac, WolEdited(i, m) PROVE TrustInv'
  <2>. DEFINE e == [entries[i] EXCEPT !.wol = m]
  <2>1. entries[i] \in Entries /\ entries' = [entries EXCEPT ![i] = e] /\ UNCHANGED trusted
    BY <1>0, <1>3 DEF WolEdited, Configured, TypeOK
  <2>2. e \in Entries /\ e.mac = entries[i].mac
    BY <2>1 DEF Entries
  <2>3. e # NoEntry
    BY <1>c, <2>2
  <2>. HIDE DEF e
  <2> QED BY <1>b, <2>1, <2>2, <2>3
<1>4. ASSUME NEW f \in Flows, NEW found \in ScanResults, UserStarts(f, found) PROVE TrustInv'
  BY <1>a, <1>4 DEF UserStarts
<1>5. ASSUME NEW f \in Flows, NEW c \in Consoles, NEW o \in Announced(c), Zeroconf(f, o)
      PROVE  TrustInv'
  BY <1>0, <1>5, AnnouncedType, TrustRecords DEF Zeroconf
<1>6. ASSUME NEW f \in Flows, NEW o \in flows[f].found \cup {NoDevice}, UserSelects(f, o)
      PROVE  TrustInv'
  BY <1>a, <1>6 DEF UserSelects
<1>7. ASSUME NEW f \in Flows, NEW h \in Hosts, Submits(f, h) PROVE TrustInv'
  BY <1>a, <1>7 DEF Submits
<1>8. ASSUME NEW f \in Flows, ValidationFails(f) PROVE TrustInv'
  BY <1>a, <1>8 DEF ValidationFails
<1>9. ASSUME NEW f \in Flows, NEW c \in Consoles, Validated(f, c) PROVE TrustInv'
  BY <1>a, <1>9 DEF Validated
<1>10. ASSUME NEW f \in Flows, NEW c \in Consoles, Reconfigured(f, c) PROVE TrustInv'
  <2>1. flows[f] \in Reconfiguring /\ Read(flows[f], entries, vouched)
    BY <1>0, <1>10, FlowKinds DEF Reconfigured, Inv, FlowInv
  <2>. DEFINE i == flows[f].slot
              h == flows[f].host
              read == flows[f].read
              e == Overlaid(entries[i], read, h)
  <2>2. i \in Slots /\ h \in Hosts /\ read \in Entries /\ entries[i] \in Entries
    BY <1>0, <2>1 DEF Reconfiguring, Read, TypeOK
  <2>3. UNCHANGED trusted /\ (UNCHANGED entries \/ entries' = [entries EXCEPT ![i] = e])
    BY <1>10 DEF Reconfigured
  <2>4. e \in Entries /\ (entries[i].mac # Nothing => e.mac # Nothing)
    BY <2>2 DEF Overlaid, Entries
  <2>5. e # NoEntry
    BY <1>c, <2>4
  <2>. HIDE DEF e, i
  <2> QED BY <1>a, <1>b, <2>2, <2>3, <2>4, <2>5
<1>11. ASSUME NEW f \in Flows, NEW i \in Slots, NEW wol \in MaybeMac, FeaturesChosen(f, i, wol)
       PROVE  TrustInv'
  <2>1. i \in Int /\ ~(i < i)
    BY DiscoveryAssumption DEF Slots
  <2>2. \A j \in Slots : j \in Configured <=> j < i
    BY <1>11 DEF FeaturesChosen
  <2>3. entries[i] = NoEntry
    BY <2>1, <2>2 DEF Configured
  <2> QED BY <1>11, <1>b, <2>3 DEF FeaturesChosen
<1>12. ASSUME NEW f \in Flows, NEW i \in Slots, NEW h \in Hosts, ReconfigureSubmitted(f, i, h)
       PROVE  TrustInv'
  BY <1>a, <1>12 DEF ReconfigureSubmitted
<1>13. ASSUME NEW i \in Slots, SetUpBegins(i) PROVE TrustInv'
  <2>. DEFINE e == Backfilled(entries[i], entries[i].wol)
  <2>1. entries[i] \in Entries /\ entries' = [entries EXCEPT ![i] = e] /\ UNCHANGED trusted
    BY <1>0, <1>13 DEF SetUpBegins, Configured, TypeOK
  <2>2. e \in Entries /\ (entries[i].mac # Nothing => e.mac # Nothing)
    BY <2>1 DEF Backfilled, Entries
  <2>3. e # NoEntry
    BY <1>c, <2>2
  <2>. HIDE DEF e
  <2> QED BY <1>b, <2>1, <2>2, <2>3
<1>14. ASSUME NEW i \in Slots, SetUpUnanswered(i) PROVE TrustInv'
  BY <1>a, <1>14 DEF SetUpUnanswered
<1>15. ASSUME NEW i \in Slots, NEW c \in Consoles, SetUpAnswered(i, c) PROVE TrustInv'
  <2>. DEFINE mac == SystemMac[c]
              e == Refreshed(Backfilled(entries[i], mac), mac)
  <2>1. /\ entries[i] \in Entries
        /\ entries' = [entries EXCEPT ![i] = e] /\ UNCHANGED trusted
    BY <1>0, <1>15 DEF SetUpAnswered, Inv, Started, TypeOK
  <2>2. mac \in MaybeMac
    BY DiscoveryAssumption
  <2>3. e \in Entries /\ (entries[i].mac # Nothing => e.mac # Nothing)
    BY <2>1, <2>2 DEF Refreshed, Backfilled, Entries
  <2>4. e # NoEntry
    BY <1>c, <2>3
  <2>. HIDE DEF e
  <2> QED BY <1>b, <2>1, <2>3, <2>4
<1>16. ASSUME NEW i \in Slots, CleansUp(i) PROVE TrustInv'
  BY <1>a, <1>16 DEF CleansUp
<1>17. ASSUME NEW i \in Slots, Unloaded(i) PROVE TrustInv'
  BY <1>a, <1>17 DEF Unloaded
<1>18. ASSUME scan # NoScan, NEW o \in scan.left, ScanFilters(o) PROVE TrustInv'
  <2>1. o \in Observations /\ Records(o)
    BY <1>0, <1>18 DEF TypeOK, Scans, ScanFilters
  <2> QED BY <1>0, <2>1, TrustRecords
<1>19. ASSUME scan # NoScan, ScanEnds PROVE TrustInv'
  BY <1>a, <1>19 DEF ScanEnds
<1>20. CASE UNCHANGED vars
  BY <1>a, <1>20 DEF vars
<1> QED
  BY <1>1, <1>2, <1>3, <1>4, <1>5, <1>6, <1>7, <1>8, <1>9, <1>10, <1>11, <1>12, <1>13,
     <1>14, <1>15, <1>16, <1>17, <1>18, <1>19, <1>20, StepKinds

\* The inductive invariant: what flows, scans and entries know of a console
\* agrees with what it told (config_flow.py, discovery/__init__.py).
THEOREM InvHolds == Spec => []Inv
<1>1. Init => Inv
  BY TypeInitial, PartsInitial DEF Inv, Init, TrustInv
<1>2. Inv /\ [Next]_vars => Inv'
  BY TypeStep, PartsStep, TrustStep DEF Inv
<1> QED BY <1>1, <1>2, PTL DEF Spec

(***************************************************************************)
(* The theorems.                                                           *)
(***************************************************************************)

\* Entries, flows, scans and histories keep their types.
THEOREM TypeCorrect == Spec => []TypeOK
<1>1. Inv => TypeOK
  BY DEF Inv
<1> QED BY <1>1, InvHolds, PTL

\* However many flows run and however they began, no console that gives its id
\* gets two entries (config_flow.py, config_flow_validation.py).
THEOREM OneEntryEach == Spec => []ConfiguredOnce
<1>1. Inv => ConfiguredOnce
  BY DEF Inv
<1> QED BY <1>1, InvHolds, PTL

\* Whatever answers at an address between the form and its validation, a
\* reconfiguration saves only connections to the entry's own console
\* (config_flow_identity.py).
THEOREM ItsConsole == Spec => []AlwaysItsConsole
<1>1. Inv => AlwaysItsConsole
  BY DEF Inv, BornInv, AlwaysItsConsole, Configured
<1> QED BY <1>1, InvHolds, PTL

\* An entry has its MAC address from the user, the system it connected to, the
\* device it was added as, or the one announcement that it took on trust while
\* it had none; it takes no second one on trust, whoever turns up at its hosts
\* (discovery/__init__.py, discovery/identity.py).
THEOREM MacsAreVouched == Spec => []MacsVouchedFor
<1>1. Inv => MacsVouchedFor
  BY DEF Inv, VouchInv, TrustInv, MacsVouchedFor, Configured
<1> QED BY <1>1, InvHolds, PTL
=============================================================================
