--------------------------- MODULE DiscoveryIdentity ---------------------------
(***************************************************************************)
(* Which console is which: discovery, the set-up flows and the identity    *)
(* kept in each config entry (discovery/, config_flow.py,                  *)
(* config_flow_identity.py, config_flow_validation.py, __init__.py).       *)
(*                                                                         *)
(* A console answers at hosts, and DHCP or DNS may give a host to another  *)
(* console.  It announces hosts and perhaps a MAC address; only when a     *)
(* flow or a set-up connects to a host does the console say who it is.     *)
(* Several flows run at once, each waiting for the user or for an answer   *)
(* between two looks at the entries.  A flow that the user gives up stays  *)
(* where it is.                                                            *)
(***************************************************************************)
EXTENDS Integers, FiniteSetsExt

CONSTANTS Consoles,
          Hosts,       \* addresses and names, as `discovery_host_key` has them
          Macs,        \* as `discovery_mac_key` has them
          Owner,       \* the console of each MAC address
          SystemMac,   \* the MAC address in a console's system data, or Nothing
          Kinds,       \* what each console may at first say of itself to a client
          Flows,       \* the flows, each of which starts at most once
          MaxEntries,
          MaxEvents,   \* bound on changes of the network, the options, and reloads
          MaxFound,    \* bound on the devices that one scan finds
          Garbled,     \* stands for a MAC address that does not parse
          Nothing      \* stands for None

Slots == 1 .. MaxEntries
MaybeMac == Macs \cup {Nothing}

\* Kinds of unique id: from the system data, from the login, a MAC, host:port.
UniqueIds == ({"system", "account"} \X Consoles) \cup ({"mac"} \X Macs)
                \cup ({"host"} \X Hosts)

ASSUME DiscoveryAssumption ==
    /\ Owner \in [Macs -> Consoles]
    /\ SystemMac \in [Consoles -> MaybeMac]
    /\ \A c \in Consoles : SystemMac[c] # Nothing => Owner[SystemMac[c]] = c
    /\ Kinds \in [Consoles -> SUBSET {"system", "account", "little"}]
    /\ Nothing \notin Macs \cup Consoles \cup UniqueIds
    /\ Garbled \notin MaybeMac
    /\ MaxEntries \in Nat /\ MaxEvents \in Nat /\ MaxFound \in Nat

VARIABLES
    at,       \* the console at each host, whether it answers or not
    says,     \* what each console says of itself to a client
    events,   \* changes of the network and the options, and reloads, so far
    entries,  \* the config entries, in Home Assistant's order
    stage,    \* how far the set-up of each entry is
    client,   \* the host of the client that it has built
    flows,    \* the flows
    scan,     \* the scan whose results are being filtered, or NoScan
    born,     \* history: the device-scoped ids an entry was created with
    told,     \* history: those of every connection saved in it
    vouched,  \* history: the MAC addresses for which an entry has a source
    trusted   \* history: those taken from an announcement when it had none

network == <<at, says, events>>
history == <<born, told, vouched, trusted>>
vars == <<network, entries, stage, client, flows, scan, history>>

(***************************************************************************)
(* Identities.                                                             *)
(***************************************************************************)

Observations == [host : Hosts, hosts : SUBSET Hosts, mac : MaybeMac]
NoDevice == [host |-> Nothing, hosts |-> {}, mac |-> Nothing]

Entries == [uid : UniqueIds, host : Hosts, wol : MaybeMac, mac : MaybeMac,
            aliases : SUBSET Hosts]
NoEntry == [uid |-> Nothing]

HostKeys(e) == {e.host} \cup e.aliases
                  \cup {h \in Hosts : e.uid = <<"host", h>>}
MacKeys(e) == {m \in Macs : m \in {e.mac, e.wol} \/ e.uid = <<"mac", m>>}

\* Mutant: a MAC address is taken as it is announced.
RawHardwareAddress(advertised, derived) ==
    IF advertised # Nothing THEN advertised ELSE derived

\* `_zeroconf_hw_addr`, and the scan's `hw_addr` with nothing to derive from.
HardwareAddress(advertised, derived) ==
    IF advertised \in Macs THEN advertised ELSE derived

\* What console `c` may announce now.
Announced(c) ==
    LET own == {m \in Macs : Owner[m] = c}
    IN  {[host  |-> h, hosts |-> {h} \cup names,
          mac |-> HardwareAddress(advertised, derived)] :
            h \in {g \in Hosts : at[g] = c},
            names \in SUBSET {g \in Hosts : at[g] = c},
            advertised \in own \cup {Nothing, Garbled},
            derived \in own \cup {Nothing}}

ZeroconfUniqueId(o) ==
    IF o.mac # Nothing THEN <<"mac", o.mac>> ELSE <<"host", o.host>>

\* `device_key`, by which a scan drops a second record of a device.
DeviceKey(o) == ZeroconfUniqueId(o)

\* `device_scoped_unique_ids` of a client connected to `c`.
ScopedIds(c) == IF says[c] = "system" THEN {<<"system", c>>} ELSE {}

\* `unique_id` of `_entry_info` for a connection to `c` at `h`.
ConnectionUniqueId(c, h) ==
    IF says[c] \in {"system", "account"} THEN <<says[c], c>>
    ELSE IF SystemMac[c] # Nothing THEN <<"mac", SystemMac[c]>>
    ELSE <<"host", h>>

(***************************************************************************)
(* Types and initial states.                                               *)
(***************************************************************************)

NoFlow == [step |-> "none"]
Over == [step |-> "over"]
Selecting == [step : {"select"}, found : SUBSET Observations]
Connecting == [step : {"connection"}, card : BOOLEAN,
               uid : UniqueIds \cup {Nothing},
               device : Observations \cup {NoDevice}]
Validating == [step : {"validating"}, card : BOOLEAN,
               uid : UniqueIds \cup {Nothing},
               device : Observations \cup {NoDevice}, host : Hosts]
Choosing == [step : {"features"}, card : BOOLEAN, uid : UniqueIds,
             device : Observations \cup {NoDevice},
             data : Entries, scoped : SUBSET UniqueIds]
Reconfiguring == [step : {"reconfigure"}, slot : Slots, host : Hosts,
                  read : Entries]
FlowStates == {NoFlow, Over} \cup Selecting \cup Connecting \cup Validating
                 \cup Choosing \cup Reconfiguring

NoScan == [flow |-> Nothing]
Scans == [flow : Flows, left : SUBSET Observations, found : SUBSET Observations]

TypeOK ==
    /\ at \in [Hosts -> Consoles]
    /\ says \in [Consoles -> {"system", "account", "little"}]
    /\ events \in 0 .. MaxEvents
    /\ entries \in [Slots -> Entries \cup {NoEntry}]
    /\ stage \in [Slots -> {"idle", "refreshing", "loaded"}]
    /\ client \in [Slots -> Hosts \cup {Nothing}]
    /\ flows \in [Flows -> FlowStates]
    /\ scan \in Scans \cup {NoScan}
    /\ born \in [Slots -> SUBSET UniqueIds]
    /\ told \in [Slots -> SUBSET UniqueIds]
    /\ vouched \in [Slots -> SUBSET Macs]
    /\ trusted \in [Slots -> SUBSET Macs]

\* An entry of an earlier version: no metadata and the connection as its id.
Legacy(h) == [uid |-> <<"host", h>>, host |-> h, wol |-> Nothing,
              mac |-> Nothing, aliases |-> {}]

Init ==
    /\ at \in [Hosts -> Consoles]
    /\ says \in [Consoles -> {"system", "account", "little"}]
    /\ \A c \in Consoles : says[c] \in Kinds[c]
    /\ events = 0
    /\ \E old \in {NoEntry} \cup {Legacy(h) : h \in Hosts} :
         entries = [i \in Slots |-> IF i = 1 THEN old ELSE NoEntry]
    /\ stage = [i \in Slots |-> "idle"]
    /\ client = [i \in Slots |-> Nothing]
    /\ flows = [f \in Flows |-> NoFlow]
    /\ scan = NoScan
    /\ born = [i \in Slots |-> {}]
    /\ told = [i \in Slots |-> {}]
    /\ vouched = [i \in Slots |-> {}]
    /\ trusted = [i \in Slots |-> {}]

Configured == {i \in Slots : entries[i] # NoEntry}

(***************************************************************************)
(* The network and the user's options.                                     *)
(***************************************************************************)

Event == events < MaxEvents /\ events' = events + 1

Moves(h, c) ==
    /\ Event
    /\ at[h] # c
    /\ at' = [at EXCEPT ![h] = c]
    /\ UNCHANGED <<says, entries, stage, client, flows, scan, history>>

\* A firmware update: the console's system data now has an id.
Upgrades(c) ==
    /\ Event
    /\ says[c] # "system"
    /\ says' = [says EXCEPT ![c] = "system"]
    /\ UNCHANGED <<at, entries, stage, client, flows, scan, history>>

\* A loaded entry reloads after its settings are saved.
Saved(i) ==
    stage' = [stage EXCEPT ![i] = IF @ = "loaded" THEN "idle" ELSE @]

\* The options form saves another Wake-on-LAN address.
WolEdited(i, m) ==
    /\ Event
    /\ i \in Configured
    /\ m # entries[i].wol
    /\ entries' = [entries EXCEPT ![i].wol = m]
    /\ Saved(i)
    /\ vouched' = [vouched EXCEPT ![i] = @ \cup ({m} \ {Nothing})]
    /\ UNCHANGED <<at, says, client, flows, scan, born, told, trusted>>

(***************************************************************************)
(* An announcement meets the entries.                                      *)
(***************************************************************************)

\* Mutant: the hosts decide, whatever the MAC addresses are.
NeverContradicts(e, o) == FALSE

\* The device has another MAC address than the entry.
Contradicts(e, o) ==
    /\ o.mac # Nothing
    /\ MacKeys(e) # {}
    /\ o.mac \notin MacKeys(e)

Resembles(e, o) ==
    \/ e.uid = ZeroconfUniqueId(o)
    \/ HostKeys(e) \cap o.hosts # {}
    \/ o.mac \in MacKeys(e)

\* `apply_discovery_identity_defaults` to an entry.
Observed(e, o) ==
    [e EXCEPT !.mac = IF o.mac # Nothing THEN o.mac ELSE @,
              !.aliases = @ \cup o.hosts \cup {e.host}]

\* The entries with which `_discovered_device_already_configured` decides:
\* those up to the first that resembles the device and does not contradict it.
Matches(o) == {i \in Configured :
                  Resembles(entries[i], o) /\ ~Contradicts(entries[i], o)}
FirstMatch(o) == {i \in Matches(o) : \A j \in Matches(o) : i <= j}
AlreadyConfigured(o) == Matches(o) # {}

\* What it records.  In an entry that the device contradicts that is a source,
\* a confidence, conflict codes and a time: nothing reads them but diagnostics.
Records(o) ==
    /\ entries' = [i \in Slots |->
          IF i \in FirstMatch(o) THEN Observed(entries[i], o) ELSE entries[i]]
    /\ LET taken == [i \in Slots |->
                       IF i \in FirstMatch(o) /\ MacKeys(entries[i]) = {}
                         THEN {o.mac} \ {Nothing} ELSE {}]
       IN  /\ vouched' = [i \in Slots |-> vouched[i] \cup taken[i]]
           /\ trusted' = [i \in Slots |-> trusted[i] \cup taken[i]]
    /\ UNCHANGED <<born, told>>

(***************************************************************************)
(* Flows.                                                                  *)
(***************************************************************************)

\* The flow shows its connection form, prefilled for device `o`.
ConnectionForm(f, card, uid, o) ==
    flows' = [flows EXCEPT ![f] = [step |-> "connection", card |-> card,
                                   uid |-> uid, device |-> o]]

Ends(f) == flows' = [flows EXCEPT ![f] = Over]

\* A flow's unique id, as Home Assistant sees it.
FlowUniqueId(f) ==
    IF flows[f].step \in {"connection", "validating", "features"}
      THEN flows[f].uid ELSE Nothing

\* `async_step_user` scans; a scan that fails finds nothing.
UserStarts(f, found) ==
    /\ flows[f].step = "none"
    /\ scan' = [flow |-> f, left |-> found, found |-> {}]
    /\ UNCHANGED <<network, entries, stage, client, flows, history>>

\* The next result of the scan meets the entries.
ScanFilters(o) ==
    /\ o \in scan.left
    /\ scan' = [scan EXCEPT !.left = @ \ {o},
                            !.found = IF AlreadyConfigured(o) THEN @ ELSE @ \cup {o}]
    /\ Records(o)
    /\ UNCHANGED <<network, stage, client, flows>>

ScanEnds ==
    /\ scan.left = {}
    /\ scan' = NoScan
    /\ IF scan.found = {}
         THEN ConnectionForm(scan.flow, FALSE, Nothing, NoDevice)
         ELSE flows' = [flows EXCEPT ![scan.flow] =
                          [step |-> "select", found |-> scan.found]]
    /\ UNCHANGED <<network, entries, stage, client, history>>

\* `async_step_discovery_select`: a device, or NoDevice to enter the host.
UserSelects(f, o) ==
    /\ flows[f].step = "select"
    /\ o \in flows[f].found \cup {NoDevice}
    /\ ConnectionForm(f, FALSE, Nothing, o)
    /\ UNCHANGED <<network, entries, stage, client, scan, history>>

\* `async_step_zeroconf`
Zeroconf(f, o) ==
    /\ flows[f].step = "none"
    /\ Records(o)
    /\ IF \/ AlreadyConfigured(o)
          \/ \E g \in Flows : FlowUniqueId(g) = ZeroconfUniqueId(o)
          \/ \E i \in Configured : entries[i].uid = ZeroconfUniqueId(o)
         THEN UNCHANGED flows
         ELSE ConnectionForm(f, TRUE, ZeroconfUniqueId(o), o)
    /\ UNCHANGED <<network, stage, client, scan>>

\* The user submits the connection form, with the host as prefilled or not.
Submits(f, h) ==
    /\ flows[f].step = "connection"
    /\ flows' = [flows EXCEPT ![f] =
          [step |-> "validating", card |-> flows[f].card, uid |-> flows[f].uid,
           device |-> flows[f].device, host |-> h]]
    /\ UNCHANGED <<network, entries, stage, client, scan, history>>

ValidationFails(f) ==
    /\ flows[f].step = "validating"
    /\ ConnectionForm(f, flows[f].card, flows[f].uid, flows[f].device)
    /\ UNCHANGED <<network, entries, stage, client, scan, history>>

\* `_entry_unique_id_matches_connection_fallback`
LegacyMatch(e, h) == e.uid = <<"host", h>> /\ e.host = h

\* `_any_unique_id_configured`, then `_abort_if_unique_id_configured`
AnyUniqueIdConfigured(c, h) ==
    \E i \in Configured :
        \/ entries[i].uid \in ScopedIds(c) \cup {ConnectionUniqueId(c, h)}
        \/ LegacyMatch(entries[i], h)

\* The entry's data after validation: what the announcement said comes before
\* what the system says, except for the Wake-on-LAN address.
ValidatedData(uid, c, h, o) ==
    LET wol == IF SystemMac[c] # Nothing THEN SystemMac[c] ELSE o.mac
    IN  [uid |-> uid, host |-> h, wol |-> wol,
         mac |-> IF o.mac # Nothing THEN o.mac ELSE wol,
         aliases |-> o.hosts \cup {h}]

\* Mutant: a card keeps the unique id it was announced with.
CardUniqueId(f, c) ==
    IF flows[f].card THEN flows[f].uid ELSE ConnectionUniqueId(c, flows[f].host)

\* The second `async_set_unique_id`, with what the system says.
ValidatedUniqueId(f, c) == ConnectionUniqueId(c, flows[f].host)

Validated(f, c) ==
    /\ flows[f].step = "validating"
    /\ c = at[flows[f].host]
    /\ IF AnyUniqueIdConfigured(c, flows[f].host)
         THEN Ends(f)
         ELSE flows' = [flows EXCEPT ![f] =
                [step |-> "features", card |-> flows[f].card,
                 uid |-> ValidatedUniqueId(f, c),
                 device |-> flows[f].device,
                 data |-> ValidatedData(ValidatedUniqueId(f, c), c,
                                       flows[f].host, flows[f].device),
                 scoped |-> ScopedIds(c)]]
    /\ UNCHANGED <<network, entries, stage, client, scan, history>>

\* Home Assistant adds the entry and aborts the flows with the same unique id.
FlowFinished(f) ==
    flows' = [g \in Flows |->
        IF g = f \/ FlowUniqueId(g) = flows[f].uid THEN Over ELSE flows[g]]

\* `async_step_features` with the prefilled Wake-on-LAN address or none.
FeaturesChosen(f, i, wol) ==
    /\ flows[f].step = "features"
    /\ \A j \in Slots : j \in Configured <=> j < i
    /\ wol \in {flows[f].data.wol, Nothing}
    /\ entries' = [entries EXCEPT ![i] = [flows[f].data EXCEPT !.wol = wol]]
    /\ FlowFinished(f)
    /\ born' = [born EXCEPT ![i] = flows[f].scoped]
    /\ told' = [told EXCEPT ![i] = flows[f].scoped]
    /\ vouched' = [vouched EXCEPT ![i] =
                     {flows[f].data.mac, flows[f].data.wol} \ {Nothing}]
    /\ UNCHANGED <<network, stage, client, scan, trusted>>

(***************************************************************************)
(* Reconfiguring the connection of an entry.                               *)
(***************************************************************************)

\* `async_step_reconfigure_connection` has the form's input; it has read the
\* entry and awaits the validation.
ReconfigureSubmitted(f, i, h) ==
    /\ flows[f].step = "none"
    /\ i \in Configured
    /\ flows' = [flows EXCEPT ![f] = [step |-> "reconfigure", slot |-> i,
                                      host |-> h, read |-> entries[i]]]
    /\ UNCHANGED <<network, entries, stage, client, scan, history>>

\* Mutant: an entry with the same connection matches, whoever answers.
MatchesConnection(e, c, h) ==
    e.host = h \/ e.uid = ConnectionUniqueId(c, h)

\* `_entry_matches_validated_device`
EntryMatchesValidatedDevice(e, c, h) ==
    \/ e.uid \in ScopedIds(c)
    \/ ScopedIds(c) = {} /\ e.uid = ConnectionUniqueId(c, h)
    \/ LegacyMatch(e, h)

\* What the form had read, where it had read something, over what is there.
Overlaid(e, read, h) ==
    [read EXCEPT !.host = h,
                 !.mac = IF @ = Nothing THEN e.mac ELSE @,
                 !.aliases = IF @ = {} THEN e.aliases ELSE @]

\* The answer: what was read before the await is saved with the new host, and
\* the entry reloads.  For another device the form shows an error instead.
Reconfigured(f, c) ==
    /\ flows[f].step = "reconfigure"
    /\ LET i == flows[f].slot
           h == flows[f].host
           read == flows[f].read
       IN  /\ c = at[h]
           /\ IF EntryMatchesValidatedDevice(entries[i], c, h)
                THEN /\ entries' = [entries EXCEPT ![i] =
                           Overlaid(entries[i], read, h)]
                     /\ told' = [told EXCEPT ![i] = @ \cup ScopedIds(c)]
                     /\ Saved(i)
                ELSE UNCHANGED <<entries, told, stage>>
    /\ Ends(f)
    /\ UNCHANGED <<network, client, scan, born, vouched, trusted>>

(***************************************************************************)
(* Set-up of an entry.                                                     *)
(***************************************************************************)

\* `entry_matches_discovery_flow_context`
CardMatches(e, o) ==
    \/ o.mac \in MacKeys(e)
    \/ HostKeys(e) \cap o.hosts # {}

\* `_async_abort_matching_discovery_flows` for the entry `e`
AbortsMatchingCards(e) ==
    flows' = [f \in Flows |->
        IF /\ flows[f].step \in {"connection", "validating", "features"}
           /\ flows[f].card
           /\ CardMatches(e, flows[f].device)
          THEN Over ELSE flows[f]]

\* `_async_backfill_discovery_mac`
Backfilled(e, mac) == [e EXCEPT !.mac = IF @ = Nothing THEN mac ELSE @]

SetUpBegins(i) ==
    /\ i \in Configured
    /\ stage[i] = "idle"
    /\ stage' = [stage EXCEPT ![i] = "refreshing"]
    /\ client' = [client EXCEPT ![i] = entries[i].host]
    /\ entries' = [entries EXCEPT ![i] = Backfilled(@, entries[i].wol)]
    /\ AbortsMatchingCards(entries'[i])
    /\ UNCHANGED <<network, scan, history>>

\* The storage read failed: without Wake-on-LAN the set-up is retried.
SetUpUnanswered(i) ==
    /\ stage[i] = "refreshing"
    /\ IF entries[i].wol # Nothing
         THEN /\ stage' = [stage EXCEPT ![i] = "loaded"]
              /\ AbortsMatchingCards(entries[i])
         ELSE /\ stage' = [stage EXCEPT ![i] = "idle"]
              /\ UNCHANGED flows
    /\ client' = [client EXCEPT ![i] = Nothing]
    /\ UNCHANGED <<network, entries, scan, history>>

\* `_async_record_validated_discovery_identity`
Refreshed(e, mac) ==
    IF mac = Nothing THEN e
    ELSE [e EXCEPT !.mac = mac, !.aliases = @ \cup {e.host}]

\* The console at the client's host accepts the client and answers.
SetUpAnswered(i, c) ==
    /\ stage[i] = "refreshing"
    /\ c = at[client[i]]
    /\ stage' = [stage EXCEPT ![i] = "loaded"]
    /\ entries' = [entries EXCEPT ![i] =
          Refreshed(Backfilled(@, SystemMac[c]), SystemMac[c])]
    /\ AbortsMatchingCards(entries'[i])
    /\ vouched' = [vouched EXCEPT ![i] = @ \cup ({SystemMac[c]} \ {Nothing})]
    /\ client' = [client EXCEPT ![i] = Nothing]
    /\ UNCHANGED <<network, scan, born, told, trusted>>

\* Shortly after the set-up, twice.
CleansUp(i) ==
    /\ stage[i] = "loaded"
    /\ AbortsMatchingCards(entries[i])
    /\ UNCHANGED <<network, entries, stage, client, scan, history>>

Unloaded(i) ==
    /\ Event
    /\ stage[i] = "loaded"
    /\ stage' = [stage EXCEPT ![i] = "idle"]
    /\ UNCHANGED <<at, says, entries, client, flows, scan, history>>

(***************************************************************************)
(* The specification.  A scan's results are filtered without an await.     *)
(***************************************************************************)

Waiting == scan = NoScan

NetworkStep ==
    \/ \E h \in Hosts, c \in Consoles : Moves(h, c)
    \/ \E c \in Consoles : Upgrades(c)
    \/ \E i \in Slots, m \in MaybeMac : WolEdited(i, m)

\* `discovered_unas_devices_from_scan`: no host and no device twice.
ScanResults ==
    {found \in UNION {kSubset(k, UNION {Announced(c) : c \in Consoles}) :
                     k \in 0 .. MaxFound} :
        \A o, p \in found :
            o # p => o.host # p.host /\ DeviceKey(o) # DeviceKey(p)}

FlowStep(f) ==
    \/ flows[f].step = "none"
         /\ \E found \in ScanResults : UserStarts(f, found)
    \/ flows[f].step = "none"
         /\ \E c \in Consoles : \E o \in Announced(c) : Zeroconf(f, o)
    \/ flows[f].step = "select"
         /\ \E o \in flows[f].found \cup {NoDevice} : UserSelects(f, o)
    \/ \E h \in Hosts : Submits(f, h)
    \/ ValidationFails(f)
    \/ \E c \in Consoles : Validated(f, c) \/ Reconfigured(f, c)
    \/ \E i \in Slots, wol \in MaybeMac : FeaturesChosen(f, i, wol)
    \/ \E i \in Slots, h \in Hosts : ReconfigureSubmitted(f, i, h)

SetUpStep(i) ==
    \/ SetUpBegins(i)
    \/ SetUpUnanswered(i)
    \/ \E c \in Consoles : SetUpAnswered(i, c)
    \/ CleansUp(i)
    \/ Unloaded(i)

Next ==
    \/ Waiting /\ NetworkStep
    \/ Waiting /\ \E f \in Flows : FlowStep(f)
    \/ Waiting /\ \E i \in Slots : SetUpStep(i)
    \/ ~Waiting /\ \E o \in scan.left : ScanFilters(o)
    \/ ~Waiting /\ ScanEnds

Spec == Init /\ [][Next]_vars

(***************************************************************************)
(* Properties.                                                             *)
(***************************************************************************)

\* No console that gives its id has two entries, however many flows were open
\* for it at once and under whatever unique ids they began (the two checks of
\* _async_step_connection_form, the second async_set_unique_id and the abort of
\* the flows with the same unique id by Home Assistant).
ConfiguredOnce ==
    \A i, j \in Configured : i # j => born[i] \cap born[j] = {}

\* Reconfiguring never gives an entry the address of another console than the
\* one it was set up with, whichever console has taken over an address between
\* the form and the answer (_entry_matches_validated_device).
AlwaysItsConsole ==
    \A i \in Configured : born[i] # {} => told[i] \subseteq born[i]

\* An entry carries only a MAC address from the user, the system it connected
\* to, the device it was added as, or an announcement that it met without any
\* MAC address.  That one is taken on trust, also from a stranger at the host of
\* an old entry, but only once: whoever turns up at its hosts afterwards does not
\* add another (_discovered_device_already_configured, which compares MACs
\* before it records; apply_discovery_identity_defaults).
MacsVouchedFor ==
    \A i \in Configured :
        /\ entries[i].mac \in vouched[i] \cup {Nothing}
        /\ \A m, n \in trusted[i] : m = n

\* "A host match with a different MAC should not hide a discovery card"
\* (tests/test_config_flow_helpers.py:1027): nor does the clean-up of the entry
\* whose address the other device has now (entry_matches_discovery_flow_context).
ConflictingCardStays ==
    [][\A f \in Flows, i \in Configured :
          /\ CleansUp(i)
          /\ flows[f].step = "connection" /\ flows[f].card
          /\ Contradicts(entries[i], flows[f].device)
          => flows'[f] = flows[f]]_vars

=============================================================================
