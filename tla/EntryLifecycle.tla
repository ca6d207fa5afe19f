---------------------------- MODULE EntryLifecycle ----------------------------
(***************************************************************************)
(* One config entry: what is saved in it, and what of it runs              *)
(* (__init__.py, entry_reload.py, entry_options.py, config_flow.py).       *)
(*                                                                         *)
(* Home Assistant sets the entry up, unloads it and reloads it, one of     *)
(* these at a time.  Meanwhile forms save settings and discovery saves     *)
(* metadata.  Every save runs the entry's update listener, if the entry    *)
(* has one, up to its first await; the listener asks for a reload when the *)
(* saved settings are not those it last heard of.  A form that validates a *)
(* connection awaits the device between reading the entry and saving it.   *)
(***************************************************************************)
EXTENDS Integers

CONSTANTS Profiles,    \* connections and credentials a user may enter
          Options,     \* feature options a user may choose
          WolOptions,  \* ... those with Wake-on-LAN and its MAC address
          Facts,       \* what discovery may record about the device
          Mac,         \* ... the fact that set-up records from the options
          Nothing,     \* stands for None
          MaxReloads   \* bound on reloads that wait at once

Settings == [profile : Profiles, options : Options]

ASSUME LifecycleAssumption ==
    /\ WolOptions \subseteq Options
    /\ Mac \in Facts
    /\ Nothing \notin Settings
    /\ MaxReloads \in Nat

VARIABLES
    settings,  \* entry.data without the metadata, and entry.options
    facts,     \* entry.data: the discovery metadata but for its age
    recent,    \* entry.data: last seen less than five minutes ago
    state,     \* the entry's state in Home Assistant
    again,     \* the unload under way is the first half of a reload
    reloads,   \* reloads that wait for the entry's lock
    built,     \* what the client and the coordinator were built from
    runtime,   \* entry.runtime_data and hass.data[DOMAIN] hold the coordinator
    signature, \* coordinator.entry_reload_signature
    listening, \* the update listener is registered
    online,    \* coordinator.is_device_online
    device,    \* whether the device answers
    accepted,  \* the profiles that the device accepts
    form,      \* the form that awaits the validation of a connection
    unheard,   \* history: settings changed since set-up with no listener
    chosen     \* history: the options the user saved last, or Nothing when a
               \* form that was validating had read the entry before

entry   == <<settings, facts, recent>>
hass    == <<state, again, reloads>>
running == <<built, runtime, signature, listening, online>>
world   == <<device, accepted>>
history == <<unheard, chosen>>
vars == <<entry, hass, running, world, form, history>>

States == {"notLoaded", "refreshing", "forwarding", "loaded", "unloading",
           "retry", "error", "failedUnload"}
\* Home Assistant holds the entry's lock.
Locked == {"refreshing", "forwarding", "unloading"}
\* config_flow_identity.py: OFFLINE_SETUP_STATES.
OfflineSetupStates == {"error", "retry"}

NoForm == [kind |-> "none"]
Forms == [kind : {"reauth"}, profile : Profiles]
           \cup [kind : {"reconfigure"}, profile : Profiles, options : Options,
                 facts : SUBSET Facts, recent : BOOLEAN]

TypeOK ==
    /\ settings \in Settings
    /\ facts \in SUBSET Facts
    /\ recent \in BOOLEAN
    /\ state \in States
    /\ again \in BOOLEAN
    /\ reloads \in 0 .. MaxReloads
    /\ built \in Settings \cup {Nothing}
    /\ runtime \in BOOLEAN
    /\ signature \in Settings \cup {Nothing}
    /\ listening \in BOOLEAN
    /\ online \in BOOLEAN
    /\ device \in {"up", "down"}
    /\ accepted \in SUBSET Profiles
    /\ form \in Forms \cup {NoForm}
    /\ unheard \in BOOLEAN
    /\ chosen \in Options \cup {Nothing}

Init ==
    /\ settings \in Settings
    /\ facts = {}
    /\ recent = FALSE
    /\ state = "notLoaded"
    /\ again = FALSE
    /\ reloads = 0
    /\ built = Nothing
    /\ runtime = FALSE
    /\ signature = Nothing
    /\ listening = FALSE
    /\ online = TRUE
    /\ device = "up"
    /\ accepted = Profiles
    /\ form = NoForm
    /\ unheard = FALSE
    /\ chosen = settings.options

(***************************************************************************)
(* Saving.                                                                 *)
(***************************************************************************)

\* Mutant: only the options decide.
OptionsSignature(saved) == saved.options

\* What decides whether the listener reloads: all of data and options but the
\* metadata keys.
EntryReloadSignature(saved) == saved

\* `_async_config_entry_updated` once `saved` is in the entry, as far as
\* `async_reload` waiting for the lock.
Listener(saved) ==
    IF listening
      THEN /\ signature' = EntryReloadSignature(saved)
           /\ IF signature = EntryReloadSignature(saved)
                THEN UNCHANGED reloads
                ELSE reloads < MaxReloads /\ reloads' = reloads + 1
           /\ UNCHANGED unheard
      ELSE /\ unheard' = (unheard \/ saved # settings)
           /\ UNCHANGED <<signature, reloads>>

Save(saved) ==
    /\ settings' = saved
    /\ Listener(saved)
    /\ UNCHANGED <<state, again, built, runtime, listening, online>>

\* `should_write_discovery_identity_update`: a new fact, or the interval is up.
ShouldWrite(known) == known # facts \/ ~recent

\* `_record_matched_discovery_observation`: discovery meets the device.
Observe(f) ==
    /\ ShouldWrite(facts \cup {f})
    /\ facts' = facts \cup {f}
    /\ recent' = TRUE
    /\ Save(settings)
    /\ UNCHANGED <<world, form, history>>

FiveMinutesPass ==
    /\ recent
    /\ recent' = FALSE
    /\ UNCHANGED <<settings, facts, hass, running, world, form, history>>

\* `_feature_reconfigure_would_reload_offline_without_wol`.
WouldReloadOffline(options) ==
    /\ options \notin WolOptions
    /\ IF runtime THEN ~online ELSE state \in OfflineSetupStates

\* The options form and the feature step of the reconfigure form.
SaveOptions(options) ==
    /\ ~WouldReloadOffline(options)
    /\ Save([settings EXCEPT !.options = options])
    /\ chosen' = IF form.kind = "reconfigure" THEN Nothing ELSE options
    /\ UNCHANGED <<facts, recent, world, form>>

\* A connection form is submitted: it reads the entry and awaits the device.
SubmitReauth(profile) ==
    /\ form = NoForm
    /\ form' = [kind |-> "reauth", profile |-> profile]
    /\ UNCHANGED <<entry, hass, running, world, history>>

SubmitReconfigure(profile) ==
    /\ form = NoForm
    /\ form' = [kind |-> "reconfigure", profile |-> profile, options |-> settings.options,
                facts |-> facts, recent |-> recent]
    /\ UNCHANGED <<entry, hass, running, world, history>>

\* Mutant: re-authentication saves the options it was opened with.
ReauthWithOldOptions ==
    /\ form.kind = "reauth"
    /\ device = "up"
    /\ form.profile \in accepted
    /\ \E options \in Options : Save([profile |-> form.profile, options |-> options])
    /\ form' = NoForm
    /\ UNCHANGED <<facts, recent, world, chosen>>

\* Validated: re-authentication takes all but the credentials from the entry
\* as it is now ...
ReauthValidated ==
    /\ form.kind = "reauth"
    /\ device = "up"
    /\ form.profile \in accepted
    /\ Save([settings EXCEPT !.profile = form.profile])
    /\ form' = NoForm
    /\ UNCHANGED <<facts, recent, world, chosen>>

\* ... reconfiguration saves all that it has read before.  `merged_feature_options`
\* overlays the entry's options with the form's data, which hold all eight feature
\* options (`_merge_feature_defaults`, `_normalize_user_input`): none is kept.
ReconfigureValidated ==
    /\ form.kind = "reconfigure"
    /\ device = "up"
    /\ form.profile \in accepted
    /\ Save([profile |-> form.profile, options |-> form.options])
    /\ facts' = form.facts
    /\ recent' = form.recent
    /\ form' = NoForm
    /\ chosen' = form.options
    /\ UNCHANGED world

\* The device cannot be reached, or refuses: the form shows an error.
ValidationFails ==
    /\ form # NoForm
    /\ device = "down" \/ form.profile \notin accepted
    /\ form' = NoForm
    /\ UNCHANGED <<entry, hass, running, world, history>>

(***************************************************************************)
(* Set-up.                                                                 *)
(***************************************************************************)

MayBegin == state \notin Locked /\ ~again

\* `async_setup_entry` up to the first refresh: the client and the coordinator
\* take what the entry holds now.  The MAC of the options is recorded.
SetUp ==
    /\ state \in {"notLoaded", "retry"}
    /\ state' = "refreshing"
    /\ again' = FALSE
    /\ built' = settings
    /\ facts' = IF settings.options \in WolOptions THEN facts \cup {Mac} ELSE facts
    /\ online' = TRUE
    /\ unheard' = FALSE
    /\ UNCHANGED <<settings, recent, reloads, runtime, signature, listening, world, form, chosen>>

\* Mutant: the signature is the one the client was built from.
RegisterBuilt ==
    /\ state' = "forwarding"
    /\ runtime' = TRUE
    /\ signature' = built
    /\ listening' = TRUE

\* The coordinator becomes the entry's, with the signature of this moment.
Register ==
    /\ state' = "forwarding"
    /\ runtime' = TRUE
    /\ signature' = EntryReloadSignature(settings)
    /\ listening' = TRUE

\* The first refresh succeeds.  `_async_record_validated_discovery_identity`
\* adds what the system data say, if there are any.
RefreshSucceeds ==
    /\ state = "refreshing"
    /\ device = "up"
    /\ built.profile \in accepted
    /\ \/ \E known \in SUBSET Facts : facts' = facts \cup known /\ recent' = TRUE
       \/ UNCHANGED <<facts, recent>>
    /\ Register
    /\ UNCHANGED <<settings, again, reloads, built, online, world, form, history>>

\* The device cannot be reached: set-up goes on if Wake-on-LAN needs it ...
RefreshUnreachableWithWol ==
    /\ state = "refreshing"
    /\ device = "down"
    /\ built.options \in WolOptions
    /\ online' = FALSE
    /\ Register
    /\ UNCHANGED <<entry, again, reloads, built, world, form, history>>

\* ... or is tried again later.
RefreshUnreachable ==
    /\ state = "refreshing"
    /\ device = "down"
    /\ built.options \notin WolOptions
    /\ state' = "retry"
    /\ built' = Nothing
    /\ UNCHANGED <<entry, again, reloads, runtime, signature, listening, online, world, form, history>>

\* The device refuses the credentials: ConfigEntryAuthFailed.
RefreshRefused ==
    /\ state = "refreshing"
    /\ device = "up"
    /\ built.profile \notin accepted
    /\ state' = "error"
    /\ built' = Nothing
    /\ UNCHANGED <<entry, again, reloads, runtime, signature, listening, online, world, form, history>>

PlatformsReady ==
    /\ state = "forwarding"
    /\ state' = "loaded"
    /\ UNCHANGED <<entry, again, reloads, running, world, form, history>>

\* Mutant: the failed set-up leaves its coordinator behind.
PlatformsFailHalfway ==
    /\ state = "forwarding"
    /\ state' = "error"
    /\ listening' = FALSE
    /\ UNCHANGED <<entry, again, reloads, built, runtime, signature, online, world, form, history>>

\* `async_setup_entry` removes its listeners and its coordinator, and raises.
PlatformsFail ==
    /\ state = "forwarding"
    /\ state' = "error"
    /\ built' = Nothing
    /\ runtime' = FALSE
    /\ signature' = Nothing
    /\ listening' = FALSE
    /\ UNCHANGED <<entry, again, reloads, online, world, form, history>>

(***************************************************************************)
(* Unload and reload.                                                      *)
(***************************************************************************)

\* Mutant: a reload that nobody has asked for.
ReloadUnasked ==
    /\ MayBegin
    /\ state = "loaded"
    /\ reloads' = reloads - 1
    /\ again' = TRUE
    /\ state' = "unloading"
    /\ UNCHANGED <<entry, running, world, form, history>>

\* Mutant: the reload ends with its unload.
ReloadWithoutSetUp ==
    /\ MayBegin
    /\ state = "loaded"
    /\ reloads > 0
    /\ reloads' = reloads - 1
    /\ again' = FALSE
    /\ state' = "unloading"
    /\ UNCHANGED <<entry, running, world, form, history>>

\* A reload gets the lock.  An entry that is not loaded has nothing to unload;
\* one whose unload has failed cannot be reloaded.
ReloadBegins ==
    /\ MayBegin
    /\ reloads > 0
    /\ reloads' = reloads - 1
    /\ again' = (state # "failedUnload")
    /\ state' = CASE state = "loaded" -> "unloading"
                  [] state = "failedUnload" -> "failedUnload"
                  [] OTHER -> "notLoaded"
    /\ UNCHANGED <<entry, running, world, form, history>>

UnloadBegins ==
    /\ MayBegin
    /\ state = "loaded"
    /\ state' = "unloading"
    /\ UNCHANGED <<entry, again, reloads, running, world, form, history>>

\* `async_unload_entry`, then the callbacks of `async_on_unload`.
Unloaded ==
    /\ state = "unloading"
    /\ state' = "notLoaded"
    /\ built' = Nothing
    /\ runtime' = FALSE
    /\ signature' = Nothing
    /\ listening' = FALSE
    /\ UNCHANGED <<entry, again, reloads, online, world, form, history>>

\* A platform does not unload: the coordinator and the listener stay.
UnloadFails ==
    /\ state = "unloading"
    /\ state' = "failedUnload"
    /\ again' = FALSE
    /\ UNCHANGED <<entry, reloads, running, world, form, history>>

(***************************************************************************)
(* The device, as the polls of the running coordinator see it.             *)
(***************************************************************************)

PollSees ==
    /\ runtime
    /\ online # (device = "up")
    /\ online' = (device = "up")
    /\ UNCHANGED <<entry, hass, built, runtime, signature, listening, world, form, history>>

DeviceChanges ==
    /\ \/ device' \in {"up", "down"} \ {device} /\ UNCHANGED accepted
       \/ accepted' \in SUBSET Profiles \ {accepted} /\ UNCHANGED device
    /\ UNCHANGED <<entry, hass, running, form, history>>

-----------------------------------------------------------------------------

\* What goes on by itself once begun: the set-up under way, a reload and its
\* second half, the next try of a set-up that found no device.
SetUpGoesOn ==
    \/ RefreshSucceeds \/ RefreshUnreachableWithWol \/ RefreshUnreachable \/ RefreshRefused
    \/ PlatformsReady
SetUpFollows == (again \/ state = "retry") /\ SetUp

Next ==
    \/ \E f \in Facts : Observe(f)
    \/ FiveMinutesPass
    \/ \E options \in Options : SaveOptions(options)
    \/ \E profile \in Profiles : SubmitReauth(profile) \/ SubmitReconfigure(profile)
    \/ ReauthValidated \/ ReconfigureValidated \/ ValidationFails
    \/ SetUp \/ SetUpGoesOn \/ PlatformsFail
    \/ ReloadBegins \/ UnloadBegins \/ Unloaded \/ UnloadFails
    \/ PollSees \/ DeviceChanges

\* Home Assistant runs what it has begun; nothing is assumed of user or device.
Fairness ==
    /\ WF_vars(SetUpGoesOn) /\ WF_vars(SetUpFollows)
    /\ WF_vars(ReloadBegins) /\ WF_vars(Unloaded)

Spec == Init /\ [][Next]_vars /\ Fairness

(***************************************************************************)
(* Properties.                                                             *)
(***************************************************************************)

\* Whenever the entry is loaded and no reload waits, what runs was built from
\* what is saved, unless something was saved while no listener was registered
\* (that is, during the first refresh: __init__.py:128-149).
HeardSettingsRun ==
    state = "loaded" /\ reloads = 0 /\ ~unheard => built = settings

\* An entry that is not loaded has no coordinator that a service could find,
\* no listener and no signature, however its set-up or unload ended.
NothingLeftBehind ==
    state \in {"notLoaded", "refreshing", "retry", "error"} =>
        ~runtime /\ ~listening /\ signature = Nothing

\* Recording discovery metadata never reloads the entry, whatever was saved
\* before and whenever the coordinator took its signature.
MetadataNeverReloads == [][reloads' > reloads => settings' # settings]_vars

\* The options that the user saved last stay, except that a reconfiguration
\* which was validating meanwhile saves the ones it had read before.
ChosenOptionsStay == chosen # Nothing => settings.options = chosen

\* Settings that the listener has heard of are soon what runs, unless the
\* set-up or the unload fails.
HeardSettingsAreApplied ==
    listening /\ built # settings /\ ~unheard
        ~> built = settings \/ state \in {"retry", "error", "failedUnload"}

\* What the options form says (translations/en.json:348): the entry reloads
\* after saving so that the change applies.
SavedOptionsApply ==
    state = "loaded" /\ reloads = 0 => built.options = settings.options
=============================================================================
