------------------------- MODULE EntryLifecycleProofs -------------------------
(***************************************************************************)
(* Proofs about EntryLifecycle, for any profiles, options and facts and    *)
(* any bound on waiting reloads: types, what a set-up leaves behind, that  *)
(* heard settings run, that chosen options stay and that metadata never    *)
(* reload the entry.                                                       *)
(***************************************************************************)
EXTENDS EntryLifecycle, TLAPS

\* The states in which the coordinator is the entry's.
Present == {"forwarding", "loaded", "unloading", "failedUnload"}

\* The coordinator's signature is that of the saved settings for as long as
\* its listener is registered, that is, from `Register` to the unload.
SignatureFollows == state \in Present => runtime /\ listening /\ signature = settings

\* What was built is what is saved, or a reload waits, or it was not heard.
BuiltFollows ==
    /\ state = "refreshing" /\ ~unheard => built = settings
    /\ state \in {"forwarding", "loaded"} /\ reloads = 0 /\ ~unheard => built = settings

Inv ==
    /\ TypeOK
    /\ NothingLeftBehind
    /\ SignatureFollows
    /\ BuiltFollows
    /\ ChosenOptionsStay

(***************************************************************************)
(* Types.                                                                  *)
(***************************************************************************)

\* A save keeps the types of what it touches.
LEMMA SaveTypes ==
    ASSUME NEW saved \in Settings, TypeOK, Save(saved)
    PROVE  /\ settings' \in Settings
           /\ reloads' \in 0 .. MaxReloads
           /\ signature' \in Settings \cup {Nothing}
           /\ unheard' \in BOOLEAN
           /\ state' \in States
           /\ again' \in BOOLEAN
           /\ built' \in Settings \cup {Nothing}
           /\ runtime' \in BOOLEAN
           /\ listening' \in BOOLEAN
           /\ online' \in BOOLEAN
<1>1. CASE listening
  <2>1. /\ signature' = saved
        /\ UNCHANGED unheard
        /\ reloads' = reloads \/ (reloads < MaxReloads /\ reloads' = reloads + 1)
    BY <1>1 DEF Save, Listener, EntryReloadSignature
  <2>2. reloads' \in 0 .. MaxReloads
    BY <2>1, LifecycleAssumption DEF TypeOK
  <2> QED BY <2>1, <2>2 DEF Save, TypeOK
<1>2. CASE ~listening
  <2>1. unheard' = (unheard \/ saved # settings) /\ UNCHANGED <<signature, reloads>>
    BY <1>2 DEF Save, Listener
  <2>2. unheard' \in BOOLEAN
    BY <2>1, Zenon DEF TypeOK
  <2> QED BY <2>1, <2>2 DEF Save, TypeOK
<1> QED BY <1>1, <1>2

LEMMA FormFields ==
    ASSUME TypeOK
    PROVE  /\ form # NoForm => form.profile \in Profiles
           /\ form.kind = "reauth" => form.profile \in Profiles
           /\ form.kind = "reconfigure" =>
                /\ form.profile \in Profiles
                /\ form.options \in Options
                /\ form.facts \in SUBSET Facts
                /\ form.recent \in BOOLEAN
BY DEF TypeOK, Forms, NoForm

LEMMA TypeInitial == Init => TypeOK
<1> SUFFICES ASSUME Init PROVE TypeOK
  OBVIOUS
<1>1. chosen \in Options
  BY DEF Init, Settings
<1>2. 0 \in 0 .. MaxReloads
  BY LifecycleAssumption
<1> QED BY <1>1, <1>2 DEF Init, TypeOK, States

LEMMA TypeStep == TypeOK /\ [Next]_vars => TypeOK'
<1> SUFFICES ASSUME TypeOK, [Next]_vars PROVE TypeOK'
  OBVIOUS
<1>. USE DEF entry, hass, running, world, history
<1>1. ASSUME NEW f \in Facts, Observe(f) PROVE TypeOK'
  <2>1. settings \in Settings /\ Save(settings)
    BY <1>1 DEF Observe, TypeOK
  <2>2. facts' \in SUBSET Facts /\ recent' \in BOOLEAN
    BY <1>1 DEF Observe, TypeOK
  <2> QED BY <1>1, <2>1, <2>2, SaveTypes DEF Observe, TypeOK
<1>2. CASE FiveMinutesPass
  BY <1>2 DEF FiveMinutesPass, TypeOK
<1>3. ASSUME NEW options \in Options, SaveOptions(options) PROVE TypeOK'
  <2>1. [settings EXCEPT !.options = options] \in Settings
    BY DEF TypeOK, Settings
  <2>2. chosen' \in Options \cup {Nothing}
    BY <1>3 DEF SaveOptions
  <2> QED BY <1>3, <2>1, <2>2, SaveTypes DEF SaveOptions, TypeOK
<1>4. ASSUME NEW profile \in Profiles, SubmitReauth(profile) PROVE TypeOK'
  <2>1. form' \in Forms
    BY <1>4 DEF SubmitReauth, Forms
  <2> QED BY <1>4, <2>1 DEF SubmitReauth, TypeOK
<1>5. ASSUME NEW profile \in Profiles, SubmitReconfigure(profile) PROVE TypeOK'
  <2>1. settings.options \in Options
    BY DEF TypeOK, Settings
  <2>2. form' \in Forms
    BY <1>5, <2>1 DEF SubmitReconfigure, Forms, TypeOK
  <2> QED BY <1>5, <2>2 DEF SubmitReconfigure, TypeOK
<1>6. CASE ReauthValidated
  <2>1. [settings EXCEPT !.profile = form.profile] \in Settings
    BY <1>6, FormFields DEF ReauthValidated, TypeOK, Settings
  <2> QED BY <1>6, <2>1, SaveTypes DEF ReauthValidated, TypeOK
<1>7. CASE ReconfigureValidated
  <2>1. [profile |-> form.profile, options |-> form.options] \in Settings
    BY <1>7, FormFields DEF ReconfigureValidated, Settings
  <2>2. facts' \in SUBSET Facts /\ chosen' \in Options
    BY <1>7, FormFields DEF ReconfigureValidated
  <2>3. recent' \in BOOLEAN
    BY <1>7, FormFields, Zenon DEF ReconfigureValidated
  <2> QED BY <1>7, <2>1, <2>2, <2>3, SaveTypes DEF ReconfigureValidated, TypeOK
<1>8. CASE ValidationFails
  BY <1>8 DEF ValidationFails, TypeOK
<1>9. CASE SetUp
  <2>1. facts' \in SUBSET Facts
    BY <1>9, LifecycleAssumption DEF SetUp, TypeOK
  <2> QED BY <1>9, <2>1 DEF SetUp, TypeOK, States
<1>10. CASE RefreshSucceeds
  <2>1. facts' \in SUBSET Facts
    BY <1>10 DEF RefreshSucceeds, TypeOK
  <2>2. recent' \in BOOLEAN
    BY <1>10 DEF RefreshSucceeds, TypeOK
  <2> QED BY <1>10, <2>1, <2>2 DEF RefreshSucceeds, Register, EntryReloadSignature, TypeOK, States
<1>11. CASE RefreshUnreachableWithWol
  BY <1>11 DEF RefreshUnreachableWithWol, Register, EntryReloadSignature, TypeOK, States
<1>12. CASE RefreshUnreachable
  BY <1>12 DEF RefreshUnreachable, TypeOK, States
<1>13. CASE RefreshRefused
  BY <1>13 DEF RefreshRefused, TypeOK, States
<1>14. CASE PlatformsReady
  BY <1>14 DEF PlatformsReady, TypeOK, States
<1>15. CASE PlatformsFail
  BY <1>15 DEF PlatformsFail, TypeOK, States
<1>16. CASE ReloadBegins
  <2>1. reloads' \in 0 .. MaxReloads
    BY <1>16, LifecycleAssumption DEF ReloadBegins, TypeOK
  <2>2. again' \in BOOLEAN
    BY <1>16 DEF ReloadBegins
  <2>3. state' \in States
    BY <1>16 DEF ReloadBegins, States
  <2> QED BY <1>16, <2>1, <2>2, <2>3 DEF ReloadBegins, TypeOK
<1>17. CASE UnloadBegins
  BY <1>17 DEF UnloadBegins, TypeOK, States
<1>18. CASE Unloaded
  BY <1>18 DEF Unloaded, TypeOK, States
<1>19. CASE UnloadFails
  BY <1>19 DEF UnloadFails, TypeOK, States
<1>20. CASE PollSees
  <2>1. online' \in BOOLEAN
    BY <1>20 DEF PollSees
  <2> QED BY <1>20, <2>1 DEF PollSees, TypeOK
<1>21. CASE DeviceChanges
  BY <1>21 DEF DeviceChanges, TypeOK
<1>22. CASE UNCHANGED vars
  BY <1>22 DEF vars, TypeOK
<1> QED
  BY <1>1, <1>2, <1>3, <1>4, <1>5, <1>6, <1>7, <1>8, <1>9, <1>10, <1>11, <1>12, <1>13,
     <1>14, <1>15, <1>16, <1>17, <1>18, <1>19, <1>20, <1>21, <1>22
  DEF Next, SetUpGoesOn

(***************************************************************************)
(* What is saved and what runs.                                            *)
(***************************************************************************)

\* A save that the listener hears renews the signature, and asks for a reload
\* when the settings differ; one that it does not hear is remembered.
LEMMA SaveKeeps ==
    ASSUME NEW saved \in Settings, Inv, Save(saved)
    PROVE  NothingLeftBehind' /\ SignatureFollows' /\ BuiltFollows'
<1>1. /\ settings' = saved
      /\ UNCHANGED <<state, built, runtime, listening>>
  BY DEF Save
<1>2. CASE listening
  <2>1. state \in Present
    BY <1>2 DEF Inv, TypeOK, NothingLeftBehind, States, Present
  <2>2. signature = settings
    BY <2>1 DEF Inv, SignatureFollows
  <2>3. signature' = saved /\ UNCHANGED unheard
    BY <1>2 DEF Save, Listener, EntryReloadSignature
  <2>4. saved = settings \/ reloads' > 0
    BY <1>2, <2>2, LifecycleAssumption DEF Save, Listener, EntryReloadSignature, Inv, TypeOK
  <2>5. saved = settings => UNCHANGED reloads
    BY <1>2, <2>2 DEF Save, Listener, EntryReloadSignature
  <2>6. NothingLeftBehind' /\ SignatureFollows'
    BY <1>1, <2>1, <2>3 DEF Inv, NothingLeftBehind, SignatureFollows, Present
  <2>7. BuiltFollows'
    BY <1>1, <2>1, <2>3, <2>4, <2>5 DEF Inv, BuiltFollows, Present
  <2> QED BY <2>6, <2>7
<1>3. CASE ~listening
  <2>1. state \notin Present
    BY <1>3 DEF Inv, SignatureFollows
  <2>2. unheard' = (unheard \/ saved # settings) /\ UNCHANGED signature
    BY <1>3 DEF Save, Listener
  <2> QED
    BY <1>1, <2>1, <2>2
    DEF Inv, NothingLeftBehind, SignatureFollows, BuiltFollows, Present
<1> QED BY <1>2, <1>3

\* What no step but a save, a set-up or an unload touches.
LEMMA FrameKeeps ==
    ASSUME Inv,
           UNCHANGED <<settings, state, reloads, built, runtime, signature, listening, unheard>>
    PROVE  NothingLeftBehind' /\ SignatureFollows' /\ BuiltFollows'
BY DEF Inv, NothingLeftBehind, SignatureFollows, BuiltFollows

LEMMA InvInitial == Init => Inv
<1> SUFFICES ASSUME Init PROVE Inv
  OBVIOUS
<1>1. NothingLeftBehind /\ SignatureFollows /\ BuiltFollows /\ ChosenOptionsStay
  BY DEF Init, NothingLeftBehind, SignatureFollows, BuiltFollows, ChosenOptionsStay, Present
<1> QED BY <1>1, TypeInitial DEF Inv

\* Only saves change the settings: each keeps the options that were chosen
\* last, or is the choice.
LEMMA ChosenStep == Inv /\ [Next]_vars => ChosenOptionsStay'
<1> SUFFICES ASSUME Inv, [Next]_vars PROVE ChosenOptionsStay'
  OBVIOUS
<1>. USE DEF entry, hass, running, world, history, Inv, ChosenOptionsStay
<1>1. ASSUME NEW f \in Facts, Observe(f) PROVE ChosenOptionsStay'
  BY <1>1 DEF Observe, Save
<1>2. ASSUME NEW options \in Options, SaveOptions(options) PROVE ChosenOptionsStay'
  <2>1. settings' = [settings EXCEPT !.options = options]
    BY <1>2 DEF SaveOptions, Save
  <2>2. settings'.options = options
    BY <2>1 DEF TypeOK, Settings
  <2> QED BY <1>2, <2>2 DEF SaveOptions
<1>3. CASE ReauthValidated
  <2>1. settings' = [settings EXCEPT !.profile = form.profile] /\ UNCHANGED chosen
    BY <1>3 DEF ReauthValidated, Save
  <2>2. settings'.options = settings.options
    BY <2>1 DEF TypeOK, Settings
  <2> QED BY <2>1, <2>2
<1>4. CASE ReconfigureValidated
  BY <1>4 DEF ReconfigureValidated, Save
<1>5. CASE UNCHANGED <<settings, chosen>>
  BY <1>5
<1>6. ASSUME NEW profile \in Profiles, SubmitReauth(profile) \/ SubmitReconfigure(profile)
      PROVE  UNCHANGED <<settings, chosen>>
  BY <1>6 DEF SubmitReauth, SubmitReconfigure
<1>7. FiveMinutesPass \/ ValidationFails \/ PollSees \/ DeviceChanges \/ UNCHANGED vars
        => UNCHANGED <<settings, chosen>>
  BY DEF FiveMinutesPass, ValidationFails, PollSees, DeviceChanges, vars
<1>8. SetUp \/ SetUpGoesOn \/ PlatformsFail => UNCHANGED <<settings, chosen>>
  BY DEF SetUp, SetUpGoesOn, RefreshSucceeds, RefreshUnreachableWithWol, RefreshUnreachable,
         RefreshRefused, PlatformsReady, PlatformsFail
<1>9. ReloadBegins \/ UnloadBegins \/ Unloaded \/ UnloadFails => UNCHANGED <<settings, chosen>>
  BY DEF ReloadBegins, UnloadBegins, Unloaded, UnloadFails
<1> QED BY <1>1, <1>2, <1>3, <1>4, <1>5, <1>6, <1>7, <1>8, <1>9 DEF Next

LEMMA RunningStep ==
    Inv /\ [Next]_vars => NothingLeftBehind' /\ SignatureFollows' /\ BuiltFollows'
<1> SUFFICES ASSUME Inv, [Next]_vars
             PROVE  NothingLeftBehind' /\ SignatureFollows' /\ BuiltFollows'
  OBVIOUS
<1>. USE DEF entry, hass, running, world, history
<1>1. ASSUME NEW f \in Facts, Observe(f)
      PROVE  NothingLeftBehind' /\ SignatureFollows' /\ BuiltFollows'
  <2>1. settings \in Settings /\ Save(settings)
    BY <1>1 DEF Observe, Inv, TypeOK
  <2> QED BY <2>1, SaveKeeps
<1>2. ASSUME NEW options \in Options, SaveOptions(options)
      PROVE  NothingLeftBehind' /\ SignatureFollows' /\ BuiltFollows'
  <2>1. [settings EXCEPT !.options = options] \in Settings
    BY DEF Inv, TypeOK, Settings
  <2> QED BY <1>2, <2>1, SaveKeeps DEF SaveOptions
<1>3. CASE ReauthValidated
  <2>1. [settings EXCEPT !.profile = form.profile] \in Settings
    BY <1>3, FormFields DEF ReauthValidated, Inv, TypeOK, Settings
  <2> QED BY <1>3, <2>1, SaveKeeps DEF ReauthValidated
<1>4. CASE ReconfigureValidated
  <2>1. [profile |-> form.profile, options |-> form.options] \in Settings
    BY <1>4, FormFields DEF ReconfigureValidated, Inv, Settings
  <2> QED BY <1>4, <2>1, SaveKeeps DEF ReconfigureValidated
<1>5. ASSUME NEW profile \in Profiles, SubmitReauth(profile) \/ SubmitReconfigure(profile)
      PROVE  NothingLeftBehind' /\ SignatureFollows' /\ BuiltFollows'
  BY <1>5, FrameKeeps DEF SubmitReauth, SubmitReconfigure
<1>6. CASE FiveMinutesPass \/ ValidationFails \/ PollSees \/ DeviceChanges \/ UNCHANGED vars
  BY <1>6, FrameKeeps DEF FiveMinutesPass, ValidationFails, PollSees, DeviceChanges, vars
<1>. USE DEF Inv, NothingLeftBehind, SignatureFollows, BuiltFollows, Present
<1>7. CASE SetUp
  BY <1>7 DEF SetUp
<1>8. CASE RefreshSucceeds
  BY <1>8 DEF RefreshSucceeds, Register, EntryReloadSignature
<1>9. CASE RefreshUnreachableWithWol
  BY <1>9 DEF RefreshUnreachableWithWol, Register, EntryReloadSignature
<1>10. CASE RefreshUnreachable
  BY <1>10 DEF RefreshUnreachable
<1>11. CASE RefreshRefused
  BY <1>11 DEF RefreshRefused
<1>12. CASE PlatformsReady
  BY <1>12 DEF PlatformsReady
<1>13. CASE PlatformsFail
  BY <1>13 DEF PlatformsFail
<1>14. CASE ReloadBegins
  <2>1. state \in {"notLoaded", "retry", "error", "loaded", "failedUnload"}
    BY <1>14 DEF ReloadBegins, MayBegin, Locked, TypeOK, States
  <2>2. CASE state = "loaded"
    <3>1. state' = "unloading"
      BY <1>14, <2>2 DEF ReloadBegins
    <3> QED BY <1>14, <2>2, <3>1 DEF ReloadBegins
  <2>3. CASE state = "failedUnload"
    <3>1. state' = "failedUnload"
      BY <1>14, <2>3 DEF ReloadBegins
    <3> QED BY <1>14, <2>3, <3>1 DEF ReloadBegins
  <2>4. CASE state \in {"notLoaded", "retry", "error"}
    <3>1. state' = "notLoaded"
      BY <1>14, <2>4 DEF ReloadBegins
    <3> QED BY <1>14, <2>4, <3>1 DEF ReloadBegins
  <2> QED BY <2>1, <2>2, <2>3, <2>4
<1>15. CASE UnloadBegins
  BY <1>15 DEF UnloadBegins
<1>16. CASE Unloaded
  BY <1>16 DEF Unloaded
<1>17. CASE UnloadFails
  BY <1>17 DEF UnloadFails
<1> QED
  BY <1>1, <1>2, <1>3, <1>4, <1>5, <1>6, <1>7, <1>8, <1>9, <1>10, <1>11, <1>12, <1>13,
     <1>14, <1>15, <1>16, <1>17
  DEF Next, SetUpGoesOn

LEMMA InvStep == Inv /\ [Next]_vars => Inv'
BY TypeStep, RunningStep, ChosenStep DEF Inv

(***************************************************************************)
(* The theorems.                                                           *)
(***************************************************************************)

\* Every state of the entry, of what runs and of the form is a meaningful one.
THEOREM TypeCorrect == Spec => []TypeOK
<1>1. Init => TypeOK
  BY TypeInitial
<1> QED BY <1>1, TypeStep, PTL DEF Spec

\* The inductive invariant: the signature and what is built of an entry follow
\* from how far its set-up is (__init__.py:100-200, entry_reload.py).
THEOREM InvHolds == Spec => []Inv
BY InvInitial, InvStep, PTL DEF Spec

\* However a set-up or an unload ended, an entry that is not loaded has left
\* no coordinator, no listener and no signature (__init__.py:133-176, 259-281).
THEOREM NothingLeft == Spec => []NothingLeftBehind
<1>1. Inv => NothingLeftBehind
  BY DEF Inv
<1> QED BY <1>1, InvHolds, PTL

\* A loaded entry with no reload waiting runs what is saved, unless a save
\* found no listener (__init__.py:128-149, 229-256).
THEOREM HeardRun == Spec => []HeardSettingsRun
<1>1. Inv => HeardSettingsRun
  BY DEF Inv, BuiltFollows, HeardSettingsRun
<1> QED BY <1>1, InvHolds, PTL

\* The options chosen last stay in the entry, but for a reconfiguration that
\* had read it before (config_flow.py).
THEOREM ChosenStay == Spec => []ChosenOptionsStay
<1>1. Inv => ChosenOptionsStay
  BY DEF Inv
<1> QED BY <1>1, InvHolds, PTL

\* A save asks for a reload only if the settings changed.
LEMMA SaveReloads ==
    ASSUME Inv, NEW saved, Save(saved), reloads' > reloads
    PROVE  settings' # settings
<1>1. listening /\ signature # saved
  BY DEF Save, Listener, EntryReloadSignature, Inv, TypeOK
<1>2. state \in Present
  BY <1>1 DEF Inv, TypeOK, NothingLeftBehind, States, Present
<1> QED BY <1>1, <1>2 DEF Inv, SignatureFollows, Save

\* Discovery metadata never reload the entry, whatever was saved before and
\* whenever the coordinator took its signature (entry_reload.py,
\* __init__.py:240-256).
THEOREM MetadataNeverReload == Spec => MetadataNeverReloads
<1>1. ASSUME Inv, [Next]_vars PROVE [reloads' > reloads => settings' # settings]_vars
  <2> SUFFICES ASSUME Next, reloads' > reloads PROVE settings' # settings
    BY <1>1
  <2>. USE DEF entry, hass, running, world, history
  <2>0. reloads \in Nat
    BY <1>1, LifecycleAssumption DEF Inv, TypeOK
  <2>1. ASSUME NEW f \in Facts, Observe(f) PROVE settings' # settings
    BY <1>1, <2>1, SaveReloads DEF Observe
  <2>2. ASSUME NEW options \in Options, SaveOptions(options) PROVE settings' # settings
    BY <1>1, <2>2, SaveReloads DEF SaveOptions
  <2>3. CASE ReauthValidated
    BY <1>1, <2>3, SaveReloads DEF ReauthValidated
  <2>4. CASE ReconfigureValidated
    BY <1>1, <2>4, SaveReloads DEF ReconfigureValidated
  <2>5. ASSUME NEW profile \in Profiles, SubmitReauth(profile) \/ SubmitReconfigure(profile)
        PROVE  reloads' = reloads
    BY <2>5 DEF SubmitReauth, SubmitReconfigure
  <2>6. FiveMinutesPass \/ ValidationFails \/ PollSees \/ DeviceChanges => reloads' = reloads
    BY DEF FiveMinutesPass, ValidationFails, PollSees, DeviceChanges
  <2>7. SetUp \/ SetUpGoesOn \/ PlatformsFail => reloads' = reloads
    BY DEF SetUp, SetUpGoesOn, RefreshSucceeds, RefreshUnreachableWithWol, RefreshUnreachable,
           RefreshRefused, PlatformsReady, PlatformsFail
  <2>8. UnloadBegins \/ Unloaded \/ UnloadFails => reloads' = reloads
    BY DEF UnloadBegins, Unloaded, UnloadFails
  <2>9. ReloadBegins => reloads' = reloads - 1
    BY DEF ReloadBegins
  <2>10. reloads' # reloads /\ reloads' # reloads - 1
    BY <2>0
  <2> QED BY <2>1, <2>2, <2>3, <2>4, <2>5, <2>6, <2>7, <2>8, <2>9, <2>10 DEF Next
<1> QED BY <1>1, InvHolds, PTL DEF Spec, MetadataNeverReloads
=============================================================================
