------------------------ MODULE UnasCoordinatorProofs ------------------------
(***************************************************************************)
(* Theorems about UnasCoordinator, for any number of writers and modes and *)
(* any device: types, the agreement of what is published with the health   *)
(* of the device, the survival of refresh requests and of polling, the     *)
(* bounds on a stale fan mode, and that the coordinator implements         *)
(* DeviceHealth.                                                           *)
(***************************************************************************)
EXTENDS UnasCoordinator, TLAPS

USE DEF Threshold

-----------------------------------------------------------------------------
\* A write that is under way has the mode it asks for.
TargetInv == \A w \in Writers : write[w] # "idle" => target[w] \in Modes

LEMMA TargetStep == TypeOK /\ TargetInv /\ [Next]_vars => TargetInv'
<1> SUFFICES ASSUME TypeOK, TargetInv, [Next]_vars PROVE TargetInv'
  OBVIOUS
<1>1. CASE UNCHANGED user
  BY <1>1 DEF TargetInv, user
<1>2. ASSUME NEW w \in Writers, WriteBegin(w) \/ WriteProceeds(w) PROVE TargetInv'
  BY <1>2 DEF TypeOK, TargetInv, WriteBegin, WriteProceeds, WriteApplied,
     WriteAcknowledged, WriteFailed
<1> QED
  BY <1>1, <1>2 DEF Next, StorageAnswered, FanRead, RestEnds, FirstWithoutData, vars,
     PollBegin, FirstAnswered, FirstFailed, FirstUnreachable, FirstUnexpected,
     StorageThenSlow, StorageOnly, MissWithoutData, MissTolerated, MissOffline,
     PollUnexpected, PollRejected, CutPoll, PollEnd, StartupSkipped,
     StartupBegin, StartupEnd, FanSampled, FanApplied, FanFailed, FanNotFound,
        FanUnusable, CacheLastFanMode,
     RestRead, RestFailed, DeviceChanges, TimePasses

\* The flags stay Boolean (kept apart: these leaves are Zenon's).
LEMMA FlagStep ==
    TypeOK /\ [Next]_vars =>
        /\ online' \in BOOLEAN /\ lastSuccess' \in BOOLEAN /\ armed' \in BOOLEAN
        /\ slowRequested' \in BOOLEAN /\ first' \in BOOLEAN /\ readable' \in BOOLEAN
<1> SUFFICES ASSUME TypeOK, [Next]_vars
             PROVE /\ online' \in BOOLEAN /\ lastSuccess' \in BOOLEAN /\ armed' \in BOOLEAN
                   /\ slowRequested' \in BOOLEAN /\ first' \in BOOLEAN /\ readable' \in BOOLEAN
  OBVIOUS
<1> USE DEF TypeOK, Next, StorageAnswered, FanRead, RestEnds, WriteProceeds,
        FirstWithoutData, Publish, SlowRefreshDue, vars, health, polling,
        tier, fan, user, env, PollBegin, FirstAnswered, FirstFailed,
        FirstUnreachable, FirstUnexpected, StorageThenSlow, StorageOnly,
        MissWithoutData, MissTolerated, MissOffline, PollUnexpected,
        PollRejected, CutPoll, PollEnd, StartupSkipped, StartupBegin,
        StartupEnd, FanSampled, FanApplied, FanFailed, FanNotFound,
        FanUnusable, CacheLastFanMode, RestRead,
        RestFailed, WriteBegin, WriteApplied, WriteAcknowledged, WriteFailed,
        DeviceChanges, TimePasses
<1>1. online' \in BOOLEAN
  BY Zenon
<1>2. lastSuccess' \in BOOLEAN
  BY Zenon
<1>3. armed' \in BOOLEAN
  BY Zenon
<1>4. slowRequested' \in BOOLEAN
  BY Zenon
<1>5. first' \in BOOLEAN
  BY Zenon
<1>6. readable' \in BOOLEAN
  BY Zenon
<1>7. HIDE DEF TypeOK, Next
<1>8. QED
  BY <1>1, <1>2, <1>3, <1>4, <1>5, <1>6

\* Every reachable state is of the declared types.
THEOREM TypeCorrect == Spec => []TypeOK
<1>1. Init => TypeOK
  <2> SUFFICES ASSUME Init PROVE TypeOK
    OBVIOUS
  <2>1. /\ online \in BOOLEAN /\ lastSuccess \in BOOLEAN /\ armed \in BOOLEAN
        /\ slowRequested \in BOOLEAN /\ first \in BOOLEAN /\ readable \in BOOLEAN
    BY Zenon DEF Init
  <2> QED
    BY <2>1, CoordinatorAssumption DEF Init, TypeOK, Readers, Stages, StorageStages
<1>2. TypeOK /\ TargetInv /\ [Next]_vars => TypeOK'
  <2> SUFFICES ASSUME TypeOK, TargetInv, [Next]_vars PROVE TypeOK'
    OBVIOUS
  <2>0. /\ online' \in BOOLEAN /\ lastSuccess' \in BOOLEAN /\ armed' \in BOOLEAN
        /\ slowRequested' \in BOOLEAN /\ first' \in BOOLEAN /\ readable' \in BOOLEAN
    BY FlagStep
  <2> USE CoordinatorAssumption, <2>0
  <2> USE DEF TypeOK, Readers, Stages, StorageStages, Parts, health, polling,
              tier, fan, user, env, ghosts, Publish, Excuse, OptionalStart
  <2>1. CASE PollBegin
    BY <2>1 DEF PollBegin, SlowRefreshDue
  <2>2. CASE FirstAnswered
    BY <2>2 DEF FirstAnswered
  <2>3. CASE FirstFailed
    BY <2>3 DEF FirstFailed
  <2>4. CASE FirstUnreachable
    BY <2>4 DEF FirstUnreachable, FirstWithoutData
  <2>5. CASE FirstUnexpected
    BY <2>5 DEF FirstUnexpected, FirstWithoutData
  <2>6. CASE StorageThenSlow
    BY <2>6 DEF StorageThenSlow
  <2>7. CASE StorageOnly
    BY <2>7 DEF StorageOnly
  <2>8. CASE MissWithoutData
    BY <2>8 DEF MissWithoutData
  <2>9. CASE MissTolerated
    BY <2>9 DEF MissTolerated
  <2>10. CASE MissOffline
    BY <2>10 DEF MissOffline
  <2>11. CASE PollUnexpected
    BY <2>11 DEF PollUnexpected
  <2>12. CASE PollRejected
    BY <2>12 DEF PollRejected
  <2>13. CASE CutPoll
    BY <2>13 DEF CutPoll
  <2>14. CASE PollEnd
    BY <2>14 DEF PollEnd
  <2>15. CASE StartupSkipped
    BY <2>15 DEF StartupSkipped
  <2>16. CASE StartupBegin
    BY <2>16 DEF StartupBegin
  <2>17. CASE StartupEnd
    BY <2>17 DEF StartupEnd
  <2>18. ASSUME NEW r \in Readers, FanSampled(r) PROVE TypeOK'
    BY <2>18 DEF FanSampled
  <2>19. ASSUME NEW r \in Readers, FanApplied(r) PROVE TypeOK'
    BY <2>19 DEF FanApplied
  <2>20. ASSUME NEW r \in Readers, FanFailed(r) PROVE TypeOK'
    BY <2>20 DEF FanFailed
  <2>21. ASSUME NEW r \in Readers, FanNotFound(r) \/ FanUnusable(r) PROVE TypeOK'
    <3>1. CASE FanNotFound(r)
      BY <3>1 DEF FanNotFound, CacheLastFanMode
    <3>2. CASE FanUnusable(r)
      BY <3>2 DEF FanUnusable, CacheLastFanMode
    <3> QED
      BY <2>21, <3>1, <3>2
  <2>22. ASSUME NEW r \in Readers, RestRead(r) PROVE TypeOK'
    BY <2>22 DEF RestRead
  <2>23. ASSUME NEW r \in Readers, RestFailed(r) PROVE TypeOK'
    BY <2>23 DEF RestFailed
  <2>24. ASSUME NEW w \in Writers, WriteBegin(w) PROVE TypeOK'
    BY <2>24 DEF WriteBegin
  <2>25. ASSUME NEW w \in Writers, WriteApplied(w) PROVE TypeOK'
    BY <2>25 DEF WriteApplied, TargetInv
  <2>26. ASSUME NEW w \in Writers, WriteAcknowledged(w) PROVE TypeOK'
    BY <2>26 DEF WriteAcknowledged
  <2>27. ASSUME NEW w \in Writers, WriteFailed(w) PROVE TypeOK'
    BY <2>27 DEF WriteFailed
  <2>28. CASE DeviceChanges
    BY <2>28 DEF DeviceChanges
  <2>29. CASE TimePasses
    BY <2>29 DEF TimePasses
  <2>30. CASE UNCHANGED vars
    BY <2>30 DEF vars
  <2> QED
    <3> HIDE DEF TypeOK
    <3> QED
      BY <2>1, <2>2, <2>3, <2>4, <2>5, <2>6, <2>7, <2>8, <2>9, <2>10, <2>11,
         <2>12, <2>13, <2>14, <2>15, <2>16, <2>17, <2>18, <2>19, <2>20, <2>21,
         <2>22, <2>23, <2>24, <2>25, <2>26, <2>27, <2>28, <2>29, <2>30
      DEF Next, StorageAnswered, FanRead, RestEnds, WriteProceeds
<1>3. Init => TargetInv
  BY DEF Init, TargetInv
<1> QED
  BY <1>1, <1>2, <1>3, TargetStep, PTL DEF Spec

-----------------------------------------------------------------------------
(***************************************************************************)
(* The health of the device and what is published of it.                   *)
(***************************************************************************)

Optional == {"fan", "answered", "rest", "finishing"}

\* A poll past its storage read has found the device reachable; before and
\* between polls the published mark agrees with `online`; and the coordinator
\* has no data only as long as nothing but first attempts happened to it.
HealthInv ==
    /\ at["poll"] # "ready" /\ at["startup"] \notin StorageStages
    /\ at["poll"] \in Optional => online /\ failures = 0 /\ ~first
    /\ at["poll"] \notin Optional /\ data # "none" => (data = "offline" <=> ~online)
    /\ first => data = "none" /\ online /\ failures = 0 /\ at["startup"] = "idle"
    /\ data = "none" => /\ lastSlow = "never"
                        /\ at["poll"] # "storage"
                        /\ at["startup"] \in {"idle", "ready"}

LEMMA HealthInit == Init => HealthInv
  BY DEF Init, HealthInv, Readers, StorageStages, Optional

LEMMA HealthStep == TypeOK /\ HealthInv /\ [Next]_vars => HealthInv'
<1> SUFFICES ASSUME TypeOK, HealthInv, [Next]_vars PROVE HealthInv'
  OBVIOUS
<1> USE DEF TypeOK, HealthInv, Readers, StorageStages, Stages, Optional, health,
            polling, tier, Publish, OptionalStart
<1>1. CASE PollBegin
  BY <1>1 DEF PollBegin, SlowRefreshDue
<1>2. CASE FirstAnswered
  BY <1>2 DEF FirstAnswered
<1>3. CASE FirstFailed
  BY <1>3 DEF FirstFailed
<1>4. CASE FirstUnreachable
  BY <1>4 DEF FirstUnreachable, FirstWithoutData
<1>5. CASE FirstUnexpected
  BY <1>5 DEF FirstUnexpected, FirstWithoutData
<1>6. CASE StorageThenSlow
  BY <1>6 DEF StorageThenSlow
<1>7. CASE StorageOnly
  BY <1>7 DEF StorageOnly
<1>8. CASE MissWithoutData
  BY <1>8 DEF MissWithoutData
<1>9. CASE MissTolerated
  BY <1>9 DEF MissTolerated
<1>10. CASE MissOffline
  BY <1>10 DEF MissOffline
<1>11. CASE PollUnexpected
  BY <1>11 DEF PollUnexpected
<1>12. CASE PollRejected
  BY <1>12 DEF PollRejected
<1>13. CASE CutPoll
  BY <1>13 DEF CutPoll
<1>14. CASE PollEnd
  BY <1>14 DEF PollEnd
<1>15. CASE StartupSkipped
  BY <1>15 DEF StartupSkipped
<1>16. CASE StartupBegin
  BY <1>16 DEF StartupBegin
<1>17. CASE StartupEnd
  BY <1>17 DEF StartupEnd
<1>18. ASSUME NEW r \in Readers, FanSampled(r) PROVE HealthInv'
  BY <1>18 DEF FanSampled
<1>19. ASSUME NEW r \in Readers, FanApplied(r) PROVE HealthInv'
  BY <1>19 DEF FanApplied
<1>20. ASSUME NEW r \in Readers, FanFailed(r) PROVE HealthInv'
  BY <1>20 DEF FanFailed
<1>21. ASSUME NEW r \in Readers, FanNotFound(r) \/ FanUnusable(r) PROVE HealthInv'
  <2>1. CASE FanNotFound(r)
    BY <2>1 DEF FanNotFound, CacheLastFanMode
  <2>2. CASE FanUnusable(r)
    BY <2>2 DEF FanUnusable, CacheLastFanMode
  <2> QED
    BY <1>21, <2>1, <2>2
<1>22. ASSUME NEW r \in Readers, RestRead(r) PROVE HealthInv'
  BY <1>22 DEF RestRead
<1>23. ASSUME NEW r \in Readers, RestFailed(r) PROVE HealthInv'
  BY <1>23 DEF RestFailed
<1>24. CASE UNCHANGED <<health, data, first, lastSlow, at>>
  BY <1>24
<1>25. CASE TimePasses
  BY <1>25 DEF TimePasses
<1> QED
  <2> HIDE DEF TypeOK, HealthInv, Readers
  <2> QED
    BY <1>1, <1>2, <1>3, <1>4, <1>5, <1>6, <1>7, <1>8, <1>9, <1>10,
          <1>11, <1>12, <1>13, <1>14, <1>15, <1>16, <1>17, <1>18, <1>19,
          <1>20, <1>21, <1>22, <1>23, <1>24, <1>25
    DEF Next, StorageAnswered, FanRead, RestEnds, WriteProceeds, WriteBegin,
        WriteApplied, WriteAcknowledged, WriteFailed, DeviceChanges, vars

\* The published payload carries the offline mark between polls exactly when
\* the device is taken for offline.
THEOREM PublishedAgrees == Spec => []PublishedMatchesHealth
<1>1. HealthInv => PublishedMatchesHealth
  BY DEF HealthInv, PublishedMatchesHealth, Optional
<1> QED
  BY <1>1, TypeCorrect, HealthInit, HealthStep, PTL DEF Spec

-----------------------------------------------------------------------------
(***************************************************************************)
(* The refinement: each poll outcome is a step of DeviceHealth, everything *)
(* else leaves the health of the device alone.                             *)
(***************************************************************************)

LEMMA HealthImplementsStep ==
    TypeOK /\ HealthInv /\ [Next]_vars => [Health!Next]_(Health!vars)
<1> SUFFICES ASSUME TypeOK, HealthInv, [Next]_vars PROVE [Health!Next]_(Health!vars)
  OBVIOUS
<1> USE DEF TypeOK, HealthInv, StorageStages, Optional, health, polling, Publish,
            Health!Next, Health!vars, HealthStatus
<1>1. CASE FirstAnswered
  BY <1>1 DEF FirstAnswered, Health!Publish
<1>2. CASE FirstUnreachable
  BY <1>2 DEF FirstUnreachable, FirstWithoutData, Health!Miss
<1>3. CASE StorageThenSlow
  BY <1>3 DEF StorageThenSlow, Health!Answer
<1>4. CASE StorageOnly
  BY <1>4 DEF StorageOnly, Health!Answer
<1>5. CASE MissWithoutData
  BY <1>5 DEF MissWithoutData, Health!Miss
<1>6. CASE MissTolerated
  BY <1>6 DEF MissTolerated, Health!Miss
<1>7. CASE MissOffline
  BY <1>7 DEF MissOffline, Health!Miss
<1>8. CASE PollEnd
  BY <1>8 DEF PollEnd, Health!Publish
<1>9. CASE UNCHANGED <<health, data>>
  BY <1>9
<1> QED
  <2> HIDE DEF TypeOK, HealthInv, HealthStatus, Health!Next, Health!vars
  <2> QED
    BY <1>1, <1>2, <1>3, <1>4, <1>5, <1>6, <1>7, <1>8, <1>9
    DEF Next, StorageAnswered, FanRead, RestEnds, WriteProceeds, PollBegin,
        FirstFailed, FirstUnexpected, FirstWithoutData, PollUnexpected,
        PollRejected, CutPoll, StartupSkipped, StartupBegin, StartupEnd,
        FanSampled, FanApplied, FanFailed, FanNotFound,
        FanUnusable, CacheLastFanMode, RestRead, RestFailed,
        WriteBegin, WriteApplied, WriteAcknowledged, WriteFailed,
        DeviceChanges, TimePasses, vars

\* The coordinator implements DeviceHealth: one missed poll is tolerated, the
\* next takes the device offline, and only an answer brings it back.
THEOREM ImplementsHealth == Spec => HealthSpec
<1>1. Init => Health!Init
  BY DEF Init, Health!Init, HealthStatus
<1> QED
  BY <1>1, TypeCorrect, HealthInit, HealthStep, HealthImplementsStep, PTL
  DEF Spec, HealthSpec, Health!Spec

-----------------------------------------------------------------------------
(***************************************************************************)
(* Requests for the slow tier.                                             *)
(***************************************************************************)

\* A part is asked for again: the request flag stands, or a reader is bound
\* to come to it.
Standing(part) ==
    \/ slowRequested
    \/ at["poll"] = "storageDue"
    \/ \E r \in Readers :
           at[r] \in IF part = "fan" THEN {"fan"} ELSE {"fan", "answered", "rest"}

\* A reader is past the part, and about to mark the whole tier as read.
Past(r, part) ==
    at[r] \in IF part = "fan" THEN {"answered", "rest", "finishing"} ELSE {"finishing"}

\* A part that is owed and whose read has not failed is ahead; and when a
\* reader that is past it marks the tier as read, it is asked for again.
RequestInv ==
    /\ first => owed = {} /\ at["poll"] \in StorageStages \cup {"idle"}
                         /\ \A w \in Writers : write[w] = "idle"
    /\ \A p \in owed \ excused :
          /\ lastSlow # "recent" \/ Standing(p)
          /\ \A r \in Readers : Past(r, p) => Standing(p)

LEMMA RequestInit == Init => RequestInv
  BY DEF Init, RequestInv, Readers, StorageStages

LEMMA RequestStep == TypeOK /\ RequestInv /\ [Next]_vars => RequestInv'
<1> SUFFICES ASSUME TypeOK, RequestInv, [Next]_vars PROVE RequestInv'
  OBVIOUS
<1> USE DEF TypeOK, RequestInv, Standing, Past, Readers, Parts, StorageStages,
            Stages, polling, tier, user, ghosts, Publish, Excuse, OptionalStart
<1>1. CASE PollBegin
  BY <1>1 DEF PollBegin, SlowRefreshDue
<1>2. CASE FirstAnswered
  BY <1>2 DEF FirstAnswered
<1>3. CASE FirstFailed
  BY <1>3 DEF FirstFailed
<1>4. CASE FirstUnreachable
  BY <1>4 DEF FirstUnreachable, FirstWithoutData
<1>5. CASE FirstUnexpected
  BY <1>5 DEF FirstUnexpected, FirstWithoutData
<1>6. CASE StorageThenSlow
  BY <1>6 DEF StorageThenSlow
<1>7. CASE StorageOnly
  BY <1>7 DEF StorageOnly
<1>8. CASE MissWithoutData
  BY <1>8 DEF MissWithoutData
<1>9. CASE MissTolerated
  BY <1>9 DEF MissTolerated
<1>10. CASE MissOffline
  BY <1>10 DEF MissOffline
<1>11. CASE PollUnexpected
  BY <1>11 DEF PollUnexpected
<1>12. CASE PollRejected
  BY <1>12 DEF PollRejected
<1>13. CASE CutPoll
  BY <1>13 DEF CutPoll
<1>14. CASE PollEnd
  BY <1>14 DEF PollEnd
<1>15. CASE StartupSkipped
  BY <1>15 DEF StartupSkipped
<1>16. CASE StartupBegin
  BY <1>16 DEF StartupBegin
<1>17. CASE StartupEnd
  BY <1>17 DEF StartupEnd
<1>18. ASSUME NEW r \in Readers, FanSampled(r) PROVE RequestInv'
  BY <1>18 DEF FanSampled
<1>19. ASSUME NEW r \in Readers, FanApplied(r) PROVE RequestInv'
  BY <1>19 DEF FanApplied
<1>20. ASSUME NEW r \in Readers, FanFailed(r) PROVE RequestInv'
  BY <1>20 DEF FanFailed
<1>21. ASSUME NEW r \in Readers, FanNotFound(r) \/ FanUnusable(r) PROVE RequestInv'
  <2>1. CASE FanNotFound(r)
    BY <2>1 DEF FanNotFound, CacheLastFanMode
  <2>2. CASE FanUnusable(r)
    BY <2>2 DEF FanUnusable, CacheLastFanMode
  <2> QED
    BY <1>21, <2>1, <2>2
<1>22. ASSUME NEW r \in Readers, RestRead(r) PROVE RequestInv'
  BY <1>22 DEF RestRead
<1>23. ASSUME NEW r \in Readers, RestFailed(r) PROVE RequestInv'
  BY <1>23 DEF RestFailed
<1>24. ASSUME NEW w \in Writers, WriteBegin(w) PROVE RequestInv'
  BY <1>24 DEF WriteBegin
<1>25. ASSUME NEW w \in Writers, WriteApplied(w) PROVE RequestInv'
  BY <1>25 DEF WriteApplied
<1>26. ASSUME NEW w \in Writers, WriteAcknowledged(w) PROVE RequestInv'
  BY <1>26 DEF WriteAcknowledged
<1>27. ASSUME NEW w \in Writers, WriteFailed(w) PROVE RequestInv'
  BY <1>27 DEF WriteFailed
<1>28. CASE UNCHANGED <<first, owed, excused, write, tier, at>>
  BY <1>28
<1>29. CASE TimePasses
  BY <1>29 DEF TimePasses
<1> QED
  <2> HIDE DEF TypeOK, RequestInv, Standing, Past, Readers
  <2> QED
    BY <1>1, <1>2, <1>3, <1>4, <1>5, <1>6, <1>7, <1>8, <1>9, <1>10, <1>11,
       <1>12, <1>13, <1>14, <1>15, <1>16, <1>17, <1>18, <1>19, <1>20,
       <1>21, <1>22, <1>23, <1>24, <1>25, <1>26, <1>27, <1>28, <1>29
    DEF Next, StorageAnswered, FanRead, RestEnds, WriteProceeds, DeviceChanges, vars

\* A refresh request is lost only to a read that failed.
THEOREM RequestsSurvive == Spec => []NoSilentDrop
<1>1. RequestInv => NoSilentDrop
  BY DEF RequestInv, NoSilentDrop, Standing, Ahead
<1> QED
  BY <1>1, TypeCorrect, RequestInit, RequestStep, PTL DEF Spec

-----------------------------------------------------------------------------
\* Each step schedules a poll, reports a failure, has the poll running, or
\* changes none of that.
LEMMA PolledStep ==
    TypeOK /\ HealthInv /\ ShownDataIsPolled /\ [Next]_vars => ShownDataIsPolled'
<1> SUFFICES ASSUME TypeOK, HealthInv, ShownDataIsPolled, [Next]_vars
             PROVE  ShownDataIsPolled'
  OBVIOUS
<1> DEFINE Kept == /\ lastSuccess' = lastSuccess
                   /\ armed' = armed
                   /\ at'["poll"] = at["poll"]
<1>1. \/ armed' = TRUE
      \/ lastSuccess' = FALSE
      \/ at'["poll"] # "idle"
      \/ Kept
  <2> USE DEF TypeOK, Readers, Stages, StorageStages, polling, Publish
  <2>1. ASSUME NEW r \in Readers, FanRead(r) \/ RestEnds(r)
        PROVE  at'["poll"] # "idle" \/ Kept
    BY <2>1 DEF FanRead, RestEnds, FanSampled, FanApplied, FanFailed, FanNotFound,
        FanUnusable, CacheLastFanMode,
       RestRead, RestFailed
  <2>2. ASSUME NEW w \in Writers, WriteBegin(w) \/ WriteProceeds(w)
        PROVE  armed' = TRUE \/ Kept
    BY <2>2 DEF WriteProceeds, WriteBegin, WriteApplied, WriteAcknowledged,
       WriteFailed, HealthInv
  <2>3. CASE PollBegin \/ CutPoll
    BY <2>3 DEF PollBegin, CutPoll, SlowRefreshDue
  <2>4. CASE StorageAnswered
    BY <2>4 DEF StorageAnswered, FirstAnswered, FirstFailed, FirstUnreachable,
       FirstUnexpected, FirstWithoutData, StorageThenSlow, StorageOnly,
       MissWithoutData, MissTolerated, MissOffline, PollUnexpected, PollRejected,
       OptionalStart
  <2>5. CASE PollEnd \/ StartupSkipped \/ StartupBegin \/ StartupEnd
    BY <2>5 DEF PollEnd, StartupSkipped, StartupBegin, StartupEnd
  <2>6. CASE DeviceChanges \/ TimePasses \/ UNCHANGED vars
    BY <2>6 DEF DeviceChanges, TimePasses, vars
  <2> QED
    BY <2>1, <2>2, <2>3, <2>4, <2>5, <2>6 DEF Next
<1> QED
  BY <1>1 DEF ShownDataIsPolled

\* What is shown as updated always has a next poll coming.
THEOREM PollingGoesOn == Spec => []ShownDataIsPolled
<1>1. Init => ShownDataIsPolled
  BY DEF Init, ShownDataIsPolled
<1> QED
  BY <1>1, TypeCorrect, HealthInit, HealthStep, PolledStep, PTL DEF Spec

-----------------------------------------------------------------------------
(***************************************************************************)
(* The cached fan mode against the mode of the device.                     *)
(***************************************************************************)

\* Something that will replace the cached mode stands, or the last read or
\* report of the mode failed.  (A write that is only "sent" is not enough: the
\* device has not taken it, so nothing is stale because of it.)
Coming ==
    \/ \E w \in Writers : write[w] = "applied"
    \/ slowRequested
    \/ at["poll"] = "storageDue"
    \/ \E r \in Readers : at[r] = "fan"
    \/ "fan" \in excused

\* While a cached mode or an answer on its way to a reader differs from the
\* mode of the device, another reader holds the mode of the device, or one is
\* coming; an answer may also have been overtaken by a later one.
StaleInv ==
    /\ first => fanMode = NoMode /\ \A r \in Readers : at[r] # "answered"
    /\ fanMode \notin {NoMode, deviceFan} =>
          Coming \/ \E r \in Readers : at[r] = "answered" /\ sample[r] = deviceFan
    /\ \A r \in Readers :
          at[r] = "answered" /\ sample[r] # deviceFan => Coming \/ r \in overtaken

LEMMA StaleInit == Init => StaleInv
  BY DEF Init, StaleInv, Readers

LEMMA StaleStep ==
    TypeOK /\ HealthInv /\ RequestInv /\ StaleInv /\ [Next]_vars => StaleInv'
<1> SUFFICES ASSUME TypeOK, HealthInv, RequestInv, StaleInv, [Next]_vars PROVE StaleInv'
  OBVIOUS
<1> USE DEF TypeOK, HealthInv, RequestInv, StaleInv, Coming, Readers, Parts,
            StorageStages, Stages, Optional, polling, tier, fan, user, env, ghosts,
            Publish, Excuse, OptionalStart
<1>1. CASE PollBegin
  BY <1>1 DEF PollBegin, SlowRefreshDue
<1>2. CASE FirstAnswered
  BY <1>2 DEF FirstAnswered
<1>3. CASE FirstFailed
  BY <1>3 DEF FirstFailed
<1>4. CASE FirstUnreachable
  BY <1>4 DEF FirstUnreachable, FirstWithoutData
<1>5. CASE FirstUnexpected
  BY <1>5 DEF FirstUnexpected, FirstWithoutData
<1>6. CASE StorageThenSlow
  BY <1>6 DEF StorageThenSlow
<1>7. CASE StorageOnly
  BY <1>7 DEF StorageOnly
<1>8. CASE MissWithoutData
  BY <1>8 DEF MissWithoutData
<1>9. CASE MissTolerated
  BY <1>9 DEF MissTolerated
<1>10. CASE MissOffline
  BY <1>10 DEF MissOffline
<1>11. CASE PollUnexpected
  BY <1>11 DEF PollUnexpected
<1>12. CASE PollRejected
  BY <1>12 DEF PollRejected
<1>13. CASE CutPoll
  BY <1>13 DEF CutPoll
<1>14. CASE PollEnd
  BY <1>14 DEF PollEnd
<1>15. CASE StartupSkipped
  BY <1>15 DEF StartupSkipped
<1>16. CASE StartupBegin
  BY <1>16 DEF StartupBegin
<1>17. CASE StartupEnd
  BY <1>17 DEF StartupEnd
<1>18. ASSUME NEW r \in Readers, FanSampled(r) PROVE StaleInv'
  BY <1>18 DEF FanSampled
<1>19. ASSUME NEW r \in Readers, FanApplied(r) PROVE StaleInv'
  BY <1>19 DEF FanApplied
<1>20. ASSUME NEW r \in Readers, FanFailed(r) PROVE StaleInv'
  BY <1>20 DEF FanFailed
<1>21. ASSUME NEW r \in Readers, FanNotFound(r) \/ FanUnusable(r) PROVE StaleInv'
  <2>1. CASE FanNotFound(r)
    BY <2>1 DEF FanNotFound, CacheLastFanMode
  <2>2. CASE FanUnusable(r)
    BY <2>2 DEF FanUnusable, CacheLastFanMode
  <2> QED
    BY <1>21, <2>1, <2>2
<1>22. ASSUME NEW r \in Readers, RestRead(r) PROVE StaleInv'
  BY <1>22 DEF RestRead
<1>23. ASSUME NEW r \in Readers, RestFailed(r) PROVE StaleInv'
  BY <1>23 DEF RestFailed
<1>24. ASSUME NEW w \in Writers, WriteBegin(w) PROVE StaleInv'
  BY <1>24 DEF WriteBegin
<1>25. ASSUME NEW w \in Writers, WriteApplied(w) PROVE StaleInv'
  BY <1>25 DEF WriteApplied
<1>26. ASSUME NEW w \in Writers, WriteAcknowledged(w) PROVE StaleInv'
  BY <1>26 DEF WriteAcknowledged
<1>27. ASSUME NEW w \in Writers, WriteFailed(w) PROVE StaleInv'
  BY <1>27 DEF WriteFailed
<1>28. CASE UNCHANGED <<first, fanMode, sample, deviceFan, excused, overtaken, write, slowRequested, at>>
  BY <1>28
<1> QED
  <2> HIDE DEF TypeOK, HealthInv, RequestInv, StaleInv, Coming, Readers
  <2> QED
    BY <1>1, <1>2, <1>3, <1>4, <1>5, <1>6, <1>7, <1>8, <1>9, <1>10, <1>11,
       <1>12, <1>13, <1>14, <1>15, <1>16, <1>17, <1>18, <1>19, <1>20, <1>21,
       <1>22, <1>23, <1>24, <1>25, <1>26, <1>27, <1>28
    DEF Next, StorageAnswered, FanRead, RestEnds, WriteProceeds, DeviceChanges,
        TimePasses, vars

\* A cached fan mode that the device no longer has is on its way out.
THEOREM StaleIsTemporary == Spec => []StaleModeIsTemporary
<1>1. StaleInv => StaleModeIsTemporary
  BY DEF StaleInv, Coming, StaleModeIsTemporary, Ahead
<1> QED
  BY <1>1, TypeCorrect, HealthInit, HealthStep, RequestInit, RequestStep, StaleInit,
     StaleStep, PTL DEF Spec

-----------------------------------------------------------------------------
\* Each poll outcome but rejected credentials schedules the next poll.
PollAlive == armed \/ at["poll"] # "idle"

LEMMA AliveStep ==
    TypeOK /\ HealthInv /\ PollAlive /\ "locked" \notin Conditions /\ [Next]_vars
        => PollAlive'
<1> SUFFICES ASSUME TypeOK, HealthInv, PollAlive, "locked" \notin Conditions, [Next]_vars
             PROVE  PollAlive'
  OBVIOUS
<1> DEFINE Kept == armed' = armed /\ at'["poll"] = at["poll"]
<1>1. armed' = TRUE \/ at'["poll"] # "idle" \/ Kept
  <2> USE DEF TypeOK, Readers, Stages, StorageStages, polling, Publish
  <2>1. ASSUME NEW r \in Readers, FanRead(r) \/ RestEnds(r)
        PROVE  at'["poll"] # "idle" \/ Kept
    BY <2>1 DEF FanRead, RestEnds, FanSampled, FanApplied, FanFailed, FanNotFound,
        FanUnusable, CacheLastFanMode,
       RestRead, RestFailed
  <2>2. ASSUME NEW w \in Writers, WriteBegin(w) \/ WriteProceeds(w)
        PROVE  armed' = TRUE \/ Kept
    BY <2>2 DEF WriteProceeds, WriteBegin, WriteApplied, WriteAcknowledged,
       WriteFailed, HealthInv
  <2>3. CASE PollBegin \/ CutPoll
    BY <2>3 DEF PollBegin, CutPoll, SlowRefreshDue
  <2>4. CASE PollRejected
    BY <2>4 DEF PollRejected
  <2>5. CASE StorageAnswered /\ ~PollRejected
    <3>1. CASE FirstAnswered \/ FirstFailed \/ FirstUnreachable \/ FirstUnexpected
      BY <3>1 DEF FirstAnswered, FirstFailed, FirstUnreachable, FirstUnexpected,
         FirstWithoutData
    <3>2. CASE StorageThenSlow \/ StorageOnly \/ MissWithoutData \/ MissTolerated
      BY <3>2 DEF StorageThenSlow, StorageOnly, MissWithoutData, MissTolerated,
         OptionalStart
    <3>3. CASE MissOffline \/ PollUnexpected
      BY <3>3 DEF MissOffline, PollUnexpected
    <3> QED
      BY <2>5, <3>1, <3>2, <3>3 DEF StorageAnswered
  <2>6. CASE PollEnd \/ StartupSkipped \/ StartupBegin \/ StartupEnd
    BY <2>6 DEF PollEnd, StartupSkipped, StartupBegin, StartupEnd
  <2>7. CASE DeviceChanges \/ TimePasses \/ UNCHANGED vars
    BY <2>7 DEF DeviceChanges, TimePasses, vars
  <2> QED
    BY <2>1, <2>2, <2>3, <2>4, <2>5, <2>6, <2>7 DEF Next
<1> QED
  BY <1>1 DEF PollAlive

\* As long as no credentials are rejected, a poll is always running or
\* scheduled, whatever failed before (the safety half of RecoversWhenUp).
THEOREM PollingSurvivesFailures ==
    "locked" \notin Conditions /\ Spec => [](armed \/ at["poll"] # "idle")
<1>1. Init => PollAlive
  BY DEF Init, PollAlive
<1>2. PollAlive => armed \/ at["poll"] # "idle"
  BY DEF PollAlive
<1> SUFFICES ASSUME "locked" \notin Conditions PROVE Spec => [](armed \/ at["poll"] # "idle")
  OBVIOUS
<1>3. TypeOK /\ HealthInv /\ PollAlive /\ [Next]_vars => PollAlive'
  BY AliveStep
<1> QED
  BY <1>1, <1>2, <1>3, TypeCorrect, HealthInit, HealthStep, PTL DEF Spec
=============================================================================
