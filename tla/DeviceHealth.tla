---------------------------- MODULE DeviceHealth ----------------------------
(***************************************************************************)
(* What the coordinator promises about `is_device_online`, without polls,  *)
(* counters or schedules (coordinator.py:161-260): a device whose data is  *)
(* known survives one missed poll, the next miss takes it offline, and     *)
(* only an answer brings it back.                                          *)
(***************************************************************************)

VARIABLES status, \* "online", "suspect" (one miss tolerated) or "offline"
          known   \* a successful poll has been published

vars == <<status, known>>

TypeOK == status \in {"online", "suspect", "offline"} /\ known \in BOOLEAN

Init == status = "online" /\ known = FALSE

\* The device answered a poll ...
Answer ==
    /\ status' = "online"
    /\ UNCHANGED known

\* ... and what it answered is published, while it is still online.
Publish ==
    /\ status = "online"
    /\ known' = TRUE
    /\ UNCHANGED status

\* A poll could not reach the device.
Miss ==
    /\ status' = IF known /\ status = "online" THEN "suspect" ELSE "offline"
    /\ UNCHANGED known

Next == Answer \/ Publish \/ Miss

Spec == Init /\ [][Next]_vars
=============================================================================
