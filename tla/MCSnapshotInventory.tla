------------------------ MODULE MCSnapshotInventory ------------------------
(* Instance of SnapshotInventory for TLC: a shared drive and the personal    *)
(* drive of another user, which the console lists together or not at all.    *)
EXTENDS SnapshotInventory

CONSTANTS guest, media

MCTargets == {guest, media}
MCTypeOf  == [t \in Targets |-> IF t = media THEN "shared" ELSE "mydrive"]
MCForeign == {guest}
MCLists   == {{}, {guest, media}}
=============================================================================
