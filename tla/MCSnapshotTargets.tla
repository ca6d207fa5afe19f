------------------------- MODULE MCSnapshotTargets -------------------------
(* Instance of SnapshotTargets for TLC: two targets of one type, which share *)
(* the issues of its user actions; one is never listed without the other.    *)
EXTENDS SnapshotTargets

CONSTANTS media, homes

MCTargets == {media, homes}
MCTypes   == {"shared"}
MCTypeOf  == [t \in Targets |-> "shared"]
MCLists   == {{}, {media}, {media, homes}}
MCActions == {"settings"}
=============================================================================
