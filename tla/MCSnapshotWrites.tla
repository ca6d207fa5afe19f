--------------------------- MODULE MCSnapshotWrites ---------------------------
(* A shared drive that is tried on two paths and a personal one.  Inputs    *)
(* are the boundaries of what callers may enter; the console's settings     *)
(* have a limit beyond the range or none, days and some that are none, no   *)
(* word on whether they are on, and a frequency without a name.             *)
EXTENDS SnapshotWrites, TLC

CONSTANTS media, homes, switch, service

MCTasks == {switch, service}
MCSymmetry == Permutations(MCTasks)
MCTargets == {media, homes}
MCOneTarget == {media}
MCTypes == {"shared", "mydrive"}
MCTypeOf == [t \in Targets |-> IF t = media THEN "shared" ELSE "mydrive"]
MCNameOf == [t \in Targets |-> IF t = media THEN "a" ELSE "b"]
MCPaths == [t \in Targets |-> IF t = media THEN 2 ELSE 1]

MCFirmwares == {{<<"PUT", 2>>, <<"POST", 1>>},
                {<<m, p>> : m \in {"PUT", "DELETE", "POST"}, p \in {1, 2}},
                {<<"DELETE", 1>>, <<"POST", 2>>}}

MCEdits == {[enabled |-> TRUE, max |-> 300, enable |-> TRUE, frequency |-> "custom",
             daily |-> FALSE, weekdays |-> {1, 3, 9}, monthdays |-> {}, time |-> <<2, 30>>],
            [enabled |-> Missing, max |-> 0, enable |-> Missing, frequency |-> Missing,
             daily |-> TRUE, weekdays |-> {Star}, monthdays |-> {}, time |-> Missing]}
MCAsks == {[KeepAll EXCEPT !.enabled = FALSE], [KeepAll EXCEPT !.enabled = TRUE],
           [KeepAll EXCEPT !.limit = 256],
           [KeepAll EXCEPT !.frequency = "Never"], [KeepAll EXCEPT !.time = <<0, 0>>],
           [KeepAll EXCEPT !.frequency = "Weekly"],
           [KeepAll EXCEPT !.frequency = "Monthly", !.weekdays = {0}, !.monthdays = {31}],
           \* ... and some that are refused before they are sent:
           [KeepAll EXCEPT !.time = <<24, 0>>], [KeepAll EXCEPT !.limit = 257],
           [KeepAll EXCEPT !.frequency = "Weekly", !.weekdays = {7}]}
MCLimits == {0, 1, 256, 257}
MCTimes == {[hour |-> 12, minute |-> 0, suffix |-> "am"],
            [hour |-> 24, minute |-> 0, suffix |-> ""]}
MCWeekdays == {0, 7}
MCMonthdays == {0, 31}
=============================================================================
