-------------------------- MODULE MCUnasCoordinator --------------------------
(* Instance of UnasCoordinator for TLC: a select entity and a service call   *)
(* that write the fan mode, two modes, every condition of the device.        *)
EXTENDS UnasCoordinator, TLC

CONSTANTS select, service, quiet, boost

MCWriters == {select, service}
MCOneWriter == {select}
MCModes == {quiet, boost}
MCSymmetry == Permutations(MCWriters) \cup Permutations(MCModes)
\* Credentials are accepted throughout (the liveness run).
MCReachability == {"up", "down", "broken"}
=============================================================================
