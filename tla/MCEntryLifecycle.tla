-------------------------- MODULE MCEntryLifecycle --------------------------
(* Instance of EntryLifecycle for TLC: two connections, options with and    *)
(* without Wake-on-LAN.                                                     *)
EXTENDS EntryLifecycle, TLC

CONSTANTS old, new, plain, wol

MCProfiles == {old, new}
MCOptions == {plain, wol}
MCWolOptions == {wol}
\* The two connections are interchangeable.
MCSymmetry == Permutations(MCProfiles)
=============================================================================
