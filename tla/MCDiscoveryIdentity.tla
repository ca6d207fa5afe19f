-------------------------- MODULE MCDiscoveryIdentity --------------------------
(***************************************************************************)
(* DiscoveryIdentity for TLC: console a tells its MAC address once it is   *)
(* connected to; console b only announces it.                              *)
(***************************************************************************)
EXTENDS DiscoveryIdentity, TLC

CONSTANTS a, b, a1, b1

MCOwner == a1 :> a @@ b1 :> b
MCSystemMac == a :> a1 @@ b :> Nothing
MCKinds == a :> {"system", "little"} @@ b :> {"system", "little"}
MCSymmetry == Permutations(Flows) \cup Permutations(Hosts)
=============================================================================
