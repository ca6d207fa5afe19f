--------------------------- MODULE MCUnasSession ---------------------------
(* Instance of UnasSession for TLC: the poll, which its budget may cancel,  *)
(* and a service call that nothing cancels.                                 *)
EXTENDS UnasSession

CONSTANTS poll, service

MCTasks == {poll, service}
MCCancellable == {poll}
=============================================================================
