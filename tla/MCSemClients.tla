---------------------------- MODULE MCSemClients ----------------------------
(* An instance of SemClients for TLC: a mutex and an empty semaphore. *)
EXTENDS SemClients, TLC

CONSTANTS mutex, other

MCSems == {mutex, other}
MCInitValue == (mutex :> 1) @@ (other :> 0)
UserSymmetry == Permutations(Users)
=============================================================================
