------------------------------ MODULE MCMemory ------------------------------
(* An instance of Memory for TLC. *)
EXTENDS Memory, TLC

Symmetric == Permutations(Procs)
=============================================================================
