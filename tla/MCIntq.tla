------------------------------- MODULE MCIntq -------------------------------
(* Instances of Intq for TLC. *)
EXTENDS Intq, TLC

MCThreads == Getters \cup Putters
MCSymmetry == Permutations(Getters) \cup Permutations(Putters) \cup Permutations(Bytes)
=============================================================================
