----------------------------- MODULE MCPintosFs -----------------------------
(* An instance of PintosFs for TLC. *)
EXTENDS PintosFs, TLC

Symmetric == Permutations(Handles) \cup Permutations(Names \ InvalidNames)
=============================================================================
