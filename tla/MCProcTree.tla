----------------------------- MODULE MCProcTree -----------------------------
(* An instance of ProcTree for TLC. *)
EXTENDS ProcTree
=============================================================================
