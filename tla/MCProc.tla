------------------------------- MODULE MCProc -------------------------------
(* Instances of Proc for TLC. *)
EXTENDS Proc, TLC

UserSymmetry == Permutations(Users)
=============================================================================
