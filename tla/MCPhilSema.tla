----------------------------- MODULE MCPhilSema -----------------------------
(* An instance of PhilSema for TLC. *)
EXTENDS PhilSema

MCUsers == 0 .. N - 1
MCSems == MCUsers \cup {Mutex}
=============================================================================
