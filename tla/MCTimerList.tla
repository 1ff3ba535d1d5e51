----------------------------- MODULE MCTimerList ----------------------------
(* An instance of TimerList for TLC. *)
EXTENDS TimerList
=============================================================================
