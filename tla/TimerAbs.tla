------------------------------ MODULE TimerAbs ------------------------------
(***************************************************************************)
(* What ucore's timers promise the rest of the kernel: each armed timer    *)
(* has a number of ticks left, every tick takes one from all of them, and  *)
(* a timer with none left fires before that tick's interrupt returns.      *)
(* TimerList implements it with a delta list; Proc is written against it.  *)
(***************************************************************************)
EXTENDS Integers

CONSTANTS
    Timers,         \* one for each process that may sleep
    Times           \* times they are armed with

VARIABLES
    left,           \* ticks left, or Unarmed
    firing          \* a tick's due timers are being fired

Unarmed == -1

AbsInit == left = [t \in Timers |-> Unarmed] /\ firing = FALSE

Arm(t) == /\ ~firing
          /\ left[t] = Unarmed
          /\ \E n \in Times : left' = [left EXCEPT ![t] = n]
          /\ UNCHANGED firing

Cancel(t) == /\ ~firing
             /\ left' = [left EXCEPT ![t] = Unarmed]
             /\ UNCHANGED firing

Tick == /\ ~firing
        /\ left' = [t \in Timers |-> IF left[t] = Unarmed THEN Unarmed
                                                          ELSE left[t] - 1]
        /\ firing' = TRUE

Fire(t) == /\ firing
           /\ left[t] = 0
           /\ left' = [left EXCEPT ![t] = Unarmed]
           /\ UNCHANGED firing

\* The tick is over when no timer is due any more.
Done == /\ firing
        /\ \A t \in Timers : left[t] # 0
        /\ firing' = FALSE
        /\ UNCHANGED left

AbsNext == Tick \/ Done \/ \E t \in Timers : Arm(t) \/ Cancel(t) \/ Fire(t)

AbsSpec == AbsInit /\ [][AbsNext]_<<left, firing>>
=============================================================================
