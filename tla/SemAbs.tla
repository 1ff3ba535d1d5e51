------------------------------- MODULE SemAbs -------------------------------
(***************************************************************************)
(* Counting semaphores as sem.h means them: a unit is taken only when one  *)
(* is there, and every unit given is there to be taken.                    *)
(***************************************************************************)
EXTENDS Naturals

CONSTANTS Sems, InitValue

VARIABLE avail      \* units that have been given and not been taken

AbsInit == avail = InitValue

P(s) == avail[s] > 0 /\ avail' = [avail EXCEPT ![s] = @ - 1]

V(s) == avail' = [avail EXCEPT ![s] = @ + 1]

AbsNext == \E s \in Sems : P(s) \/ V(s)

AbsSpec == AbsInit /\ [][AbsNext]_avail
=============================================================================
