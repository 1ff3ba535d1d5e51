------------------------------ MODULE PidAlloc ------------------------------
(***************************************************************************)
(* What proc.c promises about process identifiers: a new process gets a    *)
(* pid in 1 .. MAX_PID-1 that no process of proc_list holds, at most       *)
(* MaxListed processes are listed, and a pid is given back when its        *)
(* process is reaped.  How the pid is found is the business of GetPid.     *)
(***************************************************************************)
EXTENDS Naturals, FiniteSets

CONSTANTS
    MAX_PID,        \* one more than the largest pid
    MaxListed       \* processes proc_list can hold (MAX_PROCESS less idleproc)

VARIABLE live       \* the pids of the processes of proc_list

AbsInit == live = {}

Alloc == /\ Cardinality(live) < MaxListed
         /\ \E p \in (1 .. MAX_PID - 1) \ live : live' = live \cup {p}

Release == \E p \in live : live' = live \ {p}

AbsNext == Alloc \/ Release

AbsSpec == AbsInit /\ [][AbsNext]_live
=============================================================================
