------------------------------- MODULE MemAbs -------------------------------
(***************************************************************************)
(* What virtual memory promises its user: a page holds what was written    *)
(* to it last, wherever the kernel keeps it meanwhile.  While a page fault *)
(* is served nothing is written.  A page that has never been used can hold *)
(* anything when its first fault is over.                                  *)
(***************************************************************************)
CONSTANTS
    VPages,         \* virtual pages
    Values,         \* what a page can contain
    Nothing         \* the contents of a page that is not mapped; no page

VARIABLES
    mem,            \* the contents of each page
    faulting        \* the page whose fault is being served, or Nothing

absVars == <<mem, faulting>>

AbsInit == mem = [v \in VPages |-> Nothing] /\ faulting = Nothing

Write(v) == /\ faulting = Nothing /\ mem[v] # Nothing
            /\ \E x \in Values : mem' = [mem EXCEPT ![v] = x]
            /\ UNCHANGED faulting

Fault(v) == /\ faulting = Nothing
            /\ faulting' = v
            /\ UNCHANGED mem

Served(v) == /\ faulting = v
             /\ faulting' = Nothing
             /\ \E x \in Values :
                   mem' = IF mem[v] = Nothing THEN [mem EXCEPT ![v] = x] ELSE mem

UnmapAll == /\ faulting = Nothing
            /\ mem' = [v \in VPages |-> Nothing]
            /\ UNCHANGED faulting

AbsNext == UnmapAll \/ \E v \in VPages : Write(v) \/ Fault(v) \/ Served(v)

AbsSpec == AbsInit /\ [][AbsNext]_absVars
=============================================================================
