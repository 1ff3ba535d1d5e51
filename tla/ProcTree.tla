------------------------------ MODULE ProcTree ------------------------------
(***************************************************************************)
(* The family links of kern/process/proc.c.  A process knows its parent,   *)
(* its youngest child (cptr) and its next younger and next older sibling   *)
(* (yptr, optr); fork links a process in, do_exit moves the children of    *)
(* the dying process to initproc one after the other, and do_wait takes    *)
(* the zombie it found out of the list.  All three run with interrupts     *)
(* off.  Processes are named by the pids that get_pid gives them, so the   *)
(* module extends GetPid: the next process with its pid is another one.    *)
(***************************************************************************)
EXTENDS GetPid

VARIABLES
    parent,         \* proc->parent
    cptr,           \* proc->cptr, the youngest child
    yptr,           \* proc->yptr, the next younger sibling
    optr,           \* proc->optr, the next older sibling
    zombies,        \* the processes in state PROC_ZOMBIE
    dying           \* the process in the critical section of do_exit, or Null

links == <<parent, cptr, yptr, optr>>
treeVars == <<vars, links, zombies, dying>>

IdlePid == 0
InitPid == 1
Null == MAX_PID         \* no process
Pids == 0 .. MAX_PID - 1

\* alloc_proc sets the links to NULL.
TreeInit == /\ Init
            /\ parent = [p \in Pids |-> Null]
            /\ cptr = [p \in Pids |-> Null]
            /\ yptr = [p \in Pids |-> Null]
            /\ optr = [p \in Pids |-> Null]
            /\ zombies = {}
            /\ dying = Null

Running == ({IdlePid} \cup live) \ zombies

\* Who calls do_fork: idleproc once, for initproc, then any other process.
Forkers == IF live = {} THEN {IdlePid} ELSE Running \ {IdlePid}

-----------------------------------------------------------------------------
\* Plausible slips, for the sensitivity checks.
SetYoungerNever(f, o, y) == f
SetOlderNever(f, y, o) == f

-----------------------------------------------------------------------------
\* "if (o != NULL) o->yptr = y" and "if (y != NULL) y->optr = o".
SetYounger(f, o, y) == IF o # Null THEN [f EXCEPT ![o] = y] ELSE f
SetOlder(f, y, o) == IF y # Null THEN [f EXCEPT ![y] = o] ELSE f

\* c, allocated by do_fork with parent p, becomes the youngest child of p.
SetLinks(c, p) ==
    /\ parent' = [parent EXCEPT ![c] = p]
    /\ yptr' = SetYounger([yptr EXCEPT ![c] = Null], cptr[p], c)
    /\ optr' = [optr EXCEPT ![c] = cptr[p]]
    /\ cptr' = [cptr EXCEPT ![p] = c]

\* The zombie z leaves the list of its parent's children and is freed.
RemoveLinks(z) ==
    /\ yptr' = [SetYounger(yptr, optr[z], yptr[z]) EXCEPT ![z] = Null]
    /\ optr' = [SetOlder(optr, yptr[z], optr[z]) EXCEPT ![z] = Null]
    /\ cptr' = IF yptr[z] = Null THEN [cptr EXCEPT ![parent[z]] = optr[z]]
               ELSE cptr
    /\ parent' = [parent EXCEPT ![z] = Null]

\* The steps of do_fork and get_pid that change no link.
PidStep == /\ Enter \/ MeetTaken \/ MeetOther \/ ScanEnd
           /\ Enter => dying = Null
           /\ UNCHANGED <<links, zombies, dying>>

\* do_fork has its pid: hash_proc, set_links.
ForkReturn == /\ Return
              /\ \E p \in Forkers : SetLinks(last_pid, p)
              /\ UNCHANGED <<zombies, dying>>

\* do_exit enters its critical section; idleproc and initproc panic instead.
Exit == /\ pc = "idle" /\ dying = Null
        /\ dying' \in Running \ {IdlePid, InitPid}
        /\ zombies' = zombies \cup {dying'}
        /\ UNCHANGED <<vars, links>>

\* do_exit gives its youngest child to initproc.
AdoptChild ==
    /\ dying # Null /\ cptr[dying] # Null
    /\ LET c == cptr[dying]
       IN  /\ cptr' = [cptr EXCEPT ![dying] = optr[c], ![InitPid] = c]
           /\ yptr' = SetYounger([yptr EXCEPT ![c] = Null], cptr[InitPid], c)
           /\ optr' = [optr EXCEPT ![c] = cptr[InitPid]]
           /\ parent' = [parent EXCEPT ![c] = InitPid]
    /\ UNCHANGED <<vars, zombies, dying>>

ExitDone == /\ dying # Null /\ cptr[dying] = Null
            /\ dying' = Null
            /\ UNCHANGED <<vars, links, zombies>>

\* do_wait has found a zombie child: unhash_proc, remove_links, kfree.
WaitReap == /\ dying = Null
            /\ \E z \in zombies : /\ Reap /\ live' = live \ {z}
                                  /\ RemoveLinks(z)
                                  /\ zombies' = zombies \ {z}
            /\ UNCHANGED dying

TreeNext == PidStep \/ ForkReturn \/ Exit \/ AdoptChild \/ ExitDone \/ WaitReap

\* get_pid and do_exit are straight-line code run with interrupts off.
TreeSpec == /\ TreeInit /\ [][TreeNext]_treeVars
            /\ WF_treeVars(ForkReturn \/ (PidStep /\ ~Enter))
            /\ WF_treeVars(AdoptChild \/ ExitDone)
-----------------------------------------------------------------------------
Children(p) == {c \in live : parent[c] = p}

\* The processes that the loop "for (proc = p->cptr; proc; proc = proc->optr)"
\* of do_wait meets: the least set that has cptr[p] and the optr of its members.
Reached(p) == {c \in live : \A S \in SUBSET live :
                  /\ cptr[p] \in S \cup {Null}
                  /\ \A d \in S : optr[d] \in S \cup {Null}
                  => c \in S}

\* No link is dangling and the links agree: a child without a younger sibling
\* is its parent's cptr, x is the older sibling of y if and only if y is the
\* younger sibling of x, siblings have the same parent, and that parent lives.
LinksAgree ==
    pc = "idle" /\ dying = Null =>
        /\ \A p \in {IdlePid} \cup live :
              cptr[p] # Null => /\ cptr[p] \in Children(p)
                                /\ yptr[cptr[p]] = Null
        /\ \A c \in live :
              /\ parent[c] \in Running
              /\ yptr[c] = Null => cptr[parent[c]] = c
              /\ yptr[c] # Null => /\ yptr[c] \in Children(parent[c])
                                   /\ optr[yptr[c]] = c
              /\ optr[c] # Null => /\ optr[c] \in Children(parent[c])
                                   /\ yptr[optr[c]] = c

\* do_wait overlooks no child: walking the links from cptr meets exactly the
\* processes whose parent is p.
ChildrenReached ==
    pc = "idle" /\ dying = Null =>
        \A p \in {IdlePid} \cup live : Reached(p) = Children(p)
=============================================================================
