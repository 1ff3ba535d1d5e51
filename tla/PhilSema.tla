------------------------------ MODULE PhilSema ------------------------------
(***************************************************************************)
(* The dining philosophers over semaphores: a mutex for the table and, for *)
(* each philosopher, a semaphore s[i] that is upped when it is seated.     *)
(***************************************************************************)
EXTENDS PhilTable

ASSUME SemaConstants == Sems = Phils \cup {Mutex}

vars == <<schedVars, semVars, tableVars>>

\* Where a philosopher goes when a down() returns, and on which semaphore.
AfterDown == [take |-> "hungry", wait |-> "eat", put |-> "put_left"]
SemOf(i) == IF pc[i] = "wait" THEN i ELSE Mutex
\* Where it goes after leaving the critical section.
AfterUp == [take_up |-> "wait", put_up |-> "think"]

-----------------------------------------------------------------------------
\* Plausible slips, for the sensitivity checks.
SeatSilently(st, j) ==
    /\ phi_state' = IF MayEat(st, j) THEN [st EXCEPT ![j] = "EATING"] ELSE st
    /\ UNCHANGED <<value, waitq, flags, state, waitState, runq, slice>>

PutRightTestsLeft(i) ==
    /\ At(i, "put_right")
    /\ phi_state' = phi_state
    /\ Goto(i, "put_up")
    /\ UNCHANGED <<schedVars, semVars, iter>>

\* phi_test_sema(j), the philosophers' states being st: seat j and up s[j], or
\* do nothing.
Test(st, j) ==
    IF MayEat(st, j)
    THEN phi_state' = [st EXCEPT ![j] = "EATING"] /\ Up(j)
    ELSE phi_state' = st /\ UNCHANGED <<value, waitq, flags, state, waitState,
                                        runq, slice>>

\* A part of the critical section: test j, the states being st, and go on.
TestAt(i, label, st, j, next) ==
    /\ At(i, label)
    /\ Test(st, j)
    /\ Goto(i, next)
    /\ UNCHANGED <<current, needResched, waitOn, phase, iter>>

\* phi_take_forks_sema.
Hungry(i) ==
    TestAt(i, "hungry", [phi_state EXCEPT ![i] = "HUNGRY"], i, "take_up")

\* phi_put_forks_sema: the left neighbour, then the right one, is tested.
PutLeft(i) == TestAt(i, "put_left", [phi_state EXCEPT ![i] = "THINKING"],
                     LEFT(i), "put_right")
PutRight(i) == TestAt(i, "put_right", phi_state, RIGHT(i), "put_up")

\* up(&mutex) at the end of either.
UpMutex(i) == /\ Runs(i) /\ pc[i] \in DOMAIN AfterUp
              /\ Up(Mutex)
              /\ Goto(i, AfterUp[pc[i]])
              /\ UNCHANGED <<current, needResched, waitOn, phase, iter,
                             phi_state>>

\* down(&mutex) and down(&s[i]).
Acquire(i) == /\ pc[i] \in DOMAIN AfterDown
              /\ Down(i, SemOf(i), AfterDown[pc[i]])

Step(i) == \/ LoopStep(i) \/ Acquire(i) \/ UpMutex(i)
           \/ Hungry(i) \/ PutLeft(i) \/ PutRight(i)

Next == Clock \/ Idling \/ \E i \in Phils : Step(i) \/ Awakened(i)

\* The clock ticks, idleproc loops, kernel threads run to the point where they
\* block, and sleeps end.
Fairness == /\ WF_vars(Clock) /\ WF_vars(Idling)
            /\ \A i \in Phils : WF_vars(Step(i)) /\ WF_vars(Awakened(i))

Spec == TableInit /\ [][Next]_vars /\ Fairness

-----------------------------------------------------------------------------
\* A unit of s[i] stands for a seat given and not yet taken: it is in value, or
\* handed over with a wakeup, exactly while i is EATING and still on its way
\* through down(&s[i]).  No seat is given twice and none is lost.
SeatUnits(i) == value[i] + IF waitOn[i] = i /\ flags[i] = "KSEM" THEN 1 ELSE 0
SeatPromised ==
    \A i \in Phils :
        SeatUnits(i) = IF phi_state[i] = "EATING" /\ pc[i] \in {"take_up", "wait"}
                       THEN 1 ELSE 0

\* Neighbours never eat together, and whoever may eat gets to.
SeatsSound == Exclusion /\ SeatPromised

\* Every philosopher has all its meals and quits: no deadlock, no starvation.
AllQuit == \A i \in Phils : <>(pc[i] = "quit")
-----------------------------------------------------------------------------
PCs == {"think", "take", "hungry", "take_up", "wait", "eat", "put", "put_left",
        "put_right", "put_up", "quit"}

PhilTypeOK == /\ pc \in [Phils -> PCs]
              /\ iter \in [Phils -> 0 .. TIMES]
              /\ phi_state \in [Phils -> {"THINKING", "HUNGRY", "EATING"}]

\* A philosopher that is on its way to sleep, asleep or just back is in the
\* down() that pc tells, or in a do_sleep, or gone for good; nobody else is in a
\* down().
DownAgrees ==
    /\ \A p \in Procs \ Phils : waitOn[p] = NoSem
    /\ \A i \in Phils :
          IF waitOn[i] = NoSem
          THEN phase[i] # "run" => pc[i] \in {"think", "eat", "quit"}
          ELSE pc[i] \in DOMAIN AfterDown /\ waitOn[i] = SemOf(i)
    /\ \A i \in Phils : pc[i] = "quit" => state[i] = "ZOMBIE"

\* state_sema follows the program, except that a hungry philosopher may have
\* been seated.
StatesAgree == \A i \in Phils :
    phi_state[i] \in CASE pc[i] \in {"take_up", "wait"} -> {"HUNGRY", "EATING"}
                       [] pc[i] \in {"eat", "put", "put_left"} -> {"EATING"}
                       [] OTHER -> {"THINKING"}

\* No two neighbours are seated, whatever they know of it.
SeatsApart == \A i \in Phils :
    phi_state[i] = "EATING" => phi_state[RIGHT(i)] # "EATING"

\* The inductive strengthening of SeatsSound.
PhilInv == /\ SemInv /\ PhilTypeOK /\ DownAgrees /\ StatesAgree
           /\ SeatsApart /\ SeatPromised
=============================================================================
