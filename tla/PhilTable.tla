----------------------------- MODULE PhilTable ------------------------------
(***************************************************************************)
(* What the two dining-philosophers programs of kern/sync/check_sync.c     *)
(* have in common: the table, the condition for eating, and the loop of a  *)
(* philosopher.  The philosophers are kernel threads: one keeps the        *)
(* processor until it blocks in down() or sleeps, so the interleavings     *)
(* that matter are those of the timer interrupt, of who is woken when, and *)
(* of what a philosopher finds when it comes back from schedule().         *)
(***************************************************************************)
EXTENDS Sem

CONSTANTS
    Mutex,          \* the semaphore of the critical section
    N,              \* philosophers
    TIMES           \* meals of each

Phils == 0 .. N - 1

ASSUME TableConstants == /\ N \in Nat \ {0, 1, 2}
                         /\ TIMES \in Nat \ {0}
                         /\ Users = Phils
                         /\ Phils \cup {Mutex} \subseteq Sems
                         /\ Mutex \notin Phils

VARIABLES
    pc,             \* where each philosopher is
    iter,           \* meals a philosopher has begun to think about
    phi_state       \* state_sema

tableVars == <<pc, iter, phi_state>>

LEFT(i) == (i - 1 + N) % N
RIGHT(i) == (i + 1) % N

At(i, label) == Runs(i) /\ pc[i] = label
Goto(i, label) == pc' = [pc EXCEPT ![i] = label]

\* Where a philosopher goes when a do_sleep returns.
AfterSleep == [think |-> "take", eat |-> "put"]

\* check_sync: the philosophers are created in order and wait to run;
\* initproc goes to sleep in do_wait.
TableInit ==
    /\ current = Idle
    /\ state = [p \in Procs |-> IF p = InitP THEN "SLEEPING" ELSE "RUNNABLE"]
    /\ waitState = [p \in Procs |-> IF p = InitP THEN "CHILD" ELSE "0"]
    /\ needResched = [p \in Procs |-> p = Idle]
    /\ slice = [p \in Procs |-> IF p \in Phils THEN MaxSlice ELSE 0]
    /\ runq = [i \in 1 .. N |-> i - 1]
    /\ value = [s \in Sems |-> IF s = Mutex THEN 1 ELSE 0]
    /\ waitq = [s \in Sems |-> <<>>]
    /\ waitOn = [p \in Procs |-> NoSem]
    /\ flags = [p \in Procs |-> "KSEM"]
    /\ phase = [p \in Procs |-> "run"]
    /\ pc = [i \in Phils |-> "think"]
    /\ iter = [i \in Phils |-> 0]
    /\ phi_state = [i \in Phils |-> "THINKING"]

\* The condition of phi_test_sema, in the states st.
MayEat(st, j) == /\ st[j] = "HUNGRY"
                 /\ st[LEFT(j)] # "EATING"
                 /\ st[RIGHT(j)] # "EATING"

\* The loop of a philosopher: think, or quit after TIMES meals.
Think(i) == /\ At(i, "think")
            /\ iter[i] < TIMES
            /\ iter' = [iter EXCEPT ![i] = @ + 1]
            /\ Doze(i)
            /\ UNCHANGED <<current, needResched, slice, runq, value, waitq,
                           waitOn, flags, pc, phi_state>>

\* The thread returns and its do_exit makes it a zombie, which leaves the
\* processor for good.
Quit(i) == /\ At(i, "think")
           /\ iter[i] = TIMES
           /\ state' = [state EXCEPT ![i] = "ZOMBIE"]
           /\ phase' = [phase EXCEPT ![i] = "leaving"]
           /\ Goto(i, "quit")
           /\ UNCHANGED <<current, waitState, needResched, slice, runq, value,
                          waitq, waitOn, flags, iter, phi_state>>

\* A philosopher eats.
Eat(i) == /\ At(i, "eat")
          /\ Doze(i)
          /\ UNCHANGED <<current, needResched, slice, runq, value, waitq,
                         waitOn, flags, tableVars>>

\* do_sleep returns.
Rested(i) == /\ DozeReturns(i)
             /\ Goto(i, AfterSleep[pc[i]])
             /\ UNCHANGED <<schedVars, value, waitq, waitOn, flags, iter,
                            phi_state>>

Away(i) == Leave(i) /\ UNCHANGED tableVars

\* A down(s) of philosopher i, which goes to next once it has its unit: at
\* once, or when it has blocked and has been woken.
Down(i, s, next) ==
    /\ \/ /\ Runs(i)
          /\ Take(s)
          /\ Goto(i, next)
          /\ UNCHANGED <<schedVars, waitq, waitOn, flags, phase>>
       \/ /\ Runs(i)
          /\ Block(i, s)
          /\ UNCHANGED <<current, needResched, slice, runq, value, pc>>
       \/ /\ DownReturns(i)
          /\ Goto(i, next)
          /\ UNCHANGED <<schedVars, value, flags>>
    /\ UNCHANGED <<iter, phi_state>>

LoopStep(i) == Think(i) \/ Quit(i) \/ Eat(i) \/ Rested(i) \/ Away(i)

\* Time passes for a sleeper, or it is killed and so woken early.
Awakened(i) == Awaken(i) /\ UNCHANGED tableVars

Clock == Tick /\ UNCHANGED tableVars
Idling == IdleYields /\ UNCHANGED tableVars

-----------------------------------------------------------------------------
\* Philosophers that have been given their forks.
Holds(i) == pc[i] \in {"eat", "put"}

\* Neighbours never eat at the same time, and whoever eats is known to.
Exclusion == \A i \in Phils : Holds(i) => /\ ~Holds(LEFT(i))
                                          /\ ~Holds(RIGHT(i))
                                          /\ phi_state[i] = "EATING"
=============================================================================
