----------------------------- MODULE PintosSync -----------------------------
(***************************************************************************)
(* Semaphores and locks of Pintos, threads/synch.c, as operators for the   *)
(* modules whose threads call them.  Pintos threads are preempted by the   *)
(* timer wherever interrupts are on, so a step is what synch.c does with   *)
(* interrupts off, or code between two such parts, and the steps of        *)
(* threads that are not blocked interleave in any order.                   *)
(***************************************************************************)
EXTENDS Integers, Sequences, FiniteSets

CONSTANTS
    Threads,
    Locks,          \* each stands for its lock->semaphore, too
    None            \* no holder

\* The semaphores: those of the locks, and the one that cond_wait puts on the
\* stack of the waiting thread.
Sems == Locks \cup Threads

ASSUME SyncConstants == /\ IsFiniteSet(Threads)
                        /\ Locks \cap Threads = {}
                        /\ None \notin Threads

VARIABLES
    value,          \* sema->value
    waiters,        \* sema->waiters
    blocked,        \* the threads whose status is THREAD_BLOCKED
    holder,         \* lock->holder
    pc              \* where each thread is in the code that calls synch.c

syncVars == <<value, waiters, blocked, holder>>

Goto(t, label) == pc' = [pc EXCEPT ![t] = label]

Waiting(s) == {waiters[s][i] : i \in DOMAIN waiters[s]}

SyncInit == /\ value = [s \in Sems |-> IF s \in Locks THEN 1 ELSE 0]
            /\ waiters = [s \in Sems |-> <<>>]
            /\ blocked = {}
            /\ holder = [l \in Locks |-> None]
            /\ pc = [t \in Threads |-> "out"]

\* The condition of the loop in sema_down, negated.
CanPass(s) == value[s] > 0

\* sema_down leaves its loop and takes the unit, or ...
Pass(t, s) == /\ t \notin blocked
              /\ CanPass(s)
              /\ value' = [value EXCEPT ![s] = @ - 1]
              /\ UNCHANGED <<waiters, blocked>>

\* ... queues the thread and blocks it, to test the value again when it runs.
Sleep(t, s) == /\ t \notin blocked
               /\ ~CanPass(s)
               /\ waiters' = [waiters EXCEPT ![s] = Append(@, t)]
               /\ blocked' = blocked \cup {t}
               /\ UNCHANGED value

\* The waiter that sema_up unblocks, if there are any ...
FirstWaiter(s) == Head(waiters[s])
LetGo(s) == IF waiters[s] = <<>> THEN {} ELSE {FirstWaiter(s)}

\* ... and the wait lists without it.
Popped(s) == [waiters EXCEPT ![s] = IF @ = <<>> THEN @ ELSE Tail(@)]

\* sema_up: the first waiter may run again; the unit is anybody's.
Up(s) == /\ waiters' = Popped(s)
         /\ blocked' = blocked \ LetGo(s)
         /\ value' = [value EXCEPT ![s] = @ + 1]

-----------------------------------------------------------------------------
\* thread_unblock asserts that its thread is blocked, and a thread has one list
\* element for the ready list and all wait lists: a blocked thread is on exactly
\* one wait list, once, and a thread that is not blocked is on none.
WaitersBlocked ==
    /\ \A s \in Sems : \A i, j \in DOMAIN waiters[s] :
          waiters[s][i] = waiters[s][j] => i = j
    /\ \A s, r \in Sems : s # r => Waiting(s) \cap Waiting(r) = {}
    /\ blocked = UNION {Waiting(s) : s \in Sems}
=============================================================================
