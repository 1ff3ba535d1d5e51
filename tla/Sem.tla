-------------------------------- MODULE Sem ---------------------------------
(***************************************************************************)
(* Semaphores of ucore, kern/sync/sem.c over kern/sync/wait.c, and the way *)
(* a kernel thread gives up the processor inside down() and do_sleep().    *)
(* The operators are used by the modules whose processes call them; those  *)
(* run kernel code, which keeps the processor until it calls schedule().   *)
(***************************************************************************)
EXTENDS Sched

CONSTANTS
    Sems,           \* the semaphores
    NoSem           \* no wait_t on the stack

ASSUME SemConstants == NoSem \notin Sems

VARIABLES
    value,          \* sem->value
    waitq,          \* sem->wait_queue: the processes of its wait_t's
    waitOn,         \* wait->wait_queue of the wait_t in the down() of p
    flags,          \* wait->wakeup_flags of that wait_t
    phase           \* "run"; "leaving" before schedule(); "back" after it

semVars == <<value, waitq, waitOn, flags, phase>>

Flags == {"INTERRUPTED", "KSEM"}

Waiting(s) == {waitq[s][i] : i \in DOMAIN waitq[s]}

\* p executes code of its own.
Runs(p) == current = p /\ phase[p] = "run"

\* p has come back from schedule().
Back(p) == current = p /\ phase[p] = "back"

-----------------------------------------------------------------------------
\* Plausible slips, for the sensitivity checks.
CanTakeAlways(s) == TRUE
LastWaiter(s) == waitq[s][Len(waitq[s])]
KeptInQueue(s) == waitq

\* __down: "if (sem->value > 0)".
CanTake(s) == value[s] > 0

\* down() or try_down() that finds a unit.
Take(s) == /\ CanTake(s)
           /\ value' = [value EXCEPT ![s] = @ - 1]

\* down() that does not: wait_current_set.  The process still has the
\* processor, with interrupts on, until it calls schedule().
Block(p, s) == /\ ~CanTake(s)
               /\ FallAsleep(p, "KSEM")
               /\ waitq' = [waitq EXCEPT ![s] = Append(@, p)]
               /\ waitOn' = [waitOn EXCEPT ![p] = s]
               /\ flags' = [flags EXCEPT ![p] = "INTERRUPTED"]
               /\ phase' = [phase EXCEPT ![p] = "leaving"]

\* The process up() wakes.
FirstWaiter(s) == Head(waitq[s])

\* The wait queue when up() has taken its first wait_t off.
Dequeued(s) == [waitq EXCEPT ![s] = Tail(@)]

\* up() with waiters: the unit goes to the first of them, not to value.
Grant(s) == /\ waitq[s] # <<>>
            /\ LET w == FirstWaiter(s)
               IN  /\ Wakeup(w)
                   /\ flags' = [flags EXCEPT ![w] = "KSEM"]
            /\ waitq' = Dequeued(s)
            /\ UNCHANGED value

\* up() without waiters.
Release(s) == /\ waitq[s] = <<>>
              /\ value' = [value EXCEPT ![s] = @ + 1]
              /\ UNCHANGED <<waitq, flags, state, waitState, runq, slice>>

Up(s) == Grant(s) \/ Release(s)

\* down() goes on after schedule(): wait_current_del, a no-op when up() has
\* taken the wait_t off already, and the return.
DownReturns(p) ==
    /\ Back(p)
    /\ waitOn[p] # NoSem
    /\ IF p \in Waiting(waitOn[p])
       THEN waitq' = [waitq EXCEPT ![waitOn[p]] =
                         SelectSeq(@, LAMBDA q : q # p)]
       ELSE UNCHANGED waitq
    /\ waitOn' = [waitOn EXCEPT ![p] = NoSem]
    /\ phase' = [phase EXCEPT ![p] = "run"]

\* The call of schedule() of a process that has fallen asleep.
Leave(p) == /\ current = p /\ phase[p] = "leaving"
            /\ Schedule
            /\ phase' = [phase EXCEPT ![p] = "back"]
            /\ UNCHANGED <<value, waitq, waitOn, flags>>

\* do_sleep up to its schedule(), and its return.
Doze(p) == /\ FallAsleep(p, "TIMER")
           /\ phase' = [phase EXCEPT ![p] = "leaving"]
DozeReturns(p) == /\ Back(p)
                  /\ waitOn[p] = NoSem
                  /\ phase' = [phase EXCEPT ![p] = "run"]

-----------------------------------------------------------------------------
\* The steps of the rest of the kernel that matter here.

\* A timer interrupt expires the timer of a sleeper.
TimerWakes(p) == waitState[p] = "TIMER" /\ Wakeup(p)

\* Some process is killed: do_kill.
KillWakes(p) == MustWake(p) /\ Wakeup(p)

Awaken(p) == /\ TimerWakes(p) \/ KillWakes(p)
             /\ UNCHANGED <<current, needResched, semVars>>

\* A timer interrupt with no timer to expire.
Tick == /\ ProcTick(current)
        /\ UNCHANGED <<current, state, waitState, runq, semVars>>

\* idleproc looks for something to run.
IdleYields == /\ current = Idle
              /\ needResched[Idle]
              /\ Schedule
              /\ UNCHANGED semVars

-----------------------------------------------------------------------------
SemTypeOK == /\ value \in [Sems -> Nat]
             /\ waitq \in [Sems -> Seq(Procs)]
             /\ waitOn \in [Procs -> Sems \cup {NoSem}]
             /\ flags \in [Procs -> Flags]
             /\ phase \in [Procs -> {"run", "leaving", "back"}]

\* A wait_t is on exactly the queue of the semaphore its process is blocked on,
\* once, until up() takes it off and marks it; the process sleeps in WT_KSEM as
\* long.  wait_t lives on the stack of down(), so a link left behind would
\* dangle.
WaitqExact ==
    \A s \in Sems :
        /\ \A i, j \in DOMAIN waitq[s] : waitq[s][i] = waitq[s][j] => i = j
        /\ Waiting(s) = {p \in Procs : waitOn[p] = s /\ waitState[p] = "KSEM"}
        /\ Waiting(s) = {p \in Procs : waitOn[p] = s
                                       /\ flags[p] = "INTERRUPTED"}

\* No process waits for a unit that is there.
NoIdleUnit == \A s \in Sems : value[s] > 0 => waitq[s] = <<>>

\* The wait queues can be trusted: who is on one really waits, and for good
\* reason.
WaitqSound == WaitqExact /\ NoIdleUnit

\* down() asserts that it was woken by up() and by nothing else.
DownAssert == \A p \in Procs : Back(p) /\ waitOn[p] # NoSem => flags[p] = "KSEM"

-----------------------------------------------------------------------------
TypeOK == SchedTypeOK /\ SemTypeOK

\* Units that up() has handed to a process still inside down().
Granted(s) == {p \in Procs : waitOn[p] = s /\ flags[p] = "KSEM"}

\* The running process is awake, unless it is on its way to schedule().
CurrentAwake == phase[current] # "leaving" => state[current] = "RUNNABLE"

\* The wait_t on a process's stack exists only while it is inside down().
NoStaleWait == \A p \in Procs : phase[p] = "run" => waitOn[p] = NoSem

\* The inductive strengthening of the invariants, for any client.
SemInv == /\ TypeOK /\ RunqExact /\ SleepAgrees /\ WaitqExact /\ NoIdleUnit
          /\ CurrentAwake /\ NoStaleWait
          /\ state[Idle] = "RUNNABLE"
          /\ \A s \in Sems : IsFiniteSet(Granted(s))
=============================================================================
