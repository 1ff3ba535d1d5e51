-------------------------------- MODULE Sched --------------------------------
(***************************************************************************)
(* The scheduler core of ucore: kern/schedule/sched.c with the round-robin *)
(* class of default_sched.c.  The machine has one processor; current is    *)
(* the process it runs.  The operators are the kernel's functions: they    *)
(* are used by the modules whose actions call them.                        *)
(***************************************************************************)
EXTENDS Integers, Sequences, FiniteSets

CONSTANTS
    Idle,           \* idleproc
    InitP,          \* initproc
    Users,          \* proc_structs of the other processes
    MaxSlice        \* rq->max_time_slice

ASSUME SchedConstants == /\ Idle # InitP
                         /\ Idle \notin Users
                         /\ InitP \notin Users
                         /\ MaxSlice \in Nat \ {0}

VARIABLES
    current,        \* the running process
    state,          \* proc->state; "NONE" where no proc_struct is allocated
    waitState,      \* proc->wait_state: "0" or what WT_... says p waits for
    needResched,    \* proc->need_resched
    slice,          \* proc->time_slice
    runq            \* rq->run_list

schedVars == <<current, state, waitState, needResched, slice, runq>>

Procs == Users \cup {Idle, InitP}

States == {"NONE", "SLEEPING", "RUNNABLE", "ZOMBIE"}

\* WT_CHILD and WT_TIMER have the WT_INTERRUPTED bit, WT_KSEM has not.
Interruptible == {"CHILD", "TIMER"}
WaitStates == Interruptible \cup {"0", "KSEM"}

-----------------------------------------------------------------------------
\* Plausible slips, for the sensitivity checks.
WakeupUnchecked(p) ==
    /\ state' = [state EXCEPT ![p] = "RUNNABLE"]
    /\ waitState' = [waitState EXCEPT ![p] = "0"]
    /\ IF p # current THEN runq' = Append(runq, p) ELSE UNCHANGED runq
    /\ UNCHANGED slice
MustWakeAnySleeper(q) == waitState[q] # "0"
MustWakeNobody(q) == FALSE

\* RR_enqueue: a used-up time slice is refilled.
Refill(p) == [slice EXCEPT ![p] = IF slice[p] = 0 THEN MaxSlice ELSE slice[p]]

\* wait_state after wakeup_proc(p).
Woken(p) == [waitState EXCEPT ![p] = "0"]

\* wakeup_proc(p): a process that is runnable already is left alone (with a
\* warning); the running process becomes runnable without being queued.
Wakeup(p) ==
    IF state[p] = "RUNNABLE"
    THEN UNCHANGED <<state, waitState, runq, slice>>
    ELSE /\ state' = [state EXCEPT ![p] = "RUNNABLE"]
         /\ waitState' = Woken(p)
         /\ IF p # current
            THEN runq' = Append(runq, p) /\ slice' = Refill(p)
            ELSE UNCHANGED <<runq, slice>>

\* The run queue as schedule() finds it after putting back a running current.
Requeued == IF state[current] = "RUNNABLE" /\ current # Idle
            THEN Append(runq, current) ELSE runq

\* schedule(): the running process goes back to the run queue if it can run,
\* and the head of the queue, or idleproc, gets the processor.
Schedule ==
    /\ needResched' = [needResched EXCEPT ![current] = FALSE]
    /\ slice' = IF state[current] = "RUNNABLE" /\ current # Idle
                THEN Refill(current) ELSE slice
    /\ IF Requeued = <<>>
       THEN current' = Idle /\ runq' = <<>>
       ELSE current' = Head(Requeued) /\ runq' = Tail(Requeued)
    /\ UNCHANGED <<state, waitState>>

\* RR_proc_tick: "if (proc->time_slice > 0) proc->time_slice --".
Shrink(p) == IF slice[p] > 0 THEN slice[p] - 1 ELSE 0

\* do_wait, do_sleep and wait_current_set: the running process p gives up being
\* runnable, and says why.
FallAsleep(p, why) == /\ state' = [state EXCEPT ![p] = "SLEEPING"]
                      /\ waitState' = [waitState EXCEPT ![p] = why]

\* do_kill wakes its target only out of a sleep that may be interrupted.
MustWake(q) == waitState[q] \in Interruptible

\* sched_class_proc_tick(p): the slice of the running process shrinks, and
\* its end, or any tick for idleproc, asks for a reschedule.
ProcTick(p) ==
    IF p = Idle
    THEN needResched' = [needResched EXCEPT ![p] = TRUE] /\ UNCHANGED slice
    ELSE /\ slice' = [slice EXCEPT ![p] = Shrink(p)]
         /\ needResched' = [needResched EXCEPT ![p] = @ \/ Shrink(p) = 0]

-----------------------------------------------------------------------------
SchedTypeOK == /\ current \in Procs
               /\ state \in [Procs -> States]
               /\ waitState \in [Procs -> WaitStates]
               /\ needResched \in [Procs -> BOOLEAN]
               /\ slice \in [Procs -> 0 .. MaxSlice]
               /\ runq \in Seq(Procs)

\* The run queue holds exactly the runnable processes that are not running,
\* each of them once: no process is lost and none is linked twice, whatever
\* wakeups race (RR_enqueue asserts that run_link is empty).
Queued == {runq[i] : i \in DOMAIN runq}
RunqExact ==
    /\ \A i, j \in DOMAIN runq : runq[i] = runq[j] => i = j
    /\ Queued = {p \in Procs \ {Idle} : state[p] = "RUNNABLE" /\ p # current}

\* state and wait_state tell the same story about who sleeps, as wakeup_proc,
\* do_kill, do_exit and run_timer_list each read only one of them.
SleepAgrees == \A p \in Procs : state[p] = "SLEEPING" <=> waitState[p] # "0"
=============================================================================
