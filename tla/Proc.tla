-------------------------------- MODULE Proc --------------------------------
(***************************************************************************)
(* The life of ucore processes: fork, exit, wait, kill, sleep and yield of *)
(* kern/process/proc.c, the trap path of kern/trap/trap.c and the timer    *)
(* interrupt, over the scheduler of Sched.                                 *)
(*                                                                         *)
(* One processor; a process in the kernel keeps it until schedule(), but   *)
(* timer interrupts come between any two sections that run with interrupts *)
(* off.  pc[p] is the point of the kernel (or of user code) p is at.       *)
(* A process is identified by its proc_struct; that pids are unique among  *)
(* them is the subject of GetPid, that the delta list of timers behaves    *)
(* like the countdowns below (TimerAbs) is the subject of TimerList.       *)
(***************************************************************************)
EXTENDS Sched

CONSTANTS
    MAX_PROCESS,    \* bound on nr_process
    TICK_MOD,       \* every TICK_MOD-th tick asks for a reschedule (10)
    SleepTimes,     \* arguments of SYS_sleep
    KillTargets     \* processes SYS_kill is called for

ASSUME ProcConstants == /\ MAX_PROCESS \in Nat \ {0}
                        /\ TICK_MOD \in Nat \ {0}
                        /\ SleepTimes \subseteq Nat \ {0}
                        /\ KillTargets \subseteq Users \cup {InitP}

VARIABLES
    pc,             \* where each process is
    arg,            \* pid argument of the do_wait or do_kill in progress
    exiting,        \* proc->flags & PF_EXITING
    parent,         \* proc->parent (and the child lists, its inverse)
    timer,          \* ticks left of the timer armed by do_sleep, or Unarmed
    irq,            \* "none", or "timers" in run_timer_list
    ticks,          \* ticks % TICK_MOD
    nr_process

procVars == <<pc, arg, exiting, parent, timer, irq, ticks, nr_process>>
vars == <<schedVars, procVars>>

Unarmed == -1
AnyPid == Idle         \* do_wait(0): pid 0 is no child's
Nobody == Idle      \* no argument, no parent

\* The points at which a process calls schedule(), and where it comes back.
AfterSchedule == [wait_sched |-> "wait_ret", sleep_sched |-> "sleep_ret",
                  exit_sched |-> "dead",     user_sched |-> "user",
                  irq_sched |-> "user",      init_sched |-> "wait",
                  idle |-> "idle"]

\* The points that run with interrupts off.
IntrOff == {"irqret", "irq_sched", "exit_kids"}

PCs == DOMAIN AfterSchedule \cup IntrOff \cup
       {"none", "user", "sysret", "wait", "wait_ret", "sleep_ret", "dead",
        "kill_wake", "exit_notify", "init", "quit", "panic"}

Children(p) == {c \in Users : state[c] # "NONE" /\ parent[c] = p}

\* The children the do_wait of p looks at.
Targets(p) == IF arg[p] = AnyPid THEN Children(p) ELSE Children(p) \cap {arg[p]}

\* init_main has come to its end, or the kernel has panicked.
Halted == pc[InitP] \in {"quit", "panic"}

\* p is running and no interrupt is being served.
At(p, label) == current = p /\ pc[p] = label /\ irq = "none"

Goto(p, label) == pc' = [pc EXCEPT ![p] = label]

Init ==
    /\ current = Idle
    /\ state = [p \in Procs |-> IF p \in Users THEN "NONE" ELSE "RUNNABLE"]
    /\ waitState = [p \in Procs |-> "0"]
    /\ needResched = [p \in Procs |-> p = Idle]
    /\ slice = [p \in Procs |-> IF p = InitP THEN MaxSlice ELSE 0]
    /\ runq = <<InitP>>
    /\ pc = [p \in Procs |-> IF p = Idle THEN "idle"
                             ELSE IF p = InitP THEN "init" ELSE "none"]
    /\ arg = [p \in Procs |-> Nobody]
    /\ exiting = [p \in Procs |-> FALSE]
    /\ parent = [p \in Procs |-> Nobody]
    /\ timer = [p \in Procs |-> Unarmed]
    /\ irq = "none" /\ ticks = 0 /\ nr_process = 2

-----------------------------------------------------------------------------
\* Plausible slips, for the sensitivity checks.
InitNeverHasWork(kids) == FALSE
ReapableUnchecked(c) == TRUE
DisarmedNever(p) == timer
CountDownToOne(p) == IF timer[p] > 1 THEN timer[p] - 1 ELSE timer[p]
NeverPreempted(p) == FALSE

\* user_main or another process is created: do_fork from get_pid on.
Fork(p) ==
    /\ nr_process < MAX_PROCESS
    /\ \E c \in Users :
          /\ state[c] = "NONE"
          /\ Wakeup(c)
          /\ parent' = [parent EXCEPT ![c] = p]
          /\ pc' = [pc EXCEPT ![c] = "user",
                              ![p] = IF p = InitP THEN "wait" ELSE "sysret"]
    /\ nr_process' = nr_process + 1
    /\ UNCHANGED <<current, needResched, arg, exiting, timer, irq, ticks>>

\* init_main creates user_main and goes to its do_wait(0) loop.
InitMain == At(InitP, "init") /\ Fork(InitP)

SysFork(p) == At(p, "user") /\ Fork(p)

\* The system calls that leave this state alone: getpid, gettime, putc, a
\* fork that fails, do_kill and do_sleep with nothing to do.
SysNothing(p) == /\ At(p, "user")
                 /\ Goto(p, "sysret")
                 /\ UNCHANGED <<schedVars, arg, exiting, parent, timer, irq,
                                ticks, nr_process>>

\* do_yield
SysYield(p) == /\ At(p, "user")
               /\ needResched' = [needResched EXCEPT ![p] = TRUE]
               /\ Goto(p, "sysret")
               /\ UNCHANGED <<current, state, waitState, slice, runq, arg,
                              exiting, parent, timer, irq, ticks, nr_process>>

-----------------------------------------------------------------------------
\* do_exit up to its critical section: the zombie still has the processor and
\* interrupts are on.
DoExit(p) ==
    /\ state' = [state EXCEPT ![p] = "ZOMBIE"]
    /\ Goto(p, "exit_notify")
    /\ UNCHANGED <<current, waitState, needResched, slice, runq, arg, exiting,
                   parent, timer, irq, ticks, nr_process>>

\* sys_exit, and the exits after a failed exec or an unexpected trap.
SysExit(p) == At(p, "user") /\ DoExit(p)

WaitsForChild(p) == waitState[p] = "CHILD"

\* Critical section of do_exit, first half: wake a parent that waits.
ExitNotify(p) ==
    /\ At(p, "exit_notify")
    /\ IF WaitsForChild(parent[p])
       THEN Wakeup(parent[p])
       ELSE UNCHANGED <<state, waitState, runq, slice>>
    /\ Goto(p, "exit_kids")
    /\ UNCHANGED <<current, needResched, arg, exiting, parent, timer, irq,
                   ticks, nr_process>>

\* initproc is woken for the zombies among the children it inherits.
InitHasWork(kids) == /\ \E c \in kids : state[c] = "ZOMBIE"
                     /\ WaitsForChild(InitP)

\* parent, once the children of p have moved to initproc.
Adopted(p) == [c \in Procs |-> IF c \in Children(p) THEN InitP ELSE parent[c]]

\* Critical section of do_exit, second half: initproc adopts the children.
ExitAdopt(p) ==
    /\ At(p, "exit_kids")
    /\ parent' = Adopted(p)
    /\ IF InitHasWork(Children(p))
       THEN Wakeup(InitP)
       ELSE UNCHANGED <<state, waitState, runq, slice>>
    /\ Goto(p, "exit_sched")
    /\ UNCHANGED <<current, needResched, arg, exiting, timer, irq, ticks,
                   nr_process>>

-----------------------------------------------------------------------------
\* sys_wait: pid 0 or the pid of any process.
SysWait(p) ==
    /\ At(p, "user")
    /\ \E q \in Users \cup {AnyPid} : arg' = [arg EXCEPT ![p] = q]
    /\ Goto(p, "wait")
    /\ UNCHANGED <<schedVars, exiting, parent, timer, irq, ticks, nr_process>>

\* Where a process goes on when its do_wait has returned.
AfterWait(p, found) == IF p # InitP THEN "sysret"
                       ELSE IF found THEN "init_sched" ELSE "quit"

\* remove_links: "nr_process --".
Unlinked == nr_process - 1

\* do_wait goes to "found" for this target.
Reapable(c) == state[c] = "ZOMBIE"

Free(p, f, v) == [f EXCEPT ![p] = v]

\* do_wait finds a zombie among its targets and frees it.
WaitReap(p) ==
    /\ At(p, "wait")
    /\ \E z \in Targets(p) :
          /\ Reapable(z)
          /\ state' = Free(z, state, "NONE")
          /\ parent' = Free(z, parent, Nobody)
          /\ exiting' = Free(z, exiting, FALSE)
          /\ slice' = Free(z, slice, 0)
          /\ needResched' = Free(z, needResched, FALSE)
          /\ pc' = [pc EXCEPT ![z] = "none", ![p] = AfterWait(p, TRUE)]
          /\ arg' = [arg EXCEPT ![z] = Nobody, ![p] = Nobody]
    /\ nr_process' = Unlinked
    /\ UNCHANGED <<current, waitState, runq, timer, irq, ticks>>

\* do_wait has targets but none of them is a zombie.
WaitSleep(p) ==
    /\ At(p, "wait")
    /\ Targets(p) # {}
    /\ \A c \in Targets(p) : ~Reapable(c)
    /\ FallAsleep(p, "CHILD")
    /\ Goto(p, "wait_sched")
    /\ UNCHANGED <<current, needResched, slice, runq, arg, exiting, parent,
                   timer, irq, ticks, nr_process>>

\* do_wait returns -E_BAD_PROC.
WaitNone(p) ==
    /\ At(p, "wait")
    /\ Targets(p) = {}
    /\ Goto(p, AfterWait(p, FALSE))
    /\ arg' = [arg EXCEPT ![p] = Nobody]
    /\ UNCHANGED <<schedVars, exiting, parent, timer, irq, ticks, nr_process>>

DiesInWait(p) == exiting[p]

\* do_wait runs again after schedule(): look again, unless killed.
WaitAgain(p) ==
    /\ At(p, "wait_ret")
    /\ ~DiesInWait(p)
    /\ Goto(p, "wait")
    /\ UNCHANGED <<schedVars, arg, exiting, parent, timer, irq, ticks,
                   nr_process>>

\* A killed process leaves do_wait by do_exit(-E_KILLED).
WaitKilled(p) == At(p, "wait_ret") /\ p # InitP /\ DiesInWait(p) /\ DoExit(p)

\* do_exit panics for initproc.
InitPanics == /\ At(InitP, "wait_ret")
              /\ DiesInWait(InitP)
              /\ Goto(InitP, "panic")
              /\ UNCHANGED <<schedVars, arg, exiting, parent, timer, irq,
                             ticks, nr_process>>

-----------------------------------------------------------------------------
\* do_kill up to the call of wakeup_proc.  Interrupts are on in between.
SysKill(p) ==
    /\ At(p, "user")
    /\ \E q \in KillTargets :
          /\ state[q] # "NONE"
          /\ ~exiting[q]
          /\ exiting' = [exiting EXCEPT ![q] = TRUE]
          /\ IF MustWake(q)
             THEN Goto(p, "kill_wake") /\ arg' = [arg EXCEPT ![p] = q]
             ELSE Goto(p, "sysret") /\ UNCHANGED arg
    /\ UNCHANGED <<schedVars, parent, timer, irq, ticks, nr_process>>

\* do_kill wakes its target, whatever has become of it.
KillWake(p) == /\ At(p, "kill_wake")
               /\ Wakeup(arg[p])
               /\ arg' = [arg EXCEPT ![p] = Nobody]
               /\ Goto(p, "sysret")
               /\ UNCHANGED <<current, needResched, exiting, parent, timer,
                              irq, ticks, nr_process>>

\* do_sleep: the critical section that arms the timer.
SysSleep(p) ==
    /\ At(p, "user")
    /\ FallAsleep(p, "TIMER")
    /\ \E t \in SleepTimes : timer' = [timer EXCEPT ![p] = t]
    /\ Goto(p, "sleep_sched")
    /\ UNCHANGED <<current, needResched, slice, runq, arg, exiting, parent,
                   irq, ticks, nr_process>>

Disarmed(p) == [timer EXCEPT ![p] = Unarmed]

\* do_sleep runs again: del_timer, a no-op when the timer has expired.
SleepReturn(p) == /\ At(p, "sleep_ret")
                  /\ timer' = Disarmed(p)
                  /\ Goto(p, "sysret")
                  /\ UNCHANGED <<schedVars, arg, exiting, parent, irq, ticks,
                                 nr_process>>

-----------------------------------------------------------------------------
DiesInTrap(p) == exiting[p]
Preempted(p) == needResched[p]

\* trap() returns to user mode, from a system call or a timer interrupt.
TrapReturn(p) ==
    /\ At(p, "sysret") \/ At(p, "irqret")
    /\ ~DiesInTrap(p)
    /\ Goto(p, CASE ~Preempted(p)       -> "user"
                 [] Preempted(p) /\ pc[p] = "sysret" -> "user_sched"
                 [] OTHER               -> "irq_sched")
    /\ UNCHANGED <<schedVars, arg, exiting, parent, timer, irq, ticks,
                   nr_process>>

\* trap() returns for a process that has been killed.
TrapKilled(p) == /\ At(p, "sysret") \/ At(p, "irqret")
                 /\ DiesInTrap(p)
                 /\ DoExit(p)

\* A call of schedule(); idleproc makes it whenever its need_resched is set.
Reschedule(p) ==
    /\ current = p /\ irq = "none"
    /\ pc[p] \in DOMAIN AfterSchedule
    /\ p = Idle => needResched[p]
    /\ Schedule
    /\ Goto(p, AfterSchedule[pc[p]])
    /\ UNCHANGED <<arg, exiting, parent, timer, irq, ticks, nr_process>>

-----------------------------------------------------------------------------
\* The ticks left of the timer of p after one more tick.
CountDown(p) == IF timer[p] > 0 THEN timer[p] - 1 ELSE timer[p]

\* The timer interrupt: ticks++, and the timers count down.
Tick ==
    /\ irq = "none"
    /\ pc[current] \notin IntrOff
    /\ ~Halted
    /\ ticks' = (ticks + 1) % TICK_MOD
    /\ needResched' = [needResched EXCEPT ![current] = @ \/ ticks' = 0]
    /\ timer' = [p \in Procs |-> CountDown(p)]
    /\ irq' = "timers"
    /\ UNCHANGED <<current, state, waitState, slice, runq, pc, arg, exiting,
                   parent, nr_process>>

\* run_timer_list: a timer that has run out wakes its process.
Expire(p) == /\ irq = "timers"
             /\ timer[p] = 0
             /\ Wakeup(p)
             /\ timer' = Disarmed(p)
             /\ UNCHANGED <<current, needResched, pc, arg, exiting, parent,
                            irq, ticks, nr_process>>

\* The end of run_timer_list; an interrupt of user code then leaves trap() by
\* its checks, one of the kernel resumes it at once.
TickEnd ==
    /\ irq = "timers"
    /\ \A p \in Procs : timer[p] # 0
    /\ ProcTick(current)
    /\ irq' = "none"
    /\ IF pc[current] = "user" THEN Goto(current, "irqret") ELSE UNCHANGED pc
    /\ UNCHANGED <<current, state, waitState, runq, arg, exiting, parent,
                   timer, ticks, nr_process>>

-----------------------------------------------------------------------------
\* What user programs decide to do.
UserStep(p) == \/ SysFork(p) \/ SysNothing(p) \/ SysYield(p) \/ SysExit(p)
               \/ SysWait(p) \/ SysKill(p) \/ SysSleep(p)

\* What the kernel goes on to do by itself.
KernelStep(p) == \/ ExitNotify(p) \/ ExitAdopt(p)
                 \/ WaitReap(p) \/ WaitSleep(p) \/ WaitNone(p)
                 \/ WaitAgain(p) \/ WaitKilled(p) \/ KillWake(p)
                 \/ SleepReturn(p) \/ TrapReturn(p) \/ TrapKilled(p)
                 \/ Reschedule(p)

IrqStep == TickEnd \/ \E p \in Procs : Expire(p)

\* The clock does not stop: a request that comes while interrupts are off is
\* held by the interrupt controller, so it is served although they never stay
\* on for long.  A handler runs to its end.  Kernel code that an interrupt has
\* broken into goes on afterwards, so interrupts, however many, cannot hold it
\* up for ever: strong fairness for both.  User code may do nothing but loop,
\* and no fairness is assumed of it.
KernelProgress == InitMain \/ InitPanics \/ \E p \in Procs : KernelStep(p)

Next == \/ Tick \/ IrqStep \/ KernelProgress
        \/ \E p \in Users : UserStep(p)

Fairness == SF_vars(Tick) /\ WF_vars(IrqStep) /\ SF_vars(KernelProgress)

Spec == Init /\ [][Next]_vars /\ Fairness
-----------------------------------------------------------------------------
TypeOK == /\ SchedTypeOK
          /\ pc \in [Procs -> PCs]
          /\ arg \in [Procs -> Procs]
          /\ exiting \in [Procs -> BOOLEAN]
          /\ parent \in [Procs -> Procs]
          /\ timer \in [Procs -> Nat \cup {Unarmed}]
          /\ irq \in {"none", "timers"}
          /\ ticks \in 0 .. TICK_MOD - 1
          /\ nr_process \in Int

\* No lost wakeup between parent and child: a process asleep in do_wait has a
\* child to wait for, and none of them is a zombie, except the running one on
\* its way to wake it.
NoMissedChild ==
    \A p \in Procs : waitState[p] = "CHILD" =>
        /\ Targets(p) # {}
        /\ \A c \in Targets(p) :
              state[c] = "ZOMBIE" => c = current /\ pc[c] = "exit_notify"

\* Every process other than initproc and idleproc has a parent that can still
\* reap it; only the one that is just exiting may be a zombie itself.
ParentAlive ==
    \A c \in Users : state[c] # "NONE" =>
        LET p == parent[c]
        IN  /\ state[p] # "NONE" /\ p # Idle
            /\ state[p] = "ZOMBIE" => pc[p] \in {"exit_notify", "exit_kids"}

\* Whoever dies is reaped: there is always a parent to do it, and it does not
\* sleep over it.
FamilySound == NoMissedChild /\ ParentAlive

\* The points inside do_sleep.
SleepPoints == {"sleep_sched", "sleep_ret"}

\* A timer lives on the kernel stack of a process that is inside do_sleep: no
\* timer outlives the call, whether it expires, the sleeper is killed, or both
\* happen at once; and a sleeper that nothing has woken has its timer armed.
TimerOwned ==
    \A p \in Procs :
        /\ timer[p] # Unarmed => pc[p] \in SleepPoints
        /\ waitState[p] = "TIMER" => timer[p] # Unarmed

\* A process that has the processor is awake, but for the few steps that take
\* it from falling asleep or exiting to schedule().
LeavingPoints == {"wait_sched", "sleep_sched", "exit_notify", "exit_kids",
                  "exit_sched"}
CurrentAwake == pc[current] \notin LeavingPoints => state[current] = "RUNNABLE"

\* idleproc stays in its loop and is always runnable.
IdleLoops == pc[Idle] = "idle" /\ state[Idle] = "RUNNABLE"

\* The run queue, the states and the wait states agree on who runs, who waits
\* for the processor and who sleeps, at every point between a process's marking
\* itself asleep and its schedule().
SchedExact == RunqExact /\ SleepAgrees

\* The inductive strengthening of RunqExact and SleepAgrees.
QueueInv == TypeOK /\ IdleLoops /\ RunqExact /\ SleepAgrees /\ CurrentAwake

\* Outside the timer interrupt no timer is due.
NoneDue == irq = "none" => \A p \in Procs : timer[p] # 0

\* A process that has exited stays on its way out, and a free proc_struct is at
\* no point of the code.
ExitPoints == {"exit_notify", "exit_kids", "exit_sched", "dead"}
GoneStaysGone ==
    \A p \in Procs : /\ state[p] = "ZOMBIE" => pc[p] \in ExitPoints
                     /\ state[p] = "NONE" => pc[p] = "none"

\* The inductive strengthening of TimerOwned, relative to QueueInv.
TimerInv == TimerOwned /\ NoneDue /\ GoneStaysGone

\* Kernel code is not preempted: a process that does not have the processor is
\* where schedule() left it or where it starts.
SwitchedOut ==
    \A p \in Procs : p # current =>
        pc[p] \in {"none", "init", "idle", "dead", "user", "wait", "wait_ret",
                  "sleep_ret"}

\* initproc neither exits nor enters user mode.
InitPoints == {"init", "wait", "wait_sched", "wait_ret", "init_sched", "quit",
               "panic"}
InitLives == state[InitP] \in {"RUNNABLE", "SLEEPING"} /\ pc[InitP] \in InitPoints

\* The target that do_kill is about to wake is still there, although interrupts
\* were on.
KillAlive == \A p \in Procs : pc[p] = "kill_wake" =>
                 state[arg[p]] \in {"RUNNABLE", "SLEEPING"}

\* Nothing wakes a process on its way out.
ExitIsFinal == \A p \in Procs : pc[p] \in ExitPoints => state[p] = "ZOMBIE"

\* The inductive strengthening of FamilySound, relative to QueueInv and
\* TimerInv.
FamilyInv == FamilySound /\ SwitchedOut /\ InitLives /\ KillAlive /\ ExitIsFinal

TA == INSTANCE TimerAbs WITH Timers <- Procs, Times <- SleepTimes,
                             left <- timer, firing <- (irq = "timers")
\* The processes use the timers as TimerAbs allows, however kills, wakeups and
\* interrupts interleave: do_sleep never arms a timer that is armed, and no
\* interrupt comes or ends with a due timer left over.
UsesTimers == TA!AbsSpec

\* A process structure and kernel stack are freed only by its parent, when it
\* has left the processor for good, is in no queue and has no child left.
FreedWhenDead ==
    [][\A p \in Users : state[p] # "NONE" /\ state'[p] = "NONE" =>
          /\ pc[p] = "dead" /\ p \notin Queued /\ timer[p] = Unarmed
          /\ Children(p) = {}
          /\ current = parent[p]]_vars

\* do_exit of initproc: "initproc exit.", and the kernel stops.
Panicked == pc[InitP] = "panic"

\* Round robin starves nobody: a runnable process gets the processor, however
\* long the others compute.
RunnableRuns == \A p \in Users \cup {InitP} :
    state[p] = "RUNNABLE" ~> (current = p \/ state[p] # "RUNNABLE" \/ Panicked)

\* A sleeper wakes up, unless its kernel stops.
SleeperWakes == \A p \in Users :
    (waitState[p] = "TIMER") ~> (waitState[p] = "0" \/ Panicked)

Gone(p) == state[p] \in {"NONE", "ZOMBIE"}

\* A killed process back in user code: it was killed between the test of
\* PF_EXITING in trap() and its return, and may get into do_wait before the
\* next test.
Overlooked(p) == exiting[p] /\ pc[p] = "user"

\* SYS_kill in the table at the head of proc.c: a killed process leaves its
\* sleep in do_wait or do_sleep and dies, and so does one that kills itself.
\* If the kill was overlooked it dies at a later trap, or waits for a child:
\* that wait can be for ever.
KilledStops == \A p \in KillTargets \ {InitP} :
    /\ [](~Overlooked(p)) => (exiting[p] ~> (Gone(p) \/ Panicked))
    /\ exiting[p] ~> (Gone(p) \/ waitState[p] = "CHILD" \/ Panicked)
=============================================================================
