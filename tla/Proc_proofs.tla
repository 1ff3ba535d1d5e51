----------------------------- MODULE Proc_proofs -----------------------------
(***************************************************************************)
(* Proofs about Proc, for every set of processes and every value of the    *)
(* other constants.                                                        *)
(*   Queues: types, and that the run queue holds exactly the runnable      *)
(*   processes that are not running, each once.                            *)
(*   Timers: none outlives the do_sleep whose stack it is on, and Proc     *)
(*   implements TimerAbs, which the delta list of TimerList implements in  *)
(*   turn.                                                                 *)
(*   Families: nobody sleeps over a dead child, everybody keeps a parent,  *)
(*   and what is freed is dead.                                            *)
(***************************************************************************)
EXTENDS Proc, Sched_proofs, TLAPS

-----------------------------------------------------------------------------
\* The labels the actions go to are program points.
LEMMA Labels ==
  /\ {"none", "user", "sysret", "wait", "wait_ret", "sleep_ret", "dead",
      "kill_wake", "exit_notify", "init", "quit", "panic"} \subseteq PCs
  /\ {"irqret", "irq_sched", "exit_kids"} \subseteq PCs
  /\ {"wait_sched", "sleep_sched", "exit_sched", "user_sched", "init_sched",
      "idle"} \subseteq PCs
  /\ \A l \in DOMAIN AfterSchedule : AfterSchedule[l] \in PCs
<1>1. DOMAIN AfterSchedule = {"wait_sched", "sleep_sched", "exit_sched",
          "user_sched", "irq_sched", "init_sched", "idle"}
  BY DEF AfterSchedule
<1>2. \A l \in DOMAIN AfterSchedule : AfterSchedule[l] \in
          {"wait_ret", "sleep_ret", "dead", "user", "wait", "idle"}
  BY DEF AfterSchedule
<1> QED
  BY <1>1, <1>2 DEF PCs, IntrOff

\* A process at a label other than that of idleproc's loop is not idleproc.
LEMMA NotIdle ==
  ASSUME QueueInv, NEW p \in Procs, NEW l, l # "idle", At(p, l)
  PROVE  p # Idle /\ p = current /\ pc[p] = l
  BY DEF QueueInv, IdleLoops, At

\* A step that only moves the running process on keeps everything but types.
LEMMA OnlyMoves ==
  ASSUME QueueInv, NEW p \in Procs, p = current, p # Idle,
         pc[p] \notin LeavingPoints, NEW l, Goto(p, l),
         UNCHANGED <<current, state, waitState, runq>>
  PROVE  IdleLoops' /\ RunqExact' /\ SleepAgrees' /\ CurrentAwake'
<1>1. IdleLoops'
  BY DEF QueueInv, TypeOK, IdleLoops, Goto, Procs
<1>2. RunqExact' /\ SleepAgrees'
  BY DEF QueueInv, RunqExact, Queued, SleepAgrees
<1>3. CurrentAwake'
  BY DEF QueueInv, CurrentAwake
<1> QED
  BY <1>1, <1>2, <1>3

\* A wakeup keeps state and wait_state in agreement and the running process
\* awake.
LEMMA WakeupAwake ==
  ASSUME QueueInv, NEW p \in Procs, Wakeup(p), UNCHANGED current
  PROVE  /\ SleepAgrees'
         /\ state[current] = "RUNNABLE" => state'[current] = "RUNNABLE"
  BY DEF QueueInv, TypeOK, SchedTypeOK, SleepAgrees, Wakeup, Woken

-----------------------------------------------------------------------------
\* The initial state: idleproc runs and initproc is queued.
LEMMA InitQueueInv == Init => QueueInv
<1> SUFFICES ASSUME Init PROVE QueueInv
  OBVIOUS
<1>1. TypeOK
  <2>1. SchedTypeOK
    BY SchedConstants
    DEF Init, SchedTypeOK, Procs, States, WaitStates
  <2>2. pc \in [Procs -> PCs]
    BY Labels DEF Init
  <2> QED
    BY <2>1, <2>2, ProcConstants DEF Init, TypeOK, Procs, Nobody, Unarmed
<1>2. IdleLoops
  BY SchedConstants DEF Init, IdleLoops, Procs
<1>3. RunqExact
  BY SchedConstants DEF Init, RunqExact, Queued, Procs
<1>4. SleepAgrees
  BY DEF Init, SleepAgrees
<1>5. CurrentAwake
  BY SchedConstants DEF Init, CurrentAwake, Procs
<1> QED
  BY <1>1, <1>2, <1>3, <1>4, <1>5 DEF QueueInv

-----------------------------------------------------------------------------
\* do_exit takes the running process out of the runnable ones without a word
\* to the run queue, which does not hold it.
LEMMA DoExitInv ==
  ASSUME QueueInv, NEW p \in Procs, p = current, p # Idle,
         pc[p] \notin LeavingPoints, DoExit(p)
  PROVE  QueueInv'
<1> USE DEF QueueInv, TypeOK, SchedTypeOK
<1>1. /\ state' = [state EXCEPT ![p] = "ZOMBIE"]
      /\ pc' = [pc EXCEPT ![p] = "exit_notify"]
      /\ UNCHANGED <<current, waitState, needResched, slice, runq, arg, exiting,
                     parent, timer, irq, ticks, nr_process>>
  BY DEF DoExit, Goto
<1>2. TypeOK'
  BY <1>1, Labels DEF States
<1>3. IdleLoops'
  BY <1>1 DEF IdleLoops, Procs
<1>4. RunqExact'
  BY <1>1 DEF RunqExact, Queued
<1>5. SleepAgrees'
  BY <1>1 DEF SleepAgrees, CurrentAwake
<1>6. CurrentAwake'
  BY <1>1 DEF CurrentAwake, LeavingPoints
<1> QED
  BY <1>2, <1>3, <1>4, <1>5, <1>6

\* Falling asleep, in do_wait and do_sleep.
LEMMA FallAsleepInv ==
  ASSUME QueueInv, NEW p \in Procs, p = current, p # Idle,
         NEW why \in Interruptible, FallAsleep(p, why),
         NEW l \in LeavingPoints, Goto(p, l), UNCHANGED <<current, runq>>
  PROVE  /\ state' \in [Procs -> States]
         /\ waitState' \in [Procs -> WaitStates]
         /\ IdleLoops' /\ RunqExact' /\ SleepAgrees' /\ CurrentAwake'
<1> USE DEF QueueInv, TypeOK, SchedTypeOK
<1>1. /\ state' = [state EXCEPT ![p] = "SLEEPING"]
      /\ waitState' = [waitState EXCEPT ![p] = why]
      /\ pc' = [pc EXCEPT ![p] = l]
  BY DEF FallAsleep, Goto
<1>2. state' \in [Procs -> States] /\ waitState' \in [Procs -> WaitStates]
  BY <1>1 DEF States, WaitStates
<1>3. IdleLoops'
  BY <1>1 DEF IdleLoops, Procs
<1>4. RunqExact'
  BY <1>1 DEF RunqExact, Queued
<1>5. SleepAgrees'
  <2>1. why # "0"
    BY DEF Interruptible
  <2> QED
    BY <1>1, <2>1 DEF SleepAgrees
<1>6. CurrentAwake'
  BY <1>1 DEF CurrentAwake
<1> QED
  BY <1>2, <1>3, <1>4, <1>5, <1>6

\* A step of the running process that wakes another one, or nobody.
LEMMA WakeStep ==
  ASSUME QueueInv, NEW p \in Procs, p = current, p # Idle,
         NEW l \in PCs, NEW q \in Procs, UNCHANGED current,
         Wakeup(q) \/ UNCHANGED <<state, waitState, runq, slice>>,
         Goto(p, l),
         l \notin LeavingPoints => pc[p] \notin LeavingPoints
  PROVE  /\ state' \in [Procs -> States]
         /\ waitState' \in [Procs -> WaitStates]
         /\ slice' \in [Procs -> 0 .. MaxSlice]
         /\ runq' \in Seq(Procs)
         /\ pc' \in [Procs -> PCs]
         /\ IdleLoops' /\ RunqExact' /\ SleepAgrees' /\ CurrentAwake'
<1> USE DEF QueueInv, TypeOK
<1>1. pc' = [pc EXCEPT ![p] = l] /\ pc' \in [Procs -> PCs]
  BY DEF Goto
<1>2. CASE Wakeup(q)
  <2>1. /\ state' \in [Procs -> States]
        /\ waitState' \in [Procs -> WaitStates]
        /\ slice' \in [Procs -> 0 .. MaxSlice]
        /\ runq' \in Seq(Procs)
    BY <1>2, WakeupType
  <2>2. RunqExact' /\ state'[Idle] = "RUNNABLE"
    BY <1>2, WakeupExact DEF IdleLoops
  <2>3. IdleLoops'
    BY <1>1, <2>2 DEF IdleLoops, Procs
  <2>4. SleepAgrees' /\ (state[current] = "RUNNABLE" => state'[current] = "RUNNABLE")
    BY <1>2, WakeupAwake
  <2>5. CurrentAwake'
    BY <1>1, <2>4 DEF CurrentAwake
  <2> QED
    BY <1>1, <2>1, <2>2, <2>3, <2>4, <2>5
<1>3. CASE UNCHANGED <<state, waitState, runq, slice>>
  <2>1. IdleLoops'
    BY <1>1, <1>3 DEF IdleLoops, Procs
  <2>2. RunqExact' /\ SleepAgrees'
    BY <1>3 DEF RunqExact, Queued, SleepAgrees
  <2>3. CurrentAwake'
    BY <1>1, <1>3 DEF CurrentAwake
  <2> QED
    BY <1>1, <1>3, <2>1, <2>2, <2>3 DEF SchedTypeOK
<1> QED
  BY <1>2, <1>3

-----------------------------------------------------------------------------
\* do_fork: the child is made runnable by a wakeup like any other.
LEMMA ForkInv ==
  ASSUME QueueInv, NEW p \in Procs, p = current, p # Idle,
         pc[p] \notin LeavingPoints, Fork(p)
  PROVE  QueueInv'
<1> USE DEF QueueInv, TypeOK
<1>1. PICK c \in Users :
         /\ Wakeup(c)
         /\ parent' = [parent EXCEPT ![c] = p]
         /\ pc' = [pc EXCEPT ![c] = "user",
                             ![p] = IF p = InitP THEN "wait" ELSE "sysret"]
  BY DEF Fork
<1>2. /\ nr_process' = nr_process + 1
      /\ UNCHANGED <<current, needResched, arg, exiting, timer, irq, ticks>>
  BY DEF Fork
<1>3. c \in Procs /\ c # Idle
  BY SchedConstants DEF Procs
<1>4. /\ state' \in [Procs -> States]
      /\ waitState' \in [Procs -> WaitStates]
      /\ slice' \in [Procs -> 0 .. MaxSlice]
      /\ runq' \in Seq(Procs)
  BY <1>1, <1>3, WakeupType
<1>5. TypeOK'
  <2>1. "user" \in PCs /\ (IF p = InitP THEN "wait" ELSE "sysret") \in PCs
    BY Labels
  <2>2. pc' \in [Procs -> PCs]
    BY <1>1, <1>3, <2>1
  <2>3. parent' \in [Procs -> Procs] /\ nr_process' \in Int
    BY <1>1, <1>2, <1>3
  <2>4. SchedTypeOK'
    BY <1>2, <1>4 DEF SchedTypeOK
  <2> QED
    BY <1>2, <2>2, <2>3, <2>4
<1>6. RunqExact' /\ state'[Idle] = "RUNNABLE"
  BY <1>1, <1>2, <1>3, WakeupExact DEF IdleLoops
<1>7. IdleLoops'
  BY <1>1, <1>3, <1>6 DEF IdleLoops, Procs
<1>8. SleepAgrees' /\ (state[current] = "RUNNABLE" => state'[current] = "RUNNABLE")
  BY <1>1, <1>2, <1>3, WakeupAwake
<1>9. CurrentAwake'
  BY <1>2, <1>8 DEF CurrentAwake
<1> QED
  BY <1>5, <1>6, <1>7, <1>8, <1>9


-----------------------------------------------------------------------------
\* What users ask for keeps the invariant.
LEMMA UserStepInv ==
  ASSUME QueueInv, NEW p \in Users, UserStep(p)
  PROVE  QueueInv'
<1> p \in Procs
  BY DEF Procs
<1>0. p # Idle /\ p = current /\ pc[p] = "user"
  BY NotIdle DEF UserStep, SysFork, SysNothing, SysYield, SysExit, SysWait,
                 SysKill, SysSleep, At
<1>a. pc[p] \notin LeavingPoints
  BY <1>0 DEF LeavingPoints
<1>1. CASE SysFork(p)
  <2>1. Fork(p)
    BY <1>1 DEF SysFork
  <2> QED
    BY <1>0, <1>a, <2>1, ForkInv
<1>2. CASE SysNothing(p)
  <2>1. Goto(p, "sysret") /\ UNCHANGED schedVars
    BY <1>2 DEF SysNothing
  <2>2. IdleLoops' /\ RunqExact' /\ SleepAgrees' /\ CurrentAwake'
    BY <1>0, <1>a, <2>1, OnlyMoves DEF schedVars
  <2>3. TypeOK'
    BY <1>2, Labels DEF SysNothing, Goto, schedVars, QueueInv, TypeOK, SchedTypeOK
  <2> QED
    BY <2>2, <2>3 DEF QueueInv
<1>3. CASE SysYield(p)
  <2>1. Goto(p, "sysret") /\ UNCHANGED <<current, state, waitState, runq>>
    BY <1>3 DEF SysYield
  <2>2. IdleLoops' /\ RunqExact' /\ SleepAgrees' /\ CurrentAwake'
    BY <1>0, <1>a, <2>1, OnlyMoves
  <2>3. TypeOK'
    BY <1>3, Labels DEF SysYield, Goto, QueueInv, TypeOK, SchedTypeOK
  <2> QED
    BY <2>2, <2>3 DEF QueueInv
<1>4. CASE SysExit(p)
  <2>1. DoExit(p)
    BY <1>4 DEF SysExit
  <2> QED
    BY <1>0, <1>a, <2>1, DoExitInv
<1>5. CASE SysWait(p)
  <2>1. Goto(p, "wait") /\ UNCHANGED schedVars
    BY <1>5 DEF SysWait
  <2>2. IdleLoops' /\ RunqExact' /\ SleepAgrees' /\ CurrentAwake'
    BY <1>0, <1>a, <2>1, OnlyMoves DEF schedVars
  <2>3. PICK q \in Users \cup {AnyPid} : arg' = [arg EXCEPT ![p] = q]
    BY <1>5 DEF SysWait
  <2>4. TypeOK'
    BY <1>5, <2>3, Labels
    DEF SysWait, Goto, schedVars, QueueInv, TypeOK, SchedTypeOK, Procs, AnyPid
  <2> QED
    BY <2>2, <2>4 DEF QueueInv
<1>6. CASE SysKill(p)
  <2>1. PICK q \in KillTargets :
           /\ exiting' = [exiting EXCEPT ![q] = TRUE]
           /\ \/ Goto(p, "kill_wake") /\ arg' = [arg EXCEPT ![p] = q]
              \/ Goto(p, "sysret") /\ UNCHANGED arg
    BY <1>6 DEF SysKill
  <2>2. /\ UNCHANGED schedVars
        /\ UNCHANGED <<parent, timer, irq, ticks, nr_process>>
    BY <1>6 DEF SysKill
  <2>3. IdleLoops' /\ RunqExact' /\ SleepAgrees' /\ CurrentAwake'
    BY <1>0, <1>a, <2>1, <2>2, OnlyMoves DEF schedVars
  <2>4. q \in Procs
    BY ProcConstants DEF Procs
  <2>5. /\ pc' \in [Procs -> PCs]
        /\ arg' \in [Procs -> Procs]
        /\ exiting' \in [Procs -> BOOLEAN]
    <3> USE DEF QueueInv, TypeOK
    <3>1. CASE Goto(p, "kill_wake") /\ arg' = [arg EXCEPT ![p] = q]
      BY <2>1, <2>4, <3>1, Labels DEF Goto
    <3>2. CASE Goto(p, "sysret") /\ UNCHANGED arg
      BY <2>1, <2>4, <3>2, Labels DEF Goto
    <3> QED
      BY <2>1, <3>1, <3>2
  <2>6. TypeOK'
    BY <2>2, <2>5 DEF schedVars, QueueInv, TypeOK, SchedTypeOK
  <2> QED
    BY <2>3, <2>6 DEF QueueInv
<1>7. CASE SysSleep(p)
  <2>1. /\ FallAsleep(p, "TIMER") /\ Goto(p, "sleep_sched")
        /\ UNCHANGED <<current, runq>>
    BY <1>7 DEF SysSleep
  <2>2. /\ state' \in [Procs -> States]
        /\ waitState' \in [Procs -> WaitStates]
        /\ IdleLoops' /\ RunqExact' /\ SleepAgrees' /\ CurrentAwake'
    BY <1>0, <2>1, FallAsleepInv DEF Interruptible, LeavingPoints
  <2>3. PICK t \in SleepTimes : timer' = [timer EXCEPT ![p] = t]
    BY <1>7 DEF SysSleep
  <2>4. TypeOK'
    BY <1>7, <2>2, <2>3, Labels, ProcConstants
    DEF SysSleep, Goto, QueueInv, TypeOK, SchedTypeOK
  <2> QED
    BY <2>2, <2>4 DEF QueueInv
<1> QED
  BY <1>1, <1>2, <1>3, <1>4, <1>5, <1>6, <1>7 DEF UserStep

-----------------------------------------------------------------------------
\* do_wait frees a zombie: it is in no queue, and the caller goes on.
LEMMA WaitReapInv ==
  ASSUME QueueInv, NEW p \in Procs, WaitReap(p)
  PROVE  QueueInv'
<1> USE DEF QueueInv, TypeOK
<1>0. p # Idle /\ p = current /\ pc[p] = "wait"
  BY NotIdle DEF WaitReap
<1>1. PICK z \in Targets(p) :
         /\ Reapable(z)
         /\ state' = Free(z, state, "NONE")
         /\ parent' = Free(z, parent, Nobody)
         /\ exiting' = Free(z, exiting, FALSE)
         /\ slice' = Free(z, slice, 0)
         /\ needResched' = Free(z, needResched, FALSE)
         /\ pc' = [pc EXCEPT ![z] = "none", ![p] = AfterWait(p, TRUE)]
         /\ arg' = [arg EXCEPT ![z] = Nobody, ![p] = Nobody]
  BY DEF WaitReap
<1>2. nr_process' = Unlinked /\ UNCHANGED <<current, waitState, runq, timer, irq, ticks>>
  BY DEF WaitReap
<1>3. z \in Procs /\ z # Idle /\ state[z] = "ZOMBIE"
  BY <1>1, SchedConstants DEF Targets, Children, Reapable, Procs
<1>4. state[p] = "RUNNABLE"
  BY <1>0 DEF CurrentAwake, LeavingPoints
<1>5. AfterWait(p, TRUE) \in PCs /\ AfterWait(p, TRUE) \in {"sysret", "init_sched"}
  BY Labels DEF AfterWait
<1>6. SchedTypeOK'
  BY <1>1, <1>2, <1>3, SchedConstants DEF SchedTypeOK, Free, States
<1>7. /\ pc' \in [Procs -> PCs]
      /\ arg' \in [Procs -> Procs]
      /\ exiting' \in [Procs -> BOOLEAN]
      /\ parent' \in [Procs -> Procs]
  BY <1>1, <1>3, <1>5, Labels DEF Free, Nobody, Procs
<1>8. nr_process' \in Int
  BY <1>2 DEF Unlinked
<1>9. TypeOK'
  BY <1>2, <1>6, <1>7, <1>8
<1>10. IdleLoops'
  BY <1>0, <1>1, <1>3 DEF IdleLoops, Free, SchedTypeOK, Procs
<1>11. RunqExact'
  BY <1>1, <1>2, <1>3 DEF RunqExact, Queued, Free, SchedTypeOK
<1>12. SleepAgrees'
  BY <1>1, <1>2, <1>3 DEF SleepAgrees, Free, SchedTypeOK
<1>13. CurrentAwake'
  BY <1>0, <1>1, <1>2, <1>3, <1>4 DEF CurrentAwake, Free, SchedTypeOK
<1> QED
  BY <1>9, <1>10, <1>11, <1>12, <1>13

\* A call of schedule(), by idleproc too.
LEMMA RescheduleInv ==
  ASSUME QueueInv, NEW p \in Procs, Reschedule(p)
  PROVE  QueueInv'
<1> USE DEF QueueInv, TypeOK
<1>1. /\ p = current /\ Schedule
      /\ pc[p] \in DOMAIN AfterSchedule
      /\ pc' = [pc EXCEPT ![p] = AfterSchedule[pc[p]]]
      /\ UNCHANGED <<arg, exiting, parent, timer, irq, ticks, nr_process>>
  BY DEF Reschedule, Goto
<1>2. /\ current' \in Procs
      /\ needResched' \in [Procs -> BOOLEAN]
      /\ slice' \in [Procs -> 0 .. MaxSlice]
      /\ runq' \in Seq(Procs)
  BY <1>1, ScheduleType
<1>3. UNCHANGED <<state, waitState>>
  BY <1>1 DEF Schedule
<1>4. TypeOK'
  <2>1. pc' \in [Procs -> PCs]
    BY <1>1, Labels
  <2> QED
    BY <1>1, <1>2, <1>3, <2>1 DEF SchedTypeOK
<1>5. IdleLoops'
  <2>1. AfterSchedule["idle"] = "idle"
    BY DEF AfterSchedule
  <2> QED
    BY <1>1, <1>3, <2>1 DEF IdleLoops, Procs
<1>6. RunqExact'
  BY <1>1, ScheduleExact
<1>7. SleepAgrees'
  BY <1>3 DEF SleepAgrees
<1>8. CurrentAwake'
  BY <1>1, SchedulePicksRunnable DEF CurrentAwake, IdleLoops
<1> QED
  BY <1>4, <1>5, <1>6, <1>7, <1>8

-----------------------------------------------------------------------------
\* What the kernel goes on to do keeps the invariant.
LEMMA KernelStepInv ==
  ASSUME QueueInv, NEW p \in Procs, KernelStep(p)
  PROVE  QueueInv'
<1>1. CASE ExitNotify(p)
  <2>1. /\ p # Idle /\ p = current /\ pc[p] = "exit_notify"
        /\ Wakeup(parent[p]) \/ UNCHANGED <<state, waitState, runq, slice>>
        /\ Goto(p, "exit_kids") /\ UNCHANGED current
    BY <1>1, NotIdle DEF ExitNotify
  <2>2. parent[p] \in Procs /\ "exit_kids" \in PCs /\ "exit_kids" \in LeavingPoints
    BY Labels DEF QueueInv, TypeOK, LeavingPoints
  <2>3. /\ state' \in [Procs -> States]
        /\ waitState' \in [Procs -> WaitStates]
        /\ slice' \in [Procs -> 0 .. MaxSlice]
        /\ runq' \in Seq(Procs)
        /\ pc' \in [Procs -> PCs]
        /\ IdleLoops' /\ RunqExact' /\ SleepAgrees' /\ CurrentAwake'
    BY <2>1, <2>2, WakeStep
  <2>4. TypeOK'
    BY <1>1, <2>3 DEF ExitNotify, QueueInv, TypeOK, SchedTypeOK
  <2> QED
    BY <2>3, <2>4 DEF QueueInv
<1>2. CASE ExitAdopt(p)
  <2>1. /\ p # Idle /\ p = current /\ pc[p] = "exit_kids"
        /\ Wakeup(InitP) \/ UNCHANGED <<state, waitState, runq, slice>>
        /\ Goto(p, "exit_sched") /\ UNCHANGED current
    BY <1>2, NotIdle DEF ExitAdopt
  <2>2. InitP \in Procs /\ "exit_sched" \in PCs /\ "exit_sched" \in LeavingPoints
    BY Labels DEF Procs, LeavingPoints
  <2>3. /\ state' \in [Procs -> States]
        /\ waitState' \in [Procs -> WaitStates]
        /\ slice' \in [Procs -> 0 .. MaxSlice]
        /\ runq' \in Seq(Procs)
        /\ pc' \in [Procs -> PCs]
        /\ IdleLoops' /\ RunqExact' /\ SleepAgrees' /\ CurrentAwake'
    BY <2>1, <2>2, WakeStep
  <2>4. parent' \in [Procs -> Procs]
    BY <1>2, <2>2 DEF ExitAdopt, Adopted, QueueInv, TypeOK
  <2>5. TypeOK'
    BY <1>2, <2>3, <2>4 DEF ExitAdopt, QueueInv, TypeOK, SchedTypeOK
  <2> QED
    BY <2>3, <2>5 DEF QueueInv
<1>3. CASE WaitReap(p)
  BY <1>3, WaitReapInv
<1>4. CASE WaitSleep(p)
  <2>1. /\ p # Idle /\ p = current
        /\ FallAsleep(p, "CHILD") /\ Goto(p, "wait_sched")
        /\ UNCHANGED <<current, runq>>
    BY <1>4, NotIdle DEF WaitSleep
  <2>2. /\ state' \in [Procs -> States]
        /\ waitState' \in [Procs -> WaitStates]
        /\ IdleLoops' /\ RunqExact' /\ SleepAgrees' /\ CurrentAwake'
    BY <2>1, FallAsleepInv DEF Interruptible, LeavingPoints
  <2>3. TypeOK'
    BY <1>4, <2>2, Labels DEF WaitSleep, Goto, QueueInv, TypeOK, SchedTypeOK
  <2> QED
    BY <2>2, <2>3 DEF QueueInv
<1>5. CASE WaitNone(p)
  <2>1. /\ p # Idle /\ p = current /\ pc[p] = "wait"
        /\ Goto(p, AfterWait(p, FALSE)) /\ UNCHANGED schedVars
        /\ arg' = [arg EXCEPT ![p] = Nobody]
    BY <1>5, NotIdle DEF WaitNone
  <2>2. IdleLoops' /\ RunqExact' /\ SleepAgrees' /\ CurrentAwake'
    BY <2>1, OnlyMoves DEF schedVars, LeavingPoints
  <2>3. AfterWait(p, FALSE) \in PCs
    BY Labels DEF AfterWait
  <2>4. pc' \in [Procs -> PCs] /\ arg' \in [Procs -> Procs]
    BY <2>1, <2>3 DEF Goto, QueueInv, TypeOK, Nobody, Procs
  <2>5. TypeOK'
    BY <1>5, <2>1, <2>4 DEF WaitNone, schedVars, QueueInv, TypeOK, SchedTypeOK
  <2> QED
    BY <2>2, <2>5 DEF QueueInv
<1>6. CASE WaitAgain(p)
  <2>1. /\ p # Idle /\ p = current /\ pc[p] = "wait_ret"
        /\ Goto(p, "wait") /\ UNCHANGED schedVars
    BY <1>6, NotIdle DEF WaitAgain
  <2>2. IdleLoops' /\ RunqExact' /\ SleepAgrees' /\ CurrentAwake'
    BY <2>1, OnlyMoves DEF schedVars, LeavingPoints
  <2>3. TypeOK'
    BY <1>6, <2>1, Labels
    DEF WaitAgain, Goto, schedVars, QueueInv, TypeOK, SchedTypeOK
  <2> QED
    BY <2>2, <2>3 DEF QueueInv
<1>7. CASE WaitKilled(p)
  <2>1. p # Idle /\ p = current /\ pc[p] = "wait_ret" /\ DoExit(p)
    BY <1>7, NotIdle DEF WaitKilled
  <2> QED
    BY <2>1, DoExitInv DEF LeavingPoints
<1>8. CASE KillWake(p)
  <2>1. /\ p # Idle /\ p = current /\ pc[p] = "kill_wake"
        /\ Wakeup(arg[p]) /\ Goto(p, "sysret") /\ UNCHANGED current
        /\ arg' = [arg EXCEPT ![p] = Nobody]
    BY <1>8, NotIdle DEF KillWake
  <2>2. /\ arg[p] \in Procs /\ "sysret" \in PCs
        /\ pc[p] \notin LeavingPoints
    BY <2>1, Labels DEF QueueInv, TypeOK, LeavingPoints
  <2>3. /\ state' \in [Procs -> States]
        /\ waitState' \in [Procs -> WaitStates]
        /\ slice' \in [Procs -> 0 .. MaxSlice]
        /\ runq' \in Seq(Procs)
        /\ pc' \in [Procs -> PCs]
        /\ IdleLoops' /\ RunqExact' /\ SleepAgrees' /\ CurrentAwake'
    BY <2>1, <2>2, WakeStep
  <2>4. arg' \in [Procs -> Procs]
    BY <2>1 DEF QueueInv, TypeOK, Nobody, Procs
  <2>5. TypeOK'
    BY <1>8, <2>3, <2>4 DEF KillWake, QueueInv, TypeOK, SchedTypeOK
  <2> QED
    BY <2>3, <2>5 DEF QueueInv
<1>9. CASE SleepReturn(p)
  <2>1. /\ p # Idle /\ p = current /\ pc[p] = "sleep_ret"
        /\ Goto(p, "sysret") /\ UNCHANGED schedVars
        /\ timer' = [timer EXCEPT ![p] = Unarmed]
    BY <1>9, NotIdle DEF SleepReturn, Disarmed
  <2>2. IdleLoops' /\ RunqExact' /\ SleepAgrees' /\ CurrentAwake'
    BY <2>1, OnlyMoves DEF schedVars, LeavingPoints
  <2>3. pc' \in [Procs -> PCs] /\ timer' \in [Procs -> Nat \cup {Unarmed}]
    BY <2>1, Labels DEF Goto, QueueInv, TypeOK
  <2>4. TypeOK'
    BY <1>9, <2>1, <2>3 DEF SleepReturn, schedVars, QueueInv, TypeOK, SchedTypeOK
  <2> QED
    BY <2>2, <2>4 DEF QueueInv
<1>10. CASE TrapReturn(p)
  <2>1. /\ p # Idle /\ p = current /\ pc[p] \in {"sysret", "irqret"}
        /\ UNCHANGED schedVars
    BY <1>10, NotIdle DEF TrapReturn
  <2>2. PICK l \in {"user", "user_sched", "irq_sched"} : Goto(p, l)
    BY <1>10, <2>1 DEF TrapReturn
  <2>3. IdleLoops' /\ RunqExact' /\ SleepAgrees' /\ CurrentAwake'
    BY <2>1, <2>2, OnlyMoves DEF schedVars, LeavingPoints
  <2>4. TypeOK'
    BY <1>10, <2>1, <2>2, Labels
    DEF TrapReturn, Goto, schedVars, QueueInv, TypeOK, SchedTypeOK
  <2> QED
    BY <2>3, <2>4 DEF QueueInv
<1>11. CASE TrapKilled(p)
  <2>1. /\ p # Idle /\ p = current /\ pc[p] \in {"sysret", "irqret"}
        /\ DoExit(p)
    BY <1>11, NotIdle DEF TrapKilled
  <2> QED
    BY <2>1, DoExitInv DEF LeavingPoints
<1>12. CASE Reschedule(p)
  BY <1>12, RescheduleInv
<1> QED
  BY <1>1, <1>2, <1>3, <1>4, <1>5, <1>6, <1>7, <1>8, <1>9, <1>10, <1>11, <1>12
  DEF KernelStep

-----------------------------------------------------------------------------
\* The timer interrupt keeps the invariant, wherever it comes.
LEMMA InterruptInv ==
  ASSUME QueueInv, Tick \/ IrqStep
  PROVE  QueueInv'
<1> USE DEF QueueInv, TypeOK
<1>1. CASE Tick
  <2>1. UNCHANGED <<current, state, waitState, slice, runq, pc>>
    BY <1>1 DEF Tick
  <2>2. IdleLoops' /\ RunqExact' /\ SleepAgrees' /\ CurrentAwake'
    BY <2>1 DEF IdleLoops, RunqExact, Queued, SleepAgrees, CurrentAwake
  <2>3. needResched' \in [Procs -> BOOLEAN]
    BY <1>1 DEF Tick, SchedTypeOK
  <2>4. timer' \in [Procs -> Nat \cup {Unarmed}]
    <3>1. \A p \in Procs : CountDown(p) \in Nat \cup {Unarmed}
      BY DEF CountDown, Unarmed
    <3> QED
      BY <1>1, <3>1 DEF Tick
  <2>5. ticks' \in 0 .. TICK_MOD - 1
    BY <1>1, ProcConstants DEF Tick
  <2>6. TypeOK'
    BY <1>1, <2>1, <2>3, <2>4, <2>5 DEF Tick, SchedTypeOK
  <2> QED
    BY <2>2, <2>6
<1>2. CASE TickEnd
  <2>1. UNCHANGED <<current, state, waitState, runq>>
    BY <1>2 DEF TickEnd
  <2>2. needResched' \in [Procs -> BOOLEAN] /\ slice' \in [Procs -> 0 .. MaxSlice]
    <3>1. ProcTick(current) /\ current \in Procs
      BY <1>2 DEF TickEnd, SchedTypeOK
    <3>2. Shrink(current) \in 0 .. MaxSlice
      BY <3>1, SchedConstants DEF Shrink, SchedTypeOK
    <3>3. CASE current = Idle
      BY <3>1, <3>3 DEF ProcTick, SchedTypeOK
    <3>4. CASE current # Idle
      <4>1. /\ slice' = [slice EXCEPT ![current] = Shrink(current)]
            /\ needResched' = [needResched EXCEPT ![current] =
                                 needResched[current] \/ Shrink(current) = 0]
        BY <3>1, <3>4 DEF ProcTick
      <4>2. slice' \in [Procs -> 0 .. MaxSlice]
        BY <3>2, <4>1 DEF SchedTypeOK
      <4>3. needResched' \in [Procs -> BOOLEAN]
        BY <4>1 DEF SchedTypeOK
      <4> QED
        BY <4>2, <4>3
    <3> QED
      BY <3>3, <3>4
  <2>3. CASE pc[current] = "user"
    <3>1. Goto(current, "irqret") /\ current # Idle
      BY <1>2, <2>3 DEF TickEnd, IdleLoops
    <3>2. IdleLoops' /\ RunqExact' /\ SleepAgrees' /\ CurrentAwake'
      BY <2>1, <2>3, <3>1, OnlyMoves DEF LeavingPoints, SchedTypeOK
    <3>3. pc' \in [Procs -> PCs]
      BY <3>1, Labels DEF Goto
    <3> QED
      BY <1>2, <2>1, <2>2, <3>2, <3>3 DEF TickEnd, SchedTypeOK
  <2>4. CASE pc[current] # "user"
    <3>1. UNCHANGED pc
      BY <1>2, <2>4 DEF TickEnd
    <3>2. IdleLoops' /\ RunqExact' /\ SleepAgrees' /\ CurrentAwake'
      BY <2>1, <3>1 DEF IdleLoops, RunqExact, Queued, SleepAgrees, CurrentAwake
    <3> QED
      BY <1>2, <2>1, <2>2, <3>1, <3>2 DEF TickEnd, SchedTypeOK
  <2> QED
    BY <2>3, <2>4
<1>3. ASSUME NEW p \in Procs, Expire(p)
      PROVE  QueueInv'
  <2>1. /\ Wakeup(p) /\ UNCHANGED <<current, pc>>
        /\ timer' = [timer EXCEPT ![p] = Unarmed]
        /\ UNCHANGED <<needResched, arg, exiting, parent, irq, ticks, nr_process>>
    BY <1>3 DEF Expire, Disarmed
  <2>2. /\ state' \in [Procs -> States]
        /\ waitState' \in [Procs -> WaitStates]
        /\ slice' \in [Procs -> 0 .. MaxSlice]
        /\ runq' \in Seq(Procs)
    BY <2>1, WakeupType
  <2>3. RunqExact' /\ state'[Idle] = "RUNNABLE"
    BY <2>1, WakeupExact DEF IdleLoops
  <2>4. SleepAgrees' /\ CurrentAwake'
    BY <2>1, WakeupAwake DEF CurrentAwake
  <2>5. IdleLoops'
    BY <2>1, <2>3 DEF IdleLoops
  <2>6. TypeOK'
    BY <2>1, <2>2 DEF SchedTypeOK
  <2> QED
    BY <2>3, <2>4, <2>5, <2>6
<1> QED
  BY <1>1, <1>2, <1>3 DEF IrqStep

\* init_main's first step and its end.
LEMMA InitMainInv ==
  ASSUME QueueInv, InitMain \/ InitPanics
  PROVE  QueueInv'
<1> InitP \in Procs
  BY DEF Procs
<1>1. CASE InitMain
  <2>1. InitP # Idle /\ InitP = current /\ pc[InitP] = "init" /\ Fork(InitP)
    BY <1>1, NotIdle DEF InitMain
  <2> QED
    BY <2>1, ForkInv DEF LeavingPoints
<1>2. CASE InitPanics
  <2>1. /\ InitP # Idle /\ InitP = current /\ pc[InitP] = "wait_ret"
        /\ Goto(InitP, "panic") /\ UNCHANGED schedVars
    BY <1>2, NotIdle DEF InitPanics
  <2>2. IdleLoops' /\ RunqExact' /\ SleepAgrees' /\ CurrentAwake'
    BY <2>1, OnlyMoves DEF schedVars, LeavingPoints
  <2>3. TypeOK'
    BY <1>2, <2>1, Labels
    DEF InitPanics, Goto, schedVars, QueueInv, TypeOK, SchedTypeOK
  <2> QED
    BY <2>2, <2>3 DEF QueueInv
<1> QED
  BY <1>1, <1>2

LEMMA NextQueueInv == QueueInv /\ [Next]_vars => QueueInv'
<1> SUFFICES ASSUME QueueInv, [Next]_vars PROVE QueueInv'
  OBVIOUS
<1>1. CASE Tick \/ IrqStep
  BY <1>1, InterruptInv
<1>2. CASE KernelProgress
  BY <1>2, KernelStepInv, InitMainInv DEF KernelProgress
<1>3. CASE \E p \in Users : UserStep(p)
  BY <1>3, UserStepInv
<1>4. CASE UNCHANGED vars
  BY <1>4 DEF vars, schedVars, procVars, QueueInv, TypeOK, SchedTypeOK,
              IdleLoops, RunqExact, Queued, SleepAgrees, CurrentAwake
<1> QED
  BY <1>1, <1>2, <1>3, <1>4 DEF Next

-----------------------------------------------------------------------------
THEOREM QueueInvariant == Spec => []QueueInv
  BY InitQueueInv, NextQueueInv, PTL DEF Spec

\* The variables keep their types: no process ever gets a negative time slice,
\* and every step leads to a point of the code that exists.
THEOREM TypeCorrect == Spec => []TypeOK
  BY QueueInvariant, PTL DEF QueueInv

\* The run queue holds exactly the runnable processes that are not running,
\* each once, for any number of processes: forks, wakeups by exiting children,
\* kills and timers, however interleaved, lose nobody and queue nobody twice.
\* And a process is asleep exactly when its wait_state says what it waits for.
THEOREM SchedulingExact == Spec => []SchedExact
  BY QueueInvariant, PTL DEF QueueInv, SchedExact

-----------------------------------------------------------------------------
(* Timers. *)

TimerStep == TA!AbsNext \/ UNCHANGED <<timer, irq = "timers">>

-----------------------------------------------------------------------------
\* A step that leaves the timers alone and moves at most one process on,
\* without taking it out of do_sleep or back from its exit.
LEMMA MovesOn ==
  ASSUME QueueInv, TimerInv, NEW p \in Procs, NEW l,
         pc' = [pc EXCEPT ![p] = l],
         pc[p] # "none",
         pc[p] \in ExitPoints => l \in ExitPoints,
         pc[p] \in SleepPoints => l \in SleepPoints,
         UNCHANGED <<timer, irq>>,
         \A q \in Procs : waitState'[q] \in {waitState[q], "0", "CHILD"},
         \A q \in Procs : state'[q] \in {state[q], "RUNNABLE", "SLEEPING"}
  PROVE  TimerInv' /\ TimerStep
<1> USE DEF QueueInv, TypeOK
<1>1. TimerOwned'
  BY DEF TimerInv, TimerOwned
<1>2. NoneDue'
  BY DEF TimerInv, NoneDue
<1>3. GoneStaysGone'
  BY DEF TimerInv, GoneStaysGone
<1>4. TimerStep
  BY DEF TimerStep
<1> QED
  BY <1>1, <1>2, <1>3, <1>4 DEF TimerInv

\* What a wakeup does to the states of the others: nothing.
LEMMA WakeupStates ==
  ASSUME QueueInv, NEW p \in Procs, Wakeup(p)
  PROVE  /\ \A q \in Procs : waitState'[q] \in {waitState[q], "0", "CHILD"}
         /\ \A q \in Procs : state'[q] \in {state[q], "RUNNABLE", "SLEEPING"}
         /\ waitState'[p] = "0"
  BY DEF QueueInv, TypeOK, SchedTypeOK, SleepAgrees, Wakeup, Woken

-----------------------------------------------------------------------------
LEMMA InitTimerInv == Init => TimerInv /\ TA!AbsInit
<1> SUFFICES ASSUME Init PROVE TimerInv /\ TA!AbsInit
  OBVIOUS
<1>1. TimerOwned /\ NoneDue
  BY DEF Init, TimerOwned, NoneDue, Unarmed
<1>2. GoneStaysGone
  BY SchedConstants DEF Init, GoneStaysGone, Procs
<1>3. TA!AbsInit
  BY DEF Init, TA!AbsInit, TA!Unarmed, Unarmed
<1> QED
  BY <1>1, <1>2, <1>3 DEF TimerInv

LEMMA ForkTimer ==
  ASSUME QueueInv, TimerInv, NEW p \in Procs, pc[p] \in {"user", "init"}, Fork(p)
  PROVE  TimerInv' /\ TimerStep
<1> USE DEF QueueInv, TypeOK, SchedTypeOK
<1> DEFINE next == IF p = InitP THEN "wait" ELSE "sysret"
<1>1. PICK c \in Users :
          /\ state[c] = "NONE" /\ Wakeup(c)
          /\ pc' = [pc EXCEPT ![c] = "user", ![p] = next]
          /\ UNCHANGED <<timer, irq>>
  BY DEF Fork
<1>2. c \in Procs /\ pc[c] = "none"
  BY <1>1 DEF Procs, TimerInv, GoneStaysGone
<1>3. /\ state' = [state EXCEPT ![c] = "RUNNABLE"]
      /\ \A q \in Procs : waitState'[q] \in {waitState[q], "0", "CHILD"}
  BY <1>1, <1>2, WakeupStates DEF Wakeup
<1>4. TimerOwned' /\ NoneDue'
  BY <1>1, <1>2, <1>3 DEF TimerInv, TimerOwned, NoneDue, SleepPoints
<1>5. GoneStaysGone'
  BY <1>1, <1>2, <1>3 DEF TimerInv, GoneStaysGone, ExitPoints
<1> QED
  BY <1>1, <1>4, <1>5 DEF TimerInv, TimerStep

LEMMA DoExitTimer ==
  ASSUME QueueInv, TimerInv, NEW p \in Procs, pc[p] \notin SleepPoints, DoExit(p)
  PROVE  TimerInv' /\ TimerStep
<1> USE DEF QueueInv, TypeOK, SchedTypeOK
<1>1. /\ state' = [state EXCEPT ![p] = "ZOMBIE"]
      /\ pc' = [pc EXCEPT ![p] = "exit_notify"]
      /\ UNCHANGED <<waitState, timer, irq>>
  BY DEF DoExit, Goto
<1>2. TimerOwned' /\ NoneDue'
  BY <1>1 DEF TimerInv, TimerOwned, NoneDue
<1>3. GoneStaysGone'
  BY <1>1 DEF TimerInv, GoneStaysGone, ExitPoints
<1> QED
  BY <1>1, <1>2, <1>3 DEF TimerInv, TimerStep

LEMMA WaitReapTimer ==
  ASSUME QueueInv, TimerInv, NEW p \in Procs, WaitReap(p)
  PROVE  TimerInv' /\ TimerStep
<1> USE DEF QueueInv, TypeOK, SchedTypeOK
<1>1. PICK z \in Targets(p) :
          /\ state[z] = "ZOMBIE"
          /\ state' = [state EXCEPT ![z] = "NONE"]
          /\ pc' = [pc EXCEPT ![z] = "none", ![p] = AfterWait(p, TRUE)]
          /\ UNCHANGED <<waitState, timer, irq>>
  BY DEF WaitReap, Reapable, Free
<1>2. z \in Procs /\ pc[z] \in ExitPoints /\ pc[p] = "wait" /\ z # p
  <2>1. z \in Procs
    BY DEF Targets, Children, Procs
  <2>2. pc[p] = "wait"
    BY DEF WaitReap, At
  <2>3. state[z] = "ZOMBIE"
    BY <1>1
  <2>4. \A q \in Procs : state[q] = "ZOMBIE" => pc[q] \in ExitPoints
    BY DEF TimerInv, GoneStaysGone
  <2> QED
    BY <2>1, <2>2, <2>3, <2>4 DEF ExitPoints
<1>3. TimerOwned' /\ NoneDue'
  BY <1>1, <1>2 DEF TimerInv, TimerOwned, NoneDue, ExitPoints, SleepPoints
<1>4. GoneStaysGone'
  BY <1>1, <1>2 DEF TimerInv, GoneStaysGone, ExitPoints
<1> QED
  BY <1>1, <1>3, <1>4 DEF TimerInv, TimerStep

-----------------------------------------------------------------------------
\* do_sleep arms a timer that is not armed, and takes it off when it returns.
LEMMA SysSleepTimer ==
  ASSUME QueueInv, TimerInv, NEW p \in Procs, SysSleep(p)
  PROVE  TimerInv' /\ TimerStep
<1> USE DEF QueueInv, TypeOK, SchedTypeOK
<1>1. PICK t \in SleepTimes : timer' = [timer EXCEPT ![p] = t]
  BY DEF SysSleep
<1>2. /\ state' = [state EXCEPT ![p] = "SLEEPING"]
      /\ waitState' = [waitState EXCEPT ![p] = "TIMER"]
      /\ pc' = [pc EXCEPT ![p] = "sleep_sched"]
      /\ pc[p] = "user" /\ irq = "none" /\ irq' = irq
  BY DEF SysSleep, FallAsleep, Goto, At
<1>3. t # 0 /\ t # Unarmed
  BY <1>1, ProcConstants DEF Unarmed
<1>4. TimerOwned' /\ NoneDue'
  BY <1>1, <1>2, <1>3 DEF TimerInv, TimerOwned, NoneDue, SleepPoints
<1>5. GoneStaysGone'
  BY <1>2 DEF TimerInv, GoneStaysGone
<1>6. timer[p] = Unarmed
  BY <1>2 DEF TimerInv, TimerOwned, SleepPoints
<1>7. TA!Arm(p)
  BY <1>1, <1>2, <1>6 DEF TA!Arm, TA!Unarmed, Unarmed
<1> QED
  BY <1>4, <1>5, <1>7 DEF TimerInv, TimerStep, TA!AbsNext

LEMMA SleepReturnTimer ==
  ASSUME QueueInv, TimerInv, NEW p \in Procs, SleepReturn(p)
  PROVE  TimerInv' /\ TimerStep
<1> USE DEF QueueInv, TypeOK, SchedTypeOK
<1>1. /\ timer' = [timer EXCEPT ![p] = Unarmed]
      /\ pc' = [pc EXCEPT ![p] = "sysret"]
      /\ pc[p] = "sleep_ret" /\ irq = "none"
      /\ p = current /\ irq' = irq /\ UNCHANGED <<state, waitState>>
  BY DEF SleepReturn, Disarmed, Goto, At, schedVars
<1>2. waitState[p] = "0"
  BY <1>1 DEF CurrentAwake, LeavingPoints, SleepAgrees
<1>3. TimerOwned' /\ NoneDue'
  BY <1>1, <1>2 DEF TimerInv, TimerOwned, NoneDue, SleepPoints, Unarmed
<1>4. GoneStaysGone'
  BY <1>1 DEF TimerInv, GoneStaysGone, ExitPoints
<1>5. TA!Cancel(p)
  BY <1>1 DEF TA!Cancel, TA!Unarmed, Unarmed
<1> QED
  BY <1>3, <1>4, <1>5 DEF TimerInv, TimerStep, TA!AbsNext

-----------------------------------------------------------------------------
LEMMA UserStepTimer ==
  ASSUME QueueInv, TimerInv, NEW p \in Users, UserStep(p)
  PROVE  TimerInv' /\ TimerStep
<1> USE DEF ExitPoints, SleepPoints
<1> p \in Procs
  BY DEF Procs
<1>1. CASE SysFork(p)
  BY <1>1, ForkTimer DEF SysFork, At
<1>2. CASE SysNothing(p)
  BY <1>2, MovesOn DEF SysNothing, At, Goto, schedVars
<1>3. CASE SysYield(p)
  BY <1>3, MovesOn DEF SysYield, At, Goto
<1>4. CASE SysExit(p)
  BY <1>4, DoExitTimer DEF SysExit, At
<1>5. CASE SysWait(p)
  BY <1>5, MovesOn DEF SysWait, At, Goto, schedVars
<1>6. CASE SysKill(p)
  <2>1. /\ Goto(p, "kill_wake") \/ Goto(p, "sysret")
        /\ UNCHANGED <<timer, irq, state, waitState>> /\ pc[p] = "user"
    BY <1>6 DEF SysKill, At, schedVars
  <2> QED
    BY <2>1, MovesOn DEF Goto
<1>7. CASE SysSleep(p)
  BY <1>7, SysSleepTimer
<1> QED
  BY <1>1, <1>2, <1>3, <1>4, <1>5, <1>6, <1>7 DEF UserStep

LEMMA KernelStepTimer ==
  ASSUME QueueInv, TimerInv, NEW p \in Procs, KernelStep(p)
  PROVE  TimerInv' /\ TimerStep
<1> USE DEF ExitPoints, SleepPoints
<1>1. CASE ExitNotify(p)
  <2>1. parent[p] \in Procs
    BY DEF QueueInv, TypeOK
  <2>2. Wakeup(parent[p]) \/ UNCHANGED <<state, waitState>>
    BY <1>1 DEF ExitNotify
  <2> QED
    BY <1>1, <2>1, <2>2, WakeupStates, MovesOn DEF ExitNotify, At, Goto
<1>2. CASE ExitAdopt(p)
  <2>1. InitP \in Procs
    BY DEF Procs
  <2>2. Wakeup(InitP) \/ UNCHANGED <<state, waitState>>
    BY <1>2 DEF ExitAdopt
  <2> QED
    BY <1>2, <2>1, <2>2, WakeupStates, MovesOn DEF ExitAdopt, At, Goto
<1>3. CASE WaitReap(p)
  BY <1>3, WaitReapTimer
<1>4. CASE WaitSleep(p)
  BY <1>4, MovesOn
  DEF WaitSleep, FallAsleep, At, Goto, QueueInv, TypeOK, SchedTypeOK
<1>5. CASE WaitNone(p)
  BY <1>5, MovesOn DEF WaitNone, At, Goto, schedVars
<1>6. CASE WaitAgain(p)
  BY <1>6, MovesOn DEF WaitAgain, At, Goto, schedVars
<1>7. CASE WaitKilled(p)
  BY <1>7, DoExitTimer DEF WaitKilled, At
<1>8. CASE KillWake(p)
  <2>1. arg[p] \in Procs
    BY DEF QueueInv, TypeOK
  <2> QED
    BY <1>8, <2>1, WakeupStates, MovesOn DEF KillWake, At, Goto
<1>9. CASE SleepReturn(p)
  BY <1>9, SleepReturnTimer
<1>10. CASE TrapReturn(p)
  BY <1>10, MovesOn DEF TrapReturn, At, Goto, schedVars
<1>11. CASE TrapKilled(p)
  BY <1>11, DoExitTimer DEF TrapKilled, At
<1>12. CASE Reschedule(p)
  <2>1. /\ pc' = [pc EXCEPT ![p] = AfterSchedule[pc[p]]]
        /\ pc[p] \in DOMAIN AfterSchedule
        /\ UNCHANGED <<timer, irq, state, waitState>>
    BY <1>12 DEF Reschedule, Goto, Schedule
  <2>2. /\ pc[p] # "none"
        /\ pc[p] \in ExitPoints => AfterSchedule[pc[p]] \in ExitPoints
        /\ pc[p] \in SleepPoints => AfterSchedule[pc[p]] \in SleepPoints
    BY <2>1 DEF AfterSchedule
  <2> QED
    BY <2>1, <2>2, MovesOn
<1> QED
  BY <1>1, <1>2, <1>3, <1>4, <1>5, <1>6, <1>7, <1>8, <1>9, <1>10, <1>11,
     <1>12 DEF KernelStep

LEMMA InterruptTimer ==
  ASSUME QueueInv, TimerInv, Tick \/ IrqStep
  PROVE  TimerInv' /\ TimerStep
<1> USE DEF QueueInv, TypeOK, SchedTypeOK
<1>1. CASE Tick
  <2>1. /\ irq = "none" /\ irq' = "timers"
        /\ timer' = [p \in Procs |-> CountDown(p)]
        /\ UNCHANGED <<state, waitState, pc>>
    BY <1>1 DEF Tick
  <2>2. \A p \in Procs : /\ timer[p] \in Nat \ {0} \/ timer[p] = Unarmed
                         /\ CountDown(p) = IF timer[p] = Unarmed THEN Unarmed
                                           ELSE timer[p] - 1
    BY <2>1 DEF TimerInv, NoneDue, CountDown, Unarmed
  <2>3. TimerOwned' /\ NoneDue' /\ GoneStaysGone'
    BY <2>1, <2>2
    DEF TimerInv, TimerOwned, NoneDue, GoneStaysGone, Unarmed
  <2>4. TA!Tick
    BY <2>1, <2>2 DEF TA!Tick, TA!Unarmed, Unarmed
  <2> QED
    BY <2>3, <2>4 DEF TimerInv, TimerStep, TA!AbsNext
<1>2. CASE TickEnd
  <2>1. /\ irq = "timers" /\ irq' = "none" /\ timer' = timer
        /\ \A p \in Procs : timer[p] # 0
        /\ UNCHANGED <<state, waitState>>
        /\ \/ pc[current] = "user" /\ pc' = [pc EXCEPT ![current] = "irqret"]
           \/ UNCHANGED pc
    BY <1>2 DEF TickEnd, Goto
  <2>2. TimerOwned' /\ NoneDue' /\ GoneStaysGone'
    BY <2>1
    DEF TimerInv, TimerOwned, NoneDue, GoneStaysGone, SleepPoints, ExitPoints
  <2>3. TA!Done
    BY <2>1 DEF TA!Done
  <2> QED
    BY <2>2, <2>3 DEF TimerInv, TimerStep, TA!AbsNext
<1>3. ASSUME NEW p \in Procs, Expire(p)
      PROVE  TimerInv' /\ TimerStep
  <2>1. /\ Wakeup(p) /\ irq = "timers" /\ timer[p] = 0
        /\ timer' = [timer EXCEPT ![p] = Unarmed]
        /\ UNCHANGED <<pc, irq>>
    BY <1>3 DEF Expire, Disarmed
  <2>2. /\ \A q \in Procs : waitState'[q] \in {waitState[q], "0", "CHILD"}
        /\ \A q \in Procs : state'[q] \in {state[q], "RUNNABLE", "SLEEPING"}
        /\ waitState'[p] = "0"
    BY <2>1, WakeupStates
  <2>3. TimerOwned' /\ NoneDue' /\ GoneStaysGone'
    BY <2>1, <2>2 DEF TimerInv, TimerOwned, NoneDue, GoneStaysGone, Unarmed
  <2>4. TA!Fire(p)
    BY <2>1 DEF TA!Fire, TA!Unarmed, Unarmed
  <2> QED
    BY <2>3, <2>4 DEF TimerInv, TimerStep, TA!AbsNext
<1> QED
  BY <1>1, <1>2, <1>3 DEF IrqStep

LEMMA NextTimerInv ==
  QueueInv /\ TimerInv /\ [Next]_vars => TimerInv' /\ TimerStep
<1> SUFFICES ASSUME QueueInv, TimerInv, [Next]_vars
             PROVE  TimerInv' /\ TimerStep
  OBVIOUS
<1> USE DEF ExitPoints, SleepPoints
<1>1. CASE Tick \/ IrqStep
  BY <1>1, InterruptTimer
<1>2. CASE InitMain
  BY <1>2, ForkTimer DEF InitMain, At, Procs
<1>3. CASE InitPanics
  <2>1. InitP \in Procs
    BY DEF Procs
  <2> QED
    BY <1>3, <2>1, MovesOn DEF InitPanics, At, Goto, schedVars
<1>4. CASE \E p \in Procs : KernelStep(p)
  BY <1>4, KernelStepTimer
<1>5. CASE \E p \in Users : UserStep(p)
  BY <1>5, UserStepTimer
<1>6. CASE UNCHANGED vars
  BY <1>6 DEF vars, schedVars, procVars, TimerInv, TimerOwned, NoneDue,
              GoneStaysGone, TimerStep
<1> QED
  BY <1>1, <1>2, <1>3, <1>4, <1>5, <1>6 DEF Next, KernelProgress

-----------------------------------------------------------------------------
THEOREM TimerInvariant == Spec => []TimerInv
  BY InitTimerInv, NextTimerInv, QueueInvariant, PTL DEF Spec

\* No timer outlives the do_sleep on whose stack it lives, whatever kills,
\* wakeups and interrupts meet; and a sleeper's timer is armed until it wakes.
THEOREM TimersOwned == Spec => []TimerOwned
  BY TimerInvariant, PTL DEF TimerInv

\* Every behaviour of the processes is one TimerAbs allows: together with the
\* refinement of TimerAbs by TimerList it licenses the countdowns of Proc.
THEOREM TimersUsed == Spec => UsesTimers
<1>1. Init => TA!AbsInit
  BY InitTimerInv
<1>2. QueueInv /\ TimerInv /\ [Next]_vars
        => [TA!AbsNext]_<<timer, irq = "timers">>
  BY NextTimerInv DEF TimerStep
<1> QED
  BY <1>1, <1>2, QueueInvariant, TimerInvariant, PTL
  DEF Spec, UsesTimers, TA!AbsSpec

-----------------------------------------------------------------------------
\* What the families rest on: the queues, the timers and themselves.
LifeInv == QueueInv /\ TimerInv /\ FamilyInv

Alive == {"RUNNABLE", "SLEEPING"}

\* The running process waits for no child while it runs on.
LEMMA AwakeWaitsNot ==
  ASSUME LifeInv, pc[current] \notin LeavingPoints
  PROVE  state[current] = "RUNNABLE" /\ waitState[current] = "0"
<1> USE DEF LifeInv, QueueInv, TypeOK, SchedTypeOK
<1>1. current \in Procs /\ state[current] = "RUNNABLE"
  BY DEF CurrentAwake
<1>2. waitState[current] = "0"
  BY <1>1 DEF SleepAgrees
<1> QED
  BY <1>1, <1>2

\* A step in which nobody dies, is born, freed, adopted or falls asleep for a
\* child, and in which only the running process moves.
LEMMA SameFamily ==
  ASSUME LifeInv, NEW p \in Procs, p = current,
         UNCHANGED <<current, parent>>,
         \A q \in Procs : q # p => pc'[q] = pc[q] /\ arg'[q] = arg[q],
         pc'[p] = pc[p] \/ pc[p] \notin {"exit_notify", "exit_kids"},
         arg'[p] = arg[p] \/ waitState'[p] # "CHILD",
         pc'[p] = "kill_wake" => state'[arg'[p]] \in Alive,
         p = InitP => pc'[p] \in InitPoints,
         pc'[p] \in ExitPoints => pc[p] \in ExitPoints,
         \A q \in Procs : waitState'[q] = "CHILD" => waitState[q] = "CHILD",
         \A q \in Procs : \/ state'[q] = state[q]
                          \/ state[q] \in Alive /\ state'[q] \in Alive
  PROVE  FamilyInv'
<1> USE DEF LifeInv, FamilyInv
<1>1. \A q \in Procs : /\ state[q] = "NONE" <=> state'[q] = "NONE"
                       /\ state[q] = "ZOMBIE" <=> state'[q] = "ZOMBIE"
                       /\ state[q] \in Alive <=> state'[q] \in Alive
  BY DEF Alive
<1>2. \A q \in Procs : Children(q)' = Children(q)
  BY <1>1 DEF Children, Procs
<1>3. NoMissedChild'
  <2> SUFFICES ASSUME NEW q \in Procs, waitState'[q] = "CHILD"
               PROVE  /\ Targets(q)' # {}
                      /\ \A c \in Targets(q)' : state'[c] = "ZOMBIE" =>
                              c = current' /\ pc'[c] = "exit_notify"
    BY DEF NoMissedChild
  <2>1. Targets(q)' = Targets(q)
    BY <1>2 DEF Targets
  <2>2. \A c \in Targets(q) : c \in Procs
    BY DEF Targets, Children, Procs
  <2> QED
    BY <1>1, <2>1, <2>2 DEF FamilySound, NoMissedChild
<1>4. ParentAlive'
  <2> SUFFICES ASSUME NEW c \in Users, state'[c] # "NONE"
               PROVE  /\ state'[parent'[c]] # "NONE" /\ parent'[c] # Idle
                      /\ state'[parent'[c]] = "ZOMBIE" =>
                            pc'[parent'[c]] \in {"exit_notify", "exit_kids"}
    BY DEF ParentAlive
  <2>1. c \in Procs /\ parent[c] \in Procs
    BY DEF QueueInv, TypeOK, Procs
  <2> QED
    BY <1>1, <2>1 DEF FamilySound, ParentAlive
<1>5. SwitchedOut'
  BY DEF SwitchedOut
<1>6. InitLives'
  BY <1>1 DEF InitLives, Alive, Procs
<1>7. KillAlive'
  <2> SUFFICES ASSUME NEW q \in Procs, pc'[q] = "kill_wake"
               PROVE  state'[arg'[q]] \in Alive
    BY DEF KillAlive, Alive
  <2>1. CASE q = p
    BY <2>1
  <2>2. CASE q # p
    BY <2>2 DEF SwitchedOut
  <2> QED
    BY <2>1, <2>2
<1>8. ExitIsFinal'
  BY <1>1 DEF ExitIsFinal
<1> QED
  BY <1>3, <1>4, <1>5, <1>6, <1>7, <1>8 DEF FamilySound

\* A wakeup of a process that is alive changes nothing else.
LEMMA WakeAlive ==
  ASSUME LifeInv, NEW q \in Procs, state[q] \in Alive, Wakeup(q)
  PROVE  /\ waitState'[q] = "0"
         /\ \A r \in Procs : waitState'[r] = "CHILD" => waitState[r] = "CHILD"
         /\ \A r \in Procs : \/ state'[r] = state[r]
                             \/ state[r] \in Alive /\ state'[r] \in Alive
<1> USE DEF LifeInv, QueueInv, TypeOK, SchedTypeOK
<1>1. CASE state[q] = "RUNNABLE"
  BY <1>1 DEF Wakeup, SleepAgrees
<1>2. CASE state[q] # "RUNNABLE"
  BY <1>2 DEF Wakeup, Woken, Alive
<1> QED
  BY <1>1, <1>2

LEMMA InitFamily == Init => FamilyInv
<1> SUFFICES ASSUME Init PROVE FamilyInv
  OBVIOUS
<1>1. NoMissedChild
  BY DEF Init, NoMissedChild
<1>2. ParentAlive
  BY DEF Init, ParentAlive, Procs
<1>3. SwitchedOut /\ InitLives /\ KillAlive /\ ExitIsFinal
  BY SchedConstants
  DEF Init, SwitchedOut, InitLives, InitPoints, KillAlive, ExitIsFinal,
      ExitPoints, Procs
<1> QED
  BY <1>1, <1>2, <1>3 DEF FamilyInv, FamilySound

-----------------------------------------------------------------------------
\* do_fork: the child is nobody's child before, and its parent is running.
LEMMA ForkFamily ==
  ASSUME LifeInv, NEW p \in Procs, p = current, p # Idle,
         pc[p] \in {"user", "init"}, Fork(p)
  PROVE  FamilyInv'
<1> USE DEF LifeInv, FamilyInv, FamilySound, QueueInv, TypeOK, SchedTypeOK
<1> DEFINE next == IF p = InitP THEN "wait" ELSE "sysret"
<1>1. PICK c \in Users :
          /\ state[c] = "NONE" /\ Wakeup(c)
          /\ parent' = [parent EXCEPT ![c] = p]
          /\ pc' = [pc EXCEPT ![c] = "user", ![p] = next]
          /\ UNCHANGED <<current, arg>>
  BY DEF Fork
<1>2. state[p] = "RUNNABLE" /\ waitState[p] = "0"
  BY AwakeWaitsNot DEF LeavingPoints
<1>3. c \in Procs /\ c # p /\ c # InitP /\ waitState[c] = "0"
  BY <1>1, <1>2, SchedConstants DEF Procs, SleepAgrees
<1>4. /\ state' = [state EXCEPT ![c] = "RUNNABLE"]
      /\ waitState' = waitState
  <2>1. /\ state' = [state EXCEPT ![c] = "RUNNABLE"]
        /\ waitState' = [waitState EXCEPT ![c] = "0"]
    BY <1>1 DEF Wakeup, Woken
  <2>2. [waitState EXCEPT ![c] = "0"] = waitState
    BY <1>3
  <2> QED
    BY <2>1, <2>2
<1>5. \A q \in Procs : q # p => Children(q)' = Children(q)
  <2>1. \A d \in Users : d # c => /\ state'[d] = state[d]
                                 /\ parent'[d] = parent[d]
    BY <1>1, <1>4 DEF Procs
  <2>2. parent'[c] = p /\ state[c] = "NONE"
    BY <1>1, <1>3
  <2> QED
    BY <2>1, <2>2 DEF Children
<1>6. NoMissedChild'
  <2> SUFFICES ASSUME NEW q \in Procs, waitState'[q] = "CHILD"
               PROVE  /\ Targets(q)' # {}
                      /\ \A d \in Targets(q)' : state'[d] = "ZOMBIE" =>
                              d = current' /\ pc'[d] = "exit_notify"
    BY DEF NoMissedChild
  <2>1. q # p /\ waitState[q] = "CHILD"
    BY <1>2, <1>4
  <2>2. Targets(q)' = Targets(q)
    BY <1>1, <1>5, <2>1 DEF Targets
  <2>3. \A d \in Targets(q) : d \in Procs /\ state'[d] = "ZOMBIE" => state[d] = "ZOMBIE"
    BY <1>4 DEF Targets, Children, Procs
  <2>4. \A d \in Targets(q) : d \in Procs
    BY DEF Targets, Children, Procs
  <2>5. Targets(q) # {}
    BY <2>1 DEF NoMissedChild
  <2>6. \A d \in Targets(q) : state[d] # "ZOMBIE"
    BY <2>1 DEF NoMissedChild
  <2> QED
    BY <2>2, <2>3, <2>4, <2>5, <2>6
<1>7. ParentAlive'
  <2> SUFFICES ASSUME NEW d \in Users, state'[d] # "NONE"
               PROVE  /\ state'[parent'[d]] # "NONE" /\ parent'[d] # Idle
                      /\ state'[parent'[d]] = "ZOMBIE" =>
                            pc'[parent'[d]] \in {"exit_notify", "exit_kids"}
    BY DEF ParentAlive
  <2>1. CASE d = c
    BY <1>1, <1>2, <1>3, <1>4, <2>1
  <2>2. CASE d # c
    <3>1. d \in Procs /\ parent[d] \in Procs /\ parent'[d] = parent[d]
      BY <1>1, <1>3, <2>2 DEF Procs
    <3>2. /\ state[d] # "NONE" /\ state[parent[d]] # "NONE" /\ parent[d] # Idle
          /\ state[parent[d]] = "ZOMBIE" =>
                pc[parent[d]] \in {"exit_notify", "exit_kids"}
      BY <1>4, <2>2 DEF ParentAlive
    <3> QED
      BY <1>1, <1>2, <1>4, <3>1, <3>2
  <2> QED
    BY <2>1, <2>2
<1>8. SwitchedOut'
  BY <1>1, <1>3 DEF SwitchedOut
<1>9. InitLives'
  BY <1>1, <1>3, <1>4 DEF InitLives, InitPoints, Procs
<1>10. KillAlive'
  BY <1>1, <1>3, <1>4 DEF KillAlive, SwitchedOut
<1>11. ExitIsFinal'
  BY <1>1, <1>3, <1>4 DEF ExitIsFinal, ExitPoints
<1> QED
  BY <1>6, <1>7, <1>8, <1>9, <1>10, <1>11

\* do_exit: the running process becomes a zombie that its parent has not been
\* told of.
LEMMA DoExitFamily ==
  ASSUME LifeInv, NEW p \in Procs, p = current, p # Idle, p # InitP,
         pc[p] \in {"user", "wait_ret", "sysret", "irqret"}, DoExit(p)
  PROVE  FamilyInv'
<1> USE DEF LifeInv, FamilyInv, FamilySound, QueueInv, TypeOK, SchedTypeOK
<1>1. /\ state' = [state EXCEPT ![p] = "ZOMBIE"]
      /\ pc' = [pc EXCEPT ![p] = "exit_notify"]
      /\ UNCHANGED <<current, waitState, arg, parent>>
  BY DEF DoExit, Goto
<1>2. state[p] = "RUNNABLE" /\ waitState[p] = "0"
  BY AwakeWaitsNot DEF LeavingPoints
<1>3. \A q \in Procs : Children(q)' = Children(q)
  BY <1>1, <1>2 DEF Children, Procs
<1>4. NoMissedChild'
  <2> SUFFICES ASSUME NEW q \in Procs, waitState'[q] = "CHILD"
               PROVE  /\ Targets(q)' # {}
                      /\ \A d \in Targets(q)' : state'[d] = "ZOMBIE" =>
                              d = current' /\ pc'[d] = "exit_notify"
    BY DEF NoMissedChild
  <2>1. Targets(q)' = Targets(q)
    BY <1>1, <1>3 DEF Targets
  <2>2. \A d \in Targets(q) : d \in Procs
    BY DEF Targets, Children, Procs
  <2> QED
    BY <1>1, <2>1, <2>2 DEF NoMissedChild
<1>5. ParentAlive'
  <2> SUFFICES ASSUME NEW d \in Users, state'[d] # "NONE"
               PROVE  /\ state'[parent'[d]] # "NONE" /\ parent'[d] # Idle
                      /\ state'[parent'[d]] = "ZOMBIE" =>
                            pc'[parent'[d]] \in {"exit_notify", "exit_kids"}
    BY DEF ParentAlive
  <2>1. d \in Procs /\ parent[d] \in Procs /\ state[d] # "NONE"
    BY <1>1, <1>2 DEF Procs
  <2> QED
    BY <1>1, <2>1 DEF ParentAlive
<1>6. SwitchedOut'
  BY <1>1 DEF SwitchedOut
<1>7. InitLives'
  BY <1>1 DEF InitLives, Procs
<1>8. KillAlive'
  BY <1>1 DEF KillAlive, SwitchedOut
<1>9. ExitIsFinal'
  BY <1>1 DEF ExitIsFinal
<1> QED
  BY <1>4, <1>5, <1>6, <1>7, <1>8, <1>9

\* do_exit tells a parent that waits; the zombie need not be running from then
\* on for it to be found.
LEMMA ExitNotifyFamily ==
  ASSUME LifeInv, NEW p \in Procs, ExitNotify(p)
  PROVE  FamilyInv'
<1> USE DEF LifeInv, FamilyInv, FamilySound, QueueInv, TypeOK, SchedTypeOK
<1>1. /\ p = current /\ p # Idle /\ pc[p] = "exit_notify"
      /\ pc' = [pc EXCEPT ![p] = "exit_kids"]
      /\ UNCHANGED <<current, arg, parent>>
  BY NotIdle DEF ExitNotify, Goto
<1>2. parent[p] \in Procs
  OBVIOUS
<1>3. /\ waitState'[parent[p]] # "CHILD"
      /\ \A r \in Procs : waitState'[r] = "CHILD" => waitState[r] = "CHILD"
      /\ \A r \in Procs : \/ state'[r] = state[r]
                          \/ state[r] \in Alive /\ state'[r] \in Alive
  <2>1. CASE WaitsForChild(parent[p])
    <3>1. state[parent[p]] \in Alive
      BY <1>2, <2>1 DEF WaitsForChild, SleepAgrees, Alive
    <3>2. Wakeup(parent[p])
      BY <2>1 DEF ExitNotify
    <3> QED
      BY <1>2, <3>1, <3>2, WakeAlive
  <2>2. CASE ~WaitsForChild(parent[p])
    BY <2>2 DEF ExitNotify, WaitsForChild
  <2> QED
    BY <2>1, <2>2
<1>4. \A q \in Procs : /\ state[q] = "NONE" <=> state'[q] = "NONE"
                       /\ state[q] = "ZOMBIE" <=> state'[q] = "ZOMBIE"
                       /\ state[q] \in Alive <=> state'[q] \in Alive
  BY <1>3 DEF Alive
<1>5. \A q \in Procs : Targets(q)' = Targets(q)
  BY <1>1, <1>4 DEF Targets, Children, Procs
<1>6. NoMissedChild'
  <2> SUFFICES ASSUME NEW q \in Procs, waitState'[q] = "CHILD"
               PROVE  /\ Targets(q)' # {}
                      /\ \A c \in Targets(q)' : state'[c] # "ZOMBIE"
    BY DEF NoMissedChild
  <2>1. q # parent[p] /\ waitState[q] = "CHILD"
    BY <1>3
  <2>2. \A c \in Targets(q) : c \in Procs /\ parent[c] = q
    BY DEF Targets, Children, Procs
  <2>3. \A c \in Targets(q) : state[c] = "ZOMBIE" => c = p
    BY <1>1, <2>1 DEF NoMissedChild
  <2>4. Targets(q) # {}
    BY <2>1 DEF NoMissedChild
  <2> QED
    BY <1>4, <1>5, <2>1, <2>2, <2>3, <2>4
<1>7. ParentAlive'
  <2> SUFFICES ASSUME NEW d \in Users, state'[d] # "NONE"
               PROVE  /\ state'[parent'[d]] # "NONE" /\ parent'[d] # Idle
                      /\ state'[parent'[d]] = "ZOMBIE" =>
                            pc'[parent'[d]] \in {"exit_notify", "exit_kids"}
    BY DEF ParentAlive
  <2>1. d \in Procs /\ parent[d] \in Procs
    BY DEF Procs
  <2> QED
    BY <1>1, <1>4, <2>1 DEF ParentAlive
<1>8. SwitchedOut'
  BY <1>1 DEF SwitchedOut
<1>9. InitLives'
  BY <1>1, <1>4 DEF InitLives, InitPoints, Alive, Procs
<1>10. KillAlive'
  BY <1>1 DEF KillAlive, SwitchedOut
<1>11. ExitIsFinal'
  BY <1>1, <1>4 DEF ExitIsFinal, ExitPoints
<1> QED
  BY <1>6, <1>7, <1>8, <1>9, <1>10, <1>11

\* do_exit gives its children to initproc, and wakes it if there is a zombie
\* among them.
LEMMA ExitAdoptFamily ==
  ASSUME LifeInv, NEW p \in Procs, ExitAdopt(p)
  PROVE  FamilyInv'
<1> USE DEF LifeInv, FamilyInv, FamilySound, QueueInv, TypeOK, SchedTypeOK
<1>1. /\ p = current /\ p # Idle /\ pc[p] = "exit_kids"
      /\ pc' = [pc EXCEPT ![p] = "exit_sched"]
      /\ parent' = Adopted(p)
      /\ UNCHANGED <<current, arg>>
  BY NotIdle DEF ExitAdopt, Goto
<1>2. InitP \in Procs /\ p # InitP /\ state[InitP] \in Alive /\ InitP # Idle
  BY <1>1, SchedConstants DEF Procs, InitLives, InitPoints, Alive
<1>3. /\ waitState'[InitP] = "CHILD" => \A c \in Children(p) : state[c] # "ZOMBIE"
      /\ \A r \in Procs : waitState'[r] = "CHILD" => waitState[r] = "CHILD"
      /\ \A r \in Procs : \/ state'[r] = state[r]
                          \/ state[r] \in Alive /\ state'[r] \in Alive
  <2>1. CASE InitHasWork(Children(p))
    <3>1. Wakeup(InitP)
      BY <2>1 DEF ExitAdopt
    <3> QED
      BY <1>2, <3>1, WakeAlive
  <2>2. CASE ~InitHasWork(Children(p))
    <3>1. UNCHANGED <<state, waitState>>
      BY <2>2 DEF ExitAdopt
    <3> QED
      BY <2>2, <3>1 DEF InitHasWork, WaitsForChild
  <2> QED
    BY <2>1, <2>2
<1>4. \A q \in Procs : /\ state[q] = "NONE" <=> state'[q] = "NONE"
                       /\ state[q] = "ZOMBIE" <=> state'[q] = "ZOMBIE"
                       /\ state[q] \in Alive <=> state'[q] \in Alive
  BY <1>3 DEF Alive
<1>5. \A d \in Users : /\ d \in Procs
                       /\ state[d] # "NONE" <=> state'[d] # "NONE"
                       /\ parent'[d] = IF state[d] # "NONE" /\ parent[d] = p
                                       THEN InitP ELSE parent[d]
  BY <1>1, <1>4 DEF Procs, Adopted, Children
<1>6. Children(InitP)' = Children(InitP) \cup Children(p)
  BY <1>2, <1>4, <1>5 DEF Children
<1>7. \A q \in Procs : q # p /\ q # InitP => Children(q)' = Children(q)
  BY <1>2, <1>4, <1>5 DEF Children
<1>8. waitState[p] # "CHILD"
  <2>1. state[p] = "ZOMBIE"
    BY <1>1 DEF ExitIsFinal, ExitPoints
  <2> QED
    BY <2>1 DEF SleepAgrees
<1>9. NoMissedChild'
  <2> SUFFICES ASSUME NEW q \in Procs, waitState'[q] = "CHILD"
               PROVE  /\ Targets(q)' # {}
                      /\ \A c \in Targets(q)' : state'[c] # "ZOMBIE"
    BY DEF NoMissedChild
  <2>1. waitState[q] = "CHILD" /\ q # p
    BY <1>3, <1>8
  <2>2. Targets(q) # {} /\ \A c \in Targets(q) : state[c] # "ZOMBIE"
    BY <1>1, <2>1 DEF NoMissedChild
  <2>3. \A c \in Targets(q)' \cup Targets(q) : c \in Procs
    BY DEF Targets, Children, Procs
  <2>4. CASE q # InitP
    <3>1. Targets(q)' = Targets(q)
      BY <1>1, <1>7, <2>1, <2>4 DEF Targets
    <3> QED
      BY <1>4, <2>2, <2>3, <3>1
  <2>5. CASE q = InitP
    <3>1. /\ Targets(q) \subseteq Targets(q)'
          /\ Targets(q)' \subseteq Targets(q) \cup Children(p)
      BY <1>1, <1>6, <2>5 DEF Targets
    <3> QED
      BY <1>3, <1>4, <2>2, <2>3, <2>5, <3>1
  <2> QED
    BY <2>4, <2>5
<1>10. ParentAlive'
  <2> SUFFICES ASSUME NEW d \in Users, state'[d] # "NONE"
               PROVE  /\ state'[parent'[d]] # "NONE" /\ parent'[d] # Idle
                      /\ state'[parent'[d]] # "ZOMBIE"
    BY DEF ParentAlive
  <2>1. d \in Procs /\ parent[d] \in Procs /\ state[d] # "NONE"
    BY <1>5
  <2>2. /\ state[parent[d]] # "NONE" /\ parent[d] # Idle
        /\ state[parent[d]] = "ZOMBIE" =>
              pc[parent[d]] \in {"exit_notify", "exit_kids"}
    BY <2>1 DEF ParentAlive
  <2>3. CASE parent[d] = p
    BY <1>2, <1>4, <1>5, <2>1, <2>3 DEF Alive
  <2>4. CASE parent[d] # p
    <3>1. state[parent[d]] # "ZOMBIE"
      BY <1>1, <2>1, <2>2, <2>4 DEF SwitchedOut
    <3> QED
      BY <1>4, <1>5, <2>1, <2>2, <2>4, <3>1
  <2> QED
    BY <2>3, <2>4
<1>11. SwitchedOut'
  BY <1>1 DEF SwitchedOut
<1>12. InitLives'
  BY <1>1, <1>2, <1>4 DEF InitLives, Alive
<1>13. KillAlive'
  BY <1>1 DEF KillAlive, SwitchedOut
<1>14. ExitIsFinal'
  BY <1>1, <1>4 DEF ExitIsFinal, ExitPoints
<1> QED
  BY <1>9, <1>10, <1>11, <1>12, <1>13, <1>14

-----------------------------------------------------------------------------
\* do_wait frees a zombie that has left the processor and has no child left,
\* so that nobody loses a parent.
LEMMA ReapedIsDead ==
  ASSUME LifeInv, NEW p \in Procs, p = current, pc[p] = "wait",
         NEW z \in Targets(p), state[z] = "ZOMBIE"
  PROVE  /\ z \in Users /\ z # p /\ pc[z] = "dead" /\ parent[z] = p
         /\ Children(z) = {} /\ waitState[z] = "0"
<1> USE DEF LifeInv, FamilyInv, FamilySound, QueueInv, TypeOK, SchedTypeOK
<1>1. z \in Users /\ z \in Procs /\ parent[z] = p
  BY DEF Targets, Children, Procs
<1>2. pc[z] \in ExitPoints
  BY <1>1 DEF TimerInv, GoneStaysGone
<1>3. z # p
  BY <1>2 DEF ExitPoints
<1>4. pc[z] = "dead"
  BY <1>1, <1>2, <1>3 DEF SwitchedOut, ExitPoints
<1>5. Children(z) = {}
  BY <1>4 DEF ParentAlive, Children
<1>6. waitState[z] = "0"
  BY <1>1 DEF SleepAgrees
<1> QED
  BY <1>1, <1>3, <1>4, <1>5, <1>6

LEMMA WaitReapFamily ==
  ASSUME LifeInv, NEW p \in Procs, WaitReap(p)
  PROVE  FamilyInv'
<1> USE DEF LifeInv, FamilyInv, FamilySound, QueueInv, TypeOK, SchedTypeOK
<1>0. p # Idle /\ p = current /\ pc[p] = "wait"
  BY NotIdle DEF WaitReap
<1>1. PICK z \in Targets(p) :
          /\ state[z] = "ZOMBIE"
          /\ state' = [state EXCEPT ![z] = "NONE"]
          /\ parent' = [parent EXCEPT ![z] = Nobody]
          /\ pc' = [pc EXCEPT ![z] = "none", ![p] = AfterWait(p, TRUE)]
          /\ arg' = [arg EXCEPT ![z] = Nobody, ![p] = Nobody]
          /\ UNCHANGED <<current, waitState>>
  BY DEF WaitReap, Reapable, Free
<1>2. /\ z \in Users /\ z \in Procs /\ z # p /\ pc[z] = "dead" /\ parent[z] = p
      /\ Children(z) = {} /\ waitState[z] = "0"
  BY <1>0, <1>1, ReapedIsDead DEF Procs
<1>3. waitState[p] = "0" /\ state[p] = "RUNNABLE"
  BY <1>0, AwakeWaitsNot DEF LeavingPoints
<1>4. \A q \in Procs : q # p /\ q # z => Targets(q)' = Targets(q)
  <2> TAKE q \in Procs
  <2> HAVE q # p /\ q # z
  <2>1. arg'[q] = arg[q]
    BY <1>1
  <2>2. \A d \in Users : d # z => state'[d] = state[d] /\ parent'[d] = parent[d]
    BY <1>1 DEF Procs
  <2>3. state'[z] = "NONE"
    BY <1>1, <1>2
  <2>4. Children(q)' = Children(q)
    BY <1>2, <2>2, <2>3 DEF Children
  <2> QED
    BY <2>1, <2>4 DEF Targets
<1>5. NoMissedChild'
  <2> SUFFICES ASSUME NEW q \in Procs, waitState'[q] = "CHILD"
               PROVE  /\ Targets(q)' # {}
                      /\ \A c \in Targets(q)' : state'[c] # "ZOMBIE"
    BY DEF NoMissedChild
  <2>1. waitState[q] = "CHILD" /\ q # p /\ q # z
    BY <1>1, <1>2, <1>3
  <2>2. Targets(q) # {} /\ \A c \in Targets(q) : c \in Procs /\ state[c] # "ZOMBIE"
    BY <1>0, <2>1 DEF NoMissedChild, Targets, Children, Procs
  <2>3. \A c \in Procs : state[c] # "ZOMBIE" => state'[c] # "ZOMBIE"
    BY <1>1
  <2> QED
    BY <1>4, <2>1, <2>2, <2>3
<1>6. ParentAlive'
  <2> SUFFICES ASSUME NEW d \in Users, state'[d] # "NONE"
               PROVE  /\ state'[parent'[d]] # "NONE" /\ parent'[d] # Idle
                      /\ state'[parent'[d]] = "ZOMBIE" =>
                            pc'[parent'[d]] \in {"exit_notify", "exit_kids"}
    BY DEF ParentAlive
  <2>1. d \in Procs /\ d # z /\ state[d] # "NONE"
    BY <1>1, <1>2 DEF Procs
  <2>2. parent'[d] = parent[d] /\ parent[d] \in Procs /\ parent[d] # z
    BY <1>1, <1>2, <2>1 DEF Children
  <2>3. /\ state[parent[d]] # "NONE" /\ parent[d] # Idle
        /\ state[parent[d]] = "ZOMBIE" =>
              pc[parent[d]] \in {"exit_notify", "exit_kids"}
    BY <2>1 DEF ParentAlive
  <2>4. state'[parent[d]] = state[parent[d]]
    BY <1>1, <2>2
  <2>5. parent[d] # p => pc'[parent[d]] = pc[parent[d]]
    BY <1>1, <2>2
  <2> QED
    BY <1>3, <2>2, <2>3, <2>4, <2>5
<1>7. AfterWait(p, TRUE) = IF p # InitP THEN "sysret" ELSE "init_sched"
  BY DEF AfterWait
<1>8. SwitchedOut'
  BY <1>0, <1>1, <1>2 DEF SwitchedOut
<1>9. InitLives'
  BY <1>1, <1>2, <1>7, SchedConstants DEF InitLives, InitPoints, Procs
<1>10. KillAlive'
  BY <1>0, <1>1, <1>2, <1>7 DEF KillAlive, SwitchedOut
<1>11. ExitIsFinal'
  BY <1>0, <1>1, <1>2, <1>7 DEF ExitIsFinal, ExitPoints
<1> QED
  BY <1>5, <1>6, <1>8, <1>9, <1>10, <1>11

\* do_wait falls asleep over children none of which has died.
LEMMA WaitSleepFamily ==
  ASSUME LifeInv, NEW p \in Procs, WaitSleep(p)
  PROVE  FamilyInv'
<1> USE DEF LifeInv, FamilyInv, FamilySound, QueueInv, TypeOK, SchedTypeOK
<1>0. p # Idle /\ p = current /\ pc[p] = "wait"
  BY NotIdle DEF WaitSleep
<1>1. /\ state' = [state EXCEPT ![p] = "SLEEPING"]
      /\ waitState' = [waitState EXCEPT ![p] = "CHILD"]
      /\ pc' = [pc EXCEPT ![p] = "wait_sched"]
      /\ Targets(p) # {} /\ \A c \in Targets(p) : state[c] # "ZOMBIE"
      /\ UNCHANGED <<current, arg, parent>>
  BY DEF WaitSleep, FallAsleep, Goto, Reapable
<1>2. state[p] = "RUNNABLE"
  BY <1>0, AwakeWaitsNot DEF LeavingPoints
<1>3. \A q \in Procs : /\ state[q] = "NONE" <=> state'[q] = "NONE"
                       /\ state[q] = "ZOMBIE" <=> state'[q] = "ZOMBIE"
                       /\ state[q] \in Alive <=> state'[q] \in Alive
  BY <1>1, <1>2 DEF Alive
<1>4. \A q \in Procs : Targets(q)' = Targets(q)
  BY <1>1, <1>3 DEF Targets, Children, Procs
<1>5. NoMissedChild'
  <2> SUFFICES ASSUME NEW q \in Procs, waitState'[q] = "CHILD"
               PROVE  /\ Targets(q)' # {}
                      /\ \A c \in Targets(q)' : state'[c] # "ZOMBIE"
    BY DEF NoMissedChild
  <2>1. Targets(q) # {} /\ \A c \in Targets(q) : c \in Procs /\ state[c] # "ZOMBIE"
    BY <1>0, <1>1 DEF NoMissedChild, Targets, Children, Procs
  <2> QED
    BY <1>3, <1>4, <2>1
<1>6. ParentAlive'
  <2> SUFFICES ASSUME NEW d \in Users, state'[d] # "NONE"
               PROVE  /\ state'[parent'[d]] # "NONE" /\ parent'[d] # Idle
                      /\ state'[parent'[d]] = "ZOMBIE" =>
                            pc'[parent'[d]] \in {"exit_notify", "exit_kids"}
    BY DEF ParentAlive
  <2>1. d \in Procs /\ parent[d] \in Procs
    BY DEF Procs
  <2> QED
    BY <1>0, <1>1, <1>2, <1>3, <2>1 DEF ParentAlive
<1>7. SwitchedOut'
  BY <1>0, <1>1 DEF SwitchedOut
<1>8. InitLives'
  BY <1>1, <1>3 DEF InitLives, InitPoints, Alive, Procs
<1>9. KillAlive'
  BY <1>0, <1>1 DEF KillAlive, SwitchedOut
<1>10. ExitIsFinal'
  BY <1>0, <1>1 DEF ExitIsFinal, ExitPoints
<1> QED
  BY <1>5, <1>6, <1>7, <1>8, <1>9, <1>10

\* schedule() is called at points where nobody waits for the caller.
LEMMA RescheduleFamily ==
  ASSUME LifeInv, NEW p \in Procs, Reschedule(p)
  PROVE  FamilyInv'
<1> USE DEF LifeInv, FamilyInv, FamilySound, QueueInv, TypeOK, SchedTypeOK
<1> DEFINE next == AfterSchedule[pc[p]]
<1>1. /\ p = current /\ pc[p] \in DOMAIN AfterSchedule
      /\ pc' = [pc EXCEPT ![p] = next]
      /\ UNCHANGED <<state, waitState, arg, parent>>
  BY DEF Reschedule, Goto, Schedule
<1>2. /\ pc[p] \notin {"exit_notify", "exit_kids"}
      /\ next \in {"idle", "dead", "user", "wait", "wait_ret", "sleep_ret"}
      /\ next \in ExitPoints => pc[p] \in ExitPoints
      /\ pc[p] \in InitPoints => next \in InitPoints
  BY <1>1 DEF AfterSchedule, ExitPoints, InitPoints
<1>3. \A q \in Procs : Targets(q)' = Targets(q)
  BY <1>1 DEF Targets, Children
<1>4. NoMissedChild'
  <2> SUFFICES ASSUME NEW q \in Procs, waitState'[q] = "CHILD"
               PROVE  /\ Targets(q)' # {}
                      /\ \A c \in Targets(q)' : state'[c] # "ZOMBIE"
    BY DEF NoMissedChild
  <2>1. Targets(q) # {} /\ \A c \in Targets(q) : c \in Procs /\ state[c] # "ZOMBIE"
    BY <1>1, <1>2 DEF NoMissedChild, Targets, Children, Procs
  <2> QED
    BY <1>1, <1>3, <2>1
<1>5. ParentAlive'
  <2> SUFFICES ASSUME NEW d \in Users, state[d] # "NONE"
               PROVE  /\ state[parent[d]] # "NONE" /\ parent[d] # Idle
                      /\ state[parent[d]] = "ZOMBIE" =>
                            pc'[parent[d]] \in {"exit_notify", "exit_kids"}
    BY <1>1 DEF ParentAlive
  <2>1. d \in Procs /\ parent[d] \in Procs
    BY DEF Procs
  <2> QED
    BY <1>1, <1>2, <2>1 DEF ParentAlive
<1>6. SwitchedOut'
  BY <1>1, <1>2 DEF SwitchedOut
<1>7. InitLives'
  BY <1>1, <1>2 DEF InitLives, Procs
<1>8. KillAlive'
  BY <1>1, <1>2 DEF KillAlive, SwitchedOut
<1>9. ExitIsFinal'
  BY <1>1, <1>2 DEF ExitIsFinal
<1> QED
  BY <1>4, <1>5, <1>6, <1>7, <1>8, <1>9

-----------------------------------------------------------------------------
LEMMA UserStepFamily ==
  ASSUME LifeInv, NEW p \in Users, UserStep(p)
  PROVE  FamilyInv'
<1> USE DEF LifeInv, QueueInv, TypeOK, SchedTypeOK
<1>0. p \in Procs /\ p # InitP
  BY SchedConstants DEF Procs
<1>a. p # Idle /\ p = current /\ pc[p] = "user"
  BY <1>0, NotIdle DEF UserStep, SysFork, SysNothing, SysYield, SysExit,
                       SysWait, SysKill, SysSleep, At
<1>b. state[p] = "RUNNABLE" /\ waitState[p] = "0"
  BY <1>a, AwakeWaitsNot DEF LeavingPoints
<1>1. CASE SysFork(p)
  BY <1>0, <1>1, <1>a, ForkFamily DEF SysFork
<1>2. CASE SysNothing(p)
  BY <1>0, <1>2, <1>a, SameFamily DEF SysNothing, Goto, schedVars, ExitPoints
<1>3. CASE SysYield(p)
  BY <1>0, <1>3, <1>a, SameFamily DEF SysYield, Goto, ExitPoints
<1>4. CASE SysExit(p)
  BY <1>0, <1>4, <1>a, DoExitFamily DEF SysExit
<1>5. CASE SysWait(p)
  BY <1>0, <1>5, <1>a, <1>b, SameFamily DEF SysWait, Goto, schedVars, ExitPoints
<1>6. CASE SysKill(p)
  <2>1. PICK q \in KillTargets :
           \/ /\ MustWake(q) /\ pc' = [pc EXCEPT ![p] = "kill_wake"]
              /\ arg' = [arg EXCEPT ![p] = q]
           \/ pc' = [pc EXCEPT ![p] = "sysret"] /\ UNCHANGED arg
    BY <1>6 DEF SysKill, Goto
  <2>2. UNCHANGED <<current, state, waitState, parent>>
    BY <1>6 DEF SysKill, schedVars
  <2>3. MustWake(q) => state[q] \in Alive
    BY ProcConstants DEF MustWake, Interruptible, SleepAgrees, Alive, Procs
  <2> QED
    BY <1>0, <1>a, <1>b, <2>1, <2>2, <2>3, SameFamily DEF ExitPoints
<1>7. CASE SysSleep(p)
  BY <1>0, <1>7, <1>a, <1>b, SameFamily
  DEF SysSleep, FallAsleep, Goto, ExitPoints, Alive
<1> QED
  BY <1>1, <1>2, <1>3, <1>4, <1>5, <1>6, <1>7 DEF UserStep

LEMMA KernelStepFamily ==
  ASSUME LifeInv, NEW p \in Procs, KernelStep(p)
  PROVE  FamilyInv'
<1> USE DEF LifeInv, QueueInv, TypeOK, SchedTypeOK
<1>1. CASE ExitNotify(p)
  BY <1>1, ExitNotifyFamily
<1>2. CASE ExitAdopt(p)
  BY <1>2, ExitAdoptFamily
<1>3. CASE WaitReap(p)
  BY <1>3, WaitReapFamily
<1>4. CASE WaitSleep(p)
  BY <1>4, WaitSleepFamily
<1>5. CASE WaitNone(p)
  <2>1. p # Idle /\ p = current /\ pc[p] = "wait"
    BY <1>5, NotIdle DEF WaitNone
  <2>2. waitState[p] = "0"
    BY <2>1, AwakeWaitsNot DEF LeavingPoints
  <2>3. /\ pc' = [pc EXCEPT ![p] = IF p = InitP THEN "quit" ELSE "sysret"]
        /\ arg' = [arg EXCEPT ![p] = Nobody]
        /\ UNCHANGED <<current, state, waitState, parent>>
    BY <1>5 DEF WaitNone, Goto, AfterWait, schedVars
  <2> QED
    BY <2>1, <2>2, <2>3, SameFamily DEF ExitPoints, InitPoints
<1>6. CASE WaitAgain(p)
  <2>1. p # Idle /\ p = current /\ pc[p] = "wait_ret"
    BY <1>6, NotIdle DEF WaitAgain
  <2> QED
    BY <1>6, <2>1, SameFamily
    DEF WaitAgain, Goto, schedVars, ExitPoints, InitPoints
<1>7. CASE WaitKilled(p)
  <2>1. p # Idle /\ p = current /\ pc[p] = "wait_ret"
    BY <1>7, NotIdle DEF WaitKilled
  <2> QED
    BY <1>7, <2>1, DoExitFamily DEF WaitKilled
<1>8. CASE KillWake(p)
  <2>1. p # Idle /\ p = current /\ pc[p] = "kill_wake" /\ arg[p] \in Procs
    BY <1>8, NotIdle DEF KillWake
  <2>2. state[arg[p]] \in Alive
    BY <2>1 DEF FamilyInv, KillAlive, Alive
  <2>3. waitState[p] = "0"
    BY <2>1, AwakeWaitsNot DEF LeavingPoints
  <2>4. p # InitP
    BY <2>1 DEF FamilyInv, InitLives, InitPoints
  <2>5. /\ pc' = [pc EXCEPT ![p] = "sysret"]
        /\ arg' = [arg EXCEPT ![p] = Nobody]
        /\ UNCHANGED <<current, parent>> /\ Wakeup(arg[p])
    BY <1>8 DEF KillWake, Goto
  <2>6. /\ \A r \in Procs : waitState'[r] = "CHILD" => waitState[r] = "CHILD"
        /\ \A r \in Procs : \/ state'[r] = state[r]
                            \/ state[r] \in Alive /\ state'[r] \in Alive
    BY <2>1, <2>2, <2>5, WakeAlive
  <2>7. waitState'[p] # "CHILD"
    BY <2>3, <2>6
  <2>8. /\ pc'[p] = "sysret"
        /\ \A q \in Procs : q # p => pc'[q] = pc[q] /\ arg'[q] = arg[q]
    BY <2>5
  <2> QED
    BY <2>1, <2>4, <2>5, <2>6, <2>7, <2>8, SameFamily DEF ExitPoints
<1>9. CASE SleepReturn(p)
  <2>1. p # Idle /\ p = current /\ pc[p] = "sleep_ret"
    BY <1>9, NotIdle DEF SleepReturn
  <2>2. p # InitP
    BY <2>1 DEF FamilyInv, InitLives, InitPoints
  <2> QED
    BY <1>9, <2>1, <2>2, SameFamily DEF SleepReturn, Goto, schedVars, ExitPoints
<1>10. CASE TrapReturn(p)
  <2>1. p # Idle /\ p = current /\ pc[p] \in {"sysret", "irqret"}
    BY <1>10, NotIdle DEF TrapReturn
  <2>2. p # InitP
    BY <2>1 DEF FamilyInv, InitLives, InitPoints
  <2>3. PICK l \in {"user", "user_sched", "irq_sched"} :
           pc' = [pc EXCEPT ![p] = l]
    BY <1>10, <2>1 DEF TrapReturn, Goto
  <2>4. UNCHANGED <<current, state, waitState, parent, arg>>
    BY <1>10 DEF TrapReturn, schedVars
  <2> QED
    BY <2>1, <2>2, <2>3, <2>4, SameFamily DEF ExitPoints
<1>11. CASE TrapKilled(p)
  <2>1. p # Idle /\ p = current /\ pc[p] \in {"sysret", "irqret"}
    BY <1>11, NotIdle DEF TrapKilled
  <2>2. p # InitP
    BY <2>1 DEF FamilyInv, InitLives, InitPoints
  <2> QED
    BY <1>11, <2>1, <2>2, DoExitFamily DEF TrapKilled
<1>12. CASE Reschedule(p)
  BY <1>12, RescheduleFamily
<1> QED
  BY <1>1, <1>2, <1>3, <1>4, <1>5, <1>6, <1>7, <1>8, <1>9, <1>10, <1>11,
     <1>12 DEF KernelStep

LEMMA InterruptFamily ==
  ASSUME LifeInv, Tick \/ IrqStep
  PROVE  FamilyInv'
<1> USE DEF LifeInv, QueueInv, TypeOK, SchedTypeOK
<1>0. /\ current \in Procs
      /\ current = InitP => pc[current] \in InitPoints
      /\ pc[current] = "kill_wake" => state[arg[current]] \in Alive
  BY DEF FamilyInv, InitLives, KillAlive, Alive
<1>1. CASE Tick
  <2>1. UNCHANGED <<current, state, waitState, pc, arg, parent>>
    BY <1>1 DEF Tick
  <2> QED
    BY <1>0, <2>1, SameFamily
<1>2. CASE TickEnd
  <2>1. /\ UNCHANGED <<current, state, waitState, arg, parent>>
        /\ \/ pc[current] = "user" /\ pc' = [pc EXCEPT ![current] = "irqret"]
           \/ UNCHANGED pc
    BY <1>2 DEF TickEnd, Goto
  <2>2. "user" \notin InitPoints /\ "irqret" \notin ExitPoints
    BY DEF InitPoints, ExitPoints
  <2> QED
    BY <1>0, <2>1, <2>2, SameFamily
<1>3. ASSUME NEW p \in Procs, Expire(p)
      PROVE  FamilyInv'
  <2>1. Wakeup(p) /\ timer[p] = 0 /\ UNCHANGED <<current, pc, arg, parent>>
    BY <1>3 DEF Expire
  <2>2. pc[p] \in SleepPoints
    BY <2>1 DEF TimerInv, TimerOwned, Unarmed
  <2>3. state[p] \in Alive
    BY <2>2 DEF TimerInv, GoneStaysGone, SleepPoints, ExitPoints, States, Alive
  <2>4. /\ \A r \in Procs : waitState'[r] = "CHILD" => waitState[r] = "CHILD"
        /\ \A r \in Procs : \/ state'[r] = state[r]
                            \/ state[r] \in Alive /\ state'[r] \in Alive
    BY <2>1, <2>3, WakeAlive
  <2>5. pc[current] = "kill_wake" => state'[arg[current]] \in Alive
    <3>1. arg[current] \in Procs
      BY <1>0
    <3> QED
      BY <1>0, <2>4, <3>1
  <2> QED
    BY <1>0, <2>1, <2>4, <2>5, SameFamily
<1> QED
  BY <1>1, <1>2, <1>3 DEF IrqStep

LEMMA NextFamilyInv == LifeInv /\ [Next]_vars => FamilyInv'
<1> SUFFICES ASSUME LifeInv, [Next]_vars PROVE FamilyInv'
  OBVIOUS
<1>0. InitP \in Procs
  BY DEF Procs
<1>1. CASE Tick \/ IrqStep
  BY <1>1, InterruptFamily
<1>2. CASE InitMain
  <2>1. InitP # Idle /\ InitP = current /\ pc[InitP] = "init" /\ Fork(InitP)
    BY <1>0, <1>2, NotIdle DEF InitMain, LifeInv
  <2> QED
    BY <1>0, <2>1, ForkFamily
<1>3. CASE InitPanics
  <2>1. InitP = current /\ pc[InitP] = "wait_ret"
    BY <1>3 DEF InitPanics, At
  <2> QED
    BY <1>0, <1>3, <2>1, SameFamily
    DEF InitPanics, Goto, schedVars, ExitPoints, InitPoints, LifeInv, QueueInv,
        TypeOK
<1>4. CASE \E p \in Procs : KernelStep(p)
  BY <1>4, KernelStepFamily
<1>5. CASE \E p \in Users : UserStep(p)
  BY <1>5, UserStepFamily
<1>6. CASE UNCHANGED vars
  BY <1>6
  DEF vars, schedVars, procVars, LifeInv, FamilyInv, FamilySound,
      NoMissedChild, Targets, Children, ParentAlive, SwitchedOut, InitLives,
      KillAlive, ExitIsFinal
<1> QED
  BY <1>1, <1>2, <1>3, <1>4, <1>5, <1>6 DEF Next, KernelProgress

-----------------------------------------------------------------------------
THEOREM FamilyInvariant == Spec => []FamilyInv
<1>1. QueueInv /\ TimerInv /\ FamilyInv /\ [Next]_vars => FamilyInv'
  BY NextFamilyInv DEF LifeInv
<1> QED
  BY <1>1, InitFamily, QueueInvariant, TimerInvariant, PTL DEF Spec

\* Whoever dies is reaped: it has a parent that is alive, by birth or by
\* adoption, and that is not asleep in do_wait over it; at whatever points the
\* exit of the child, of its parent, the wait and the interrupts meet.
THEOREM FamilyAlwaysSound == Spec => []FamilySound
  BY FamilyInvariant, PTL DEF FamilyInv

\* The step that frees a process structure is its parent's, and the process has
\* left the processor, the run queue and the timer list and has no children.
LEMMA FreedStep ==
  ASSUME LifeInv, [Next]_vars, NEW p \in Users,
         state[p] # "NONE", state'[p] = "NONE"
  PROVE  /\ pc[p] = "dead" /\ p \notin Queued /\ timer[p] = Unarmed
         /\ Children(p) = {} /\ current = parent[p]
<1> USE DEF LifeInv, QueueInv, TypeOK, SchedTypeOK
<1>0. p \in Procs /\ InitP \in Procs
  BY DEF Procs
<1>1. \A q \in Procs : Wakeup(q) => state'[p] # "NONE"
  BY <1>0 DEF Wakeup
<1>2. \A q \in Procs, why \in WaitStates : FallAsleep(q, why) => state'[p] # "NONE"
  BY <1>0 DEF FallAsleep
<1>3. PICK q \in Procs : WaitReap(q)
  <2>1. \A q \in Procs : parent[q] \in Procs /\ arg[q] \in Procs
    OBVIOUS
  <2>2. ~Tick /\ ~IrqStep
    BY <1>1 DEF Tick, IrqStep, TickEnd, Expire
  <2>3. \A q \in Procs : ~Fork(q)
    BY <1>1 DEF Fork, Procs
  <2>4. \A q \in Procs : ~DoExit(q)
    BY <1>0 DEF DoExit
  <2>5. ~InitMain /\ ~InitPanics
    BY <1>0, <2>3 DEF InitMain, InitPanics, schedVars
  <2>6. \A q \in Users : ~UserStep(q)
    BY <1>2, <2>3, <2>4 DEF UserStep, SysFork, SysNothing, SysYield, SysExit,
         SysWait, SysKill, SysSleep, schedVars, WaitStates, Interruptible, Procs
  <2>7. \A q \in Procs : KernelStep(q) => WaitReap(q)
    BY <1>0, <1>1, <1>2, <2>1, <2>4
    DEF KernelStep, ExitNotify, ExitAdopt, WaitSleep, WaitNone, WaitAgain,
        WaitKilled, KillWake, SleepReturn, TrapReturn, TrapKilled, Reschedule,
        Schedule, schedVars, WaitStates, Interruptible
  <2>8. ~UNCHANGED vars
    BY DEF vars, schedVars
  <2> QED
    BY <2>2, <2>5, <2>6, <2>7, <2>8 DEF Next, KernelProgress
<1>4. q = current /\ pc[q] = "wait" /\ \E z \in Targets(q) :
          state[z] = "ZOMBIE" /\ state' = [state EXCEPT ![z] = "NONE"]
  BY <1>3 DEF WaitReap, At, Reapable, Free
<1>5. p \in Targets(q) /\ state[p] = "ZOMBIE"
  BY <1>0, <1>4
<1>6. pc[p] = "dead" /\ parent[p] = q /\ Children(p) = {}
  BY <1>4, <1>5, ReapedIsDead
<1>7. p \notin Queued
  BY <1>5 DEF RunqExact
<1>8. timer[p] = Unarmed
  BY <1>0, <1>6 DEF TimerInv, TimerOwned, SleepPoints
<1> QED
  BY <1>4, <1>6, <1>7, <1>8

\* do_wait frees nobody's stack under its feet, however the process came to
\* die and whatever its children do.
THEOREM FreedOnlyWhenDead == Spec => FreedWhenDead
<1>1. QueueInv /\ TimerInv /\ FamilyInv /\ [Next]_vars =>
        [\A p \in Users : state[p] # "NONE" /\ state'[p] = "NONE" =>
          /\ pc[p] = "dead" /\ p \notin Queued /\ timer[p] = Unarmed
          /\ Children(p) = {}
          /\ current = parent[p]]_vars
  BY FreedStep DEF LifeInv
<1> QED
  BY <1>1, FamilyInvariant, QueueInvariant, TimerInvariant, PTL
  DEF Spec, FreedWhenDead
=============================================================================
