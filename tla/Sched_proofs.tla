---------------------------- MODULE Sched_proofs ----------------------------
(***************************************************************************)
(* Lemmas about the scheduler's functions, for every set of processes:     *)
(* what wakeup_proc and schedule do to the run queue.  The proofs about    *)
(* the modules whose actions call them cite these.                         *)
(***************************************************************************)
EXTENDS Sched, TLAPS

-----------------------------------------------------------------------------
\* wakeup_proc keeps the types of what it changes.
LEMMA WakeupType ==
  ASSUME SchedTypeOK, NEW p \in Procs, Wakeup(p)
  PROVE  /\ state' \in [Procs -> States]
         /\ waitState' \in [Procs -> WaitStates]
         /\ slice' \in [Procs -> 0 .. MaxSlice]
         /\ runq' \in Seq(Procs)
<1>1. state' \in [Procs -> States] /\ waitState' \in [Procs -> WaitStates]
  BY DEF Wakeup, SchedTypeOK, Woken, States, WaitStates
<1>2. slice' \in [Procs -> 0 .. MaxSlice]
  <2>1. slice' = slice \/ slice' = Refill(p)
    BY DEF Wakeup
  <2>2. Refill(p) \in [Procs -> 0 .. MaxSlice]
    BY SchedConstants DEF Refill, SchedTypeOK
  <2> QED
    BY <2>1, <2>2 DEF SchedTypeOK
<1>3. runq' \in Seq(Procs)
  <2>1. runq \in Seq(Procs) /\ Append(runq, p) \in Seq(Procs)
    BY DEF SchedTypeOK
  <2>2. runq' = runq \/ runq' = Append(runq, p)
    BY DEF Wakeup
  <2> QED
    BY <2>1, <2>2
<1> QED
  BY <1>1, <1>2, <1>3

\* wakeup_proc keeps the run queue exact, whatever the state of its target:
\* a second wakeup does not queue a process twice, and a wakeup of the running
\* process, which is on its way to schedule(), does not queue it at all.
LEMMA WakeupExact ==
  ASSUME SchedTypeOK, RunqExact, state[Idle] = "RUNNABLE",
         NEW p \in Procs, Wakeup(p), UNCHANGED current
  PROVE  RunqExact' /\ state'[Idle] = "RUNNABLE"
<1>1. CASE state[p] = "RUNNABLE"
  BY <1>1 DEF Wakeup, RunqExact, Queued
<1>2. CASE state[p] # "RUNNABLE" /\ p = current
  BY <1>2 DEF Wakeup, RunqExact, Queued, SchedTypeOK, Procs
<1>3. CASE state[p] # "RUNNABLE" /\ p # current
  <2>1. p # Idle
    BY <1>3
  <2>2. /\ runq' = Append(runq, p)
        /\ state' = [state EXCEPT ![p] = "RUNNABLE"]
    BY <1>3 DEF Wakeup
  <2>3. /\ DOMAIN runq = 1 .. Len(runq)
        /\ DOMAIN runq' = 1 .. Len(runq) + 1
        /\ Len(runq) \in Nat
        /\ \A i \in 1 .. Len(runq) : runq'[i] = runq[i]
        /\ runq'[Len(runq) + 1] = p
    BY <2>2 DEF SchedTypeOK
  <2>4. p \notin Queued
    BY <1>3 DEF RunqExact
  <2>5. Queued' = Queued \cup {p}
    BY <2>3 DEF Queued
  <2>6. \A i, j \in DOMAIN runq' : runq'[i] = runq'[j] => i = j
    <3> SUFFICES ASSUME NEW i \in DOMAIN runq', NEW j \in DOMAIN runq',
                        runq'[i] = runq'[j]
                 PROVE  i = j
      OBVIOUS
    <3>1. i \in 1 .. Len(runq) \/ i = Len(runq) + 1
      BY <2>3
    <3>2. j \in 1 .. Len(runq) \/ j = Len(runq) + 1
      BY <2>3
    <3> QED
      BY <3>1, <3>2, <2>3, <2>4 DEF Queued, RunqExact
  <2>7. {q \in Procs \ {Idle} : state'[q] = "RUNNABLE" /\ q # current'}
          = {q \in Procs \ {Idle} : state[q] = "RUNNABLE" /\ q # current} \cup {p}
    BY <1>3, <2>1, <2>2 DEF SchedTypeOK
  <2> QED
    BY <2>1, <2>2, <2>5, <2>6, <2>7 DEF RunqExact, SchedTypeOK, Procs
<1> QED
  BY <1>1, <1>2, <1>3

-----------------------------------------------------------------------------
\* schedule() keeps the types of what it changes.
LEMMA ScheduleType ==
  ASSUME SchedTypeOK, Schedule
  PROVE  /\ current' \in Procs
         /\ needResched' \in [Procs -> BOOLEAN]
         /\ slice' \in [Procs -> 0 .. MaxSlice]
         /\ runq' \in Seq(Procs)
<1>1. Requeued \in Seq(Procs)
  <2>1. runq \in Seq(Procs) /\ Append(runq, current) \in Seq(Procs)
    BY DEF SchedTypeOK
  <2> QED
    BY <2>1 DEF Requeued
<1>2. current' \in Procs /\ runq' \in Seq(Procs)
  <2>1. CASE Requeued = <<>>
    BY <2>1 DEF Schedule, Procs
  <2>2. CASE Requeued # <<>>
    <3>1. Head(Requeued) \in Procs /\ Tail(Requeued) \in Seq(Procs)
      BY <1>1, <2>2
    <3> QED
      BY <2>2, <3>1 DEF Schedule
  <2> QED
    BY <2>1, <2>2
<1>3. needResched' \in [Procs -> BOOLEAN]
  BY DEF Schedule, SchedTypeOK
<1>4. slice' \in [Procs -> 0 .. MaxSlice]
  <2>1. slice' = slice \/ slice' = Refill(current)
    BY DEF Schedule
  <2>2. Refill(current) \in [Procs -> 0 .. MaxSlice]
    BY SchedConstants DEF Refill, SchedTypeOK
  <2> QED
    BY <2>1, <2>2 DEF SchedTypeOK
<1> QED
  BY <1>2, <1>3, <1>4

\* schedule() keeps the run queue exact: the process that gives up the
\* processor is queued if and only if it can run, and the one that gets the
\* processor leaves the queue.
LEMMA ScheduleExact ==
  ASSUME SchedTypeOK, RunqExact, Schedule
  PROVE  RunqExact'
<1> DEFINE Elems == {Requeued[i] : i \in DOMAIN Requeued}
           Ready == {p \in Procs \ {Idle} : state[p] = "RUNNABLE"}
<1>1. /\ Requeued \in Seq(Procs)
      /\ \A i, j \in DOMAIN Requeued : Requeued[i] = Requeued[j] => i = j
      /\ Elems = Ready
  <2>1. CASE state[current] = "RUNNABLE" /\ current # Idle
    <3>1. Requeued = Append(runq, current)
      BY <2>1 DEF Requeued
    <3>2. /\ DOMAIN runq = 1 .. Len(runq)
          /\ DOMAIN Requeued = 1 .. Len(runq) + 1
          /\ Len(runq) \in Nat
          /\ \A i \in 1 .. Len(runq) : Requeued[i] = runq[i]
          /\ Requeued[Len(runq) + 1] = current
          /\ Requeued \in Seq(Procs)
      BY <3>1 DEF SchedTypeOK
    <3>3. current \notin Queued
      BY DEF RunqExact
    <3>4. Elems = Queued \cup {current}
      BY <3>2 DEF Queued
    <3>5. Ready = Queued \cup {current}
      BY <2>1 DEF RunqExact, SchedTypeOK
    <3>6. ASSUME NEW i \in DOMAIN Requeued, NEW j \in DOMAIN Requeued,
                 Requeued[i] = Requeued[j]
          PROVE  i = j
      <4>1. i \in 1 .. Len(runq) \/ i = Len(runq) + 1
        BY <3>2
      <4>2. j \in 1 .. Len(runq) \/ j = Len(runq) + 1
        BY <3>2
      <4>3. CASE i \in 1 .. Len(runq) /\ j \in 1 .. Len(runq)
        BY <3>6, <4>3, <3>2 DEF RunqExact
      <4>4. CASE i = Len(runq) + 1 /\ j = Len(runq) + 1
        BY <4>4
      <4>5. ASSUME NEW k \in 1 .. Len(runq) PROVE Requeued[k] # Requeued[Len(runq) + 1]
        BY <3>2, <3>3 DEF Queued
      <4> QED
        BY <3>6, <4>1, <4>2, <4>3, <4>4, <4>5
    <3> QED
      BY <3>2, <3>4, <3>5, <3>6
  <2>2. CASE ~(state[current] = "RUNNABLE" /\ current # Idle)
    <3>1. Requeued = runq /\ Elems = Queued
      BY <2>2 DEF Requeued, Queued
    <3>2. runq \in Seq(Procs) /\ \A i, j \in DOMAIN runq : runq[i] = runq[j] => i = j
      BY DEF SchedTypeOK, RunqExact
    <3>3. Queued = Ready
      <4>1. current \in Procs
        BY DEF SchedTypeOK
      <4> QED BY <2>2, <4>1 DEF RunqExact
    <3> HIDE DEF Elems, Ready
    <3> QED BY <3>1, <3>2, <3>3
  <2> QED
    BY <2>1, <2>2
<1>2. CASE Requeued = <<>>
  <2>1. current' = Idle /\ runq' = <<>> /\ state' = state
    BY <1>2 DEF Schedule
  <2>2. Ready = {}
    BY <1>1, <1>2
  <2> QED
    BY <2>1, <2>2 DEF RunqExact, Queued
<1>3. CASE Requeued # <<>>
  <2>1. current' = Head(Requeued) /\ runq' = Tail(Requeued) /\ state' = state
    BY <1>3 DEF Schedule
  <2>2. /\ Len(Requeued) \in Nat /\ Len(Requeued) > 0
        /\ DOMAIN Requeued = 1 .. Len(Requeued)
        /\ DOMAIN runq' = 1 .. Len(Requeued) - 1
        /\ \A i \in 1 .. Len(Requeued) - 1 : runq'[i] = Requeued[i + 1]
        /\ current' = Requeued[1]
    BY <1>1, <1>3, <2>1
  <2>3. \A i, j \in DOMAIN runq' : runq'[i] = runq'[j] => i = j
    BY <1>1, <2>2
  <2>4. Queued' = Elems \ {current'}
    <3>1. ASSUME NEW q \in Queued' PROVE q \in Elems \ {current'}
      BY <1>1, <2>2 DEF Queued
    <3>2. ASSUME NEW q \in Elems \ {current'} PROVE q \in Queued'
      <4>1. PICK i \in 1 .. Len(Requeued) : q = Requeued[i]
        BY <2>2
      <4>2. i # 1
        BY <2>2, <4>1, <3>2
      <4>3. i - 1 \in 1 .. Len(Requeued) - 1 /\ runq'[i - 1] = Requeued[i]
        BY <2>2, <4>2
      <4> QED
        BY <2>2, <4>1, <4>3 DEF Queued
    <3> QED
      BY <3>1, <3>2
  <2>5. {p \in Procs \ {Idle} : state'[p] = "RUNNABLE" /\ p # current'}
          = Ready \ {current'}
    BY <2>1
  <2> QED
    BY <1>1, <2>3, <2>4, <2>5 DEF RunqExact
<1> QED
  BY <1>2, <1>3

\* The process schedule() picks can run.
LEMMA SchedulePicksRunnable ==
  ASSUME SchedTypeOK, RunqExact, state[Idle] = "RUNNABLE", Schedule
  PROVE  state'[current'] = "RUNNABLE"
<1>1. CASE Requeued = <<>>
  BY <1>1 DEF Schedule
<1>2. CASE Requeued # <<>> /\ state[current] = "RUNNABLE" /\ current # Idle
  <2>1. Requeued = Append(runq, current)
    BY <1>2 DEF Requeued
  <2>2. runq \in Seq(Procs) /\ current \in Procs
    BY DEF SchedTypeOK
  <2>3. Head(Requeued) = current \/ (1 \in DOMAIN runq /\ Head(Requeued) = runq[1])
    BY <2>1, <2>2
  <2> QED
    BY <1>2, <2>3 DEF Schedule, RunqExact, Queued
<1>3. CASE Requeued # <<>> /\ ~(state[current] = "RUNNABLE" /\ current # Idle)
  <2>1. Requeued = runq /\ runq \in Seq(Procs) /\ runq # <<>>
    BY <1>3 DEF Requeued, SchedTypeOK
  <2>2. 1 \in DOMAIN runq /\ Head(Requeued) = runq[1]
    BY <2>1
  <2> QED
    BY <1>3, <2>2 DEF Schedule, RunqExact, Queued
<1> QED
  BY <1>1, <1>2, <1>3

\* The running process falls asleep: it is not in the run queue, so nothing has
\* to leave it.
LEMMA FallAsleepExact ==
  ASSUME SchedTypeOK, RunqExact, SleepAgrees, state[Idle] = "RUNNABLE",
         NEW p \in Procs, p = current, p # Idle,
         NEW why \in Interruptible \cup {"KSEM"}, FallAsleep(p, why),
         UNCHANGED <<current, runq>>
  PROVE  /\ state' \in [Procs -> States]
         /\ waitState' \in [Procs -> WaitStates]
         /\ RunqExact' /\ SleepAgrees' /\ state'[Idle] = "RUNNABLE"
<1>1. /\ state' = [state EXCEPT ![p] = "SLEEPING"]
      /\ waitState' = [waitState EXCEPT ![p] = why]
      /\ why # "0"
  BY DEF FallAsleep, Interruptible
<1>2. state' \in [Procs -> States] /\ waitState' \in [Procs -> WaitStates]
  BY <1>1 DEF SchedTypeOK, States, WaitStates
<1>3. RunqExact'
  BY <1>1 DEF RunqExact, Queued, SchedTypeOK
<1>4. SleepAgrees'
  BY <1>1 DEF SleepAgrees, SchedTypeOK
<1>5. state'[Idle] = "RUNNABLE"
  BY <1>1 DEF SchedTypeOK, Procs
<1> QED
  BY <1>2, <1>3, <1>4, <1>5

\* The timer interrupt's bookkeeping keeps the types of what it changes.
LEMMA ProcTickType ==
  ASSUME SchedTypeOK, NEW p \in Procs, ProcTick(p)
  PROVE  slice' \in [Procs -> 0 .. MaxSlice] /\ needResched' \in [Procs -> BOOLEAN]
<1>1. Shrink(p) \in 0 .. MaxSlice
  BY SchedConstants DEF Shrink, SchedTypeOK
<1>2. slice' \in [Procs -> 0 .. MaxSlice]
  BY <1>1 DEF ProcTick, SchedTypeOK
<1>3. needResched' \in [Procs -> BOOLEAN]
  <2>1. \/ needResched' = [needResched EXCEPT ![p] = TRUE]
        \/ needResched' = [needResched EXCEPT ![p] = @ \/ Shrink(p) = 0]
    BY DEF ProcTick
  <2> QED
    BY <2>1 DEF SchedTypeOK
<1> QED
  BY <1>2, <1>3
=============================================================================
