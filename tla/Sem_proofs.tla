----------------------------- MODULE Sem_proofs ------------------------------
(***************************************************************************)
(* Proofs about the semaphores of SemClients for every finite set of       *)
(* processes and every set of semaphores: the wait queues are exact,       *)
(* down() is only ever woken by up(), and the whole implements counting    *)
(* semaphores that serve their waiters first come, first served.  The      *)
(* philosophers of PhilSema are clients of the same semaphores: neighbours *)
(* never eat together, and each seat given is a unit under way.            *)
(***************************************************************************)
EXTENDS SemClients, PhilSema, Sched_proofs, FiniteSetTheorems

-----------------------------------------------------------------------------
\* Elements of a sequence without repetition when one is appended or the first
\* is taken off.
Elems(q) == {q[i] : i \in DOMAIN q}
OnceEach(q) == \A i, j \in DOMAIN q : q[i] = q[j] => i = j

LEMMA AppendElems ==
  ASSUME NEW S, NEW q \in Seq(S), NEW x \in S, OnceEach(q), x \notin Elems(q)
  PROVE  /\ Append(q, x) \in Seq(S)
         /\ Elems(Append(q, x)) = Elems(q) \cup {x}
         /\ OnceEach(Append(q, x))
<1> DEFINE r == Append(q, x)
<1>1. /\ r \in Seq(S) /\ Len(q) \in Nat
      /\ DOMAIN q = 1 .. Len(q) /\ DOMAIN r = 1 .. Len(q) + 1
      /\ \A i \in 1 .. Len(q) : r[i] = q[i]
      /\ r[Len(q) + 1] = x
  OBVIOUS
<1> HIDE DEF r
<1>2. Elems(r) = Elems(q) \cup {x}
  BY <1>1 DEF Elems
<1>3. ASSUME NEW i \in DOMAIN r, NEW j \in DOMAIN r, r[i] = r[j]
      PROVE  i = j
  <2>1. i \in 1 .. Len(q) \/ i = Len(q) + 1
    BY <1>1
  <2>2. j \in 1 .. Len(q) \/ j = Len(q) + 1
    BY <1>1
  <2> QED
    BY <1>1, <1>3, <2>1, <2>2 DEF OnceEach, Elems
<1>4. OnceEach(r)
  BY <1>3 DEF OnceEach
<1> QED
  BY <1>1, <1>2, <1>4 DEF r

LEMMA TailElems ==
  ASSUME NEW S, NEW q \in Seq(S), q # <<>>, OnceEach(q)
  PROVE  /\ Tail(q) \in Seq(S)
         /\ Head(q) \in S /\ Head(q) \in Elems(q)
         /\ Elems(Tail(q)) = Elems(q) \ {Head(q)}
         /\ OnceEach(Tail(q))
<1> DEFINE r == Tail(q)
<1>1. /\ r \in Seq(S) /\ Head(q) \in S /\ Head(q) = q[1]
      /\ Len(q) \in Nat /\ Len(q) > 0
      /\ DOMAIN q = 1 .. Len(q) /\ DOMAIN r = 1 .. Len(q) - 1
      /\ \A i \in 1 .. Len(q) - 1 : r[i] = q[i + 1]
  OBVIOUS
<1> HIDE DEF r
<1>2. Elems(r) = Elems(q) \ {Head(q)}
  <2>1. ASSUME NEW e \in Elems(r) PROVE e \in Elems(q) \ {Head(q)}
    <3>1. PICK i \in 1 .. Len(q) - 1 : e = r[i]
      BY <1>1 DEF Elems
    <3> QED
      BY <1>1, <3>1 DEF Elems, OnceEach
  <2>2. ASSUME NEW e \in Elems(q) \ {Head(q)} PROVE e \in Elems(r)
    <3>1. PICK i \in 1 .. Len(q) : e = q[i]
      BY <1>1 DEF Elems
    <3>2. i # 1
      BY <1>1, <3>1, <2>2
    <3>3. i - 1 \in DOMAIN r /\ r[i - 1] = q[i]
      BY <1>1, <3>2
    <3> QED
      BY <3>1, <3>3 DEF Elems
  <2> QED
    BY <2>1, <2>2
<1>3. OnceEach(r)
  <2> SUFFICES ASSUME NEW i \in DOMAIN r, NEW j \in DOMAIN r, r[i] = r[j] PROVE i = j
    BY DEF OnceEach
  <2>1. /\ i \in Int /\ i + 1 \in DOMAIN q /\ r[i] = q[i + 1]
        /\ j \in Int /\ j + 1 \in DOMAIN q /\ r[j] = q[j + 1]
    BY <1>1
  <2>2. i + 1 = j + 1
    BY ONLY OnceEach(q), r[i] = r[j], <2>1 DEF OnceEach
  <2> QED BY <2>1, <2>2
<1>4. Head(q) \in Elems(q)
  BY <1>1 DEF Elems
<1> QED
  BY <1>1, <1>2, <1>3, <1>4 DEF r

-----------------------------------------------------------------------------
\* WaitqExact and RunqExact in terms of Elems and OnceEach.
LEMMA WaitqMeaning ==
  WaitqExact <=>
    \A s \in Sems :
        /\ OnceEach(waitq[s])
        /\ Elems(waitq[s]) = {p \in Procs : waitOn[p] = s /\ waitState[p] = "KSEM"}
        /\ Elems(waitq[s]) = {p \in Procs : waitOn[p] = s
                                            /\ flags[p] = "INTERRUPTED"}
  BY DEF WaitqExact, Waiting, OnceEach, Elems

Avail == [s \in Sems |-> value[s] + Cardinality(Granted(s))]
AvailStep == SA!AbsNext \/ UNCHANGED Avail

\* Steps on the units of the abstract semaphores.
LEMMA Gives ==
  ASSUME NEW s \in Sems,
         \A t \in Sems \ {s} : /\ value'[t] = value[t]
                               /\ Granted(t)' = Granted(t),
         value'[s] + Cardinality(Granted(s)')
            = value[s] + Cardinality(Granted(s)) + 1
  PROVE  AvailStep
<1>1. Avail' = [Avail EXCEPT ![s] = @ + 1]
  BY DEF Avail
<1>2. SA!V(s)
  BY <1>1 DEF SA!V, Avail
<1> QED
  BY <1>2 DEF AvailStep, SA!AbsNext

LEMMA Takes ==
  ASSUME NEW s \in Sems,
         \A t \in Sems \ {s} : /\ value'[t] = value[t]
                               /\ Granted(t)' = Granted(t),
         Avail[s] > 0, Avail'[s] = Avail[s] - 1
  PROVE  AvailStep
<1>1. Avail' = [Avail EXCEPT ![s] = @ - 1]
  <2>1. \A t \in Sems \ {s} : Avail'[t] = Avail[t]
    BY DEF Avail
  <2>2. Avail' = [t \in Sems |-> Avail'[t]] /\ Avail = [t \in Sems |-> Avail[t]]
    BY DEF Avail
  <2> QED
    BY <2>1, <2>2
<1>2. SA!P(s)
  BY <1>1 DEF SA!P, Avail
<1> QED
  BY <1>2 DEF AvailStep, SA!AbsNext

FifoStep == \A s \in Sems : \A p, q \in Procs :
              Ahead(s, p, q) /\ p \notin Granted(s)' =>
                  /\ Ahead(s, p, q)'
                  /\ q \in Granted(s)' => q \in Granted(s)

\* A step that leaves the semaphores and their wait_t's alone.
LEMMA SemQuiet ==
  ASSUME UNCHANGED <<value, waitq, waitOn, flags>>
  PROVE  AvailStep /\ FifoStep
<1>1. \A s : Granted(s)' = Granted(s)
  BY DEF Granted
<1>2. AvailStep
  BY <1>1 DEF AvailStep, Avail
<1>3. FifoStep
  BY <1>1 DEF FifoStep, Ahead
<1> QED
  BY <1>2, <1>3

\* What is the case for the running process, and for the first waiter.
LEMMA RunningIsAwake ==
  ASSUME SemInv, NEW p \in Procs, p = current, phase[p] # "leaving"
  PROVE  /\ state[p] = "RUNNABLE" /\ waitState[p] = "0"
         /\ \A s \in Sems : p \notin Elems(waitq[s])
         /\ \A s \in Sems : waitOn[p] = s => flags[p] = "KSEM"
<1>1. state[p] = "RUNNABLE" /\ waitState[p] = "0"
  BY DEF SemInv, CurrentAwake, SleepAgrees
<1>2. ASSUME NEW s \in Sems
      PROVE  p \notin Elems(waitq[s]) /\ (waitOn[p] = s => flags[p] = "KSEM")
  <2>1. p \notin Elems(waitq[s])
    BY <1>1, WaitqMeaning DEF SemInv
  <2>2. waitOn[p] = s => flags[p] # "INTERRUPTED"
    BY <2>1, WaitqMeaning DEF SemInv
  <2> QED
    BY <2>1, <2>2 DEF SemInv, TypeOK, SemTypeOK, Flags
<1> QED
  BY <1>1, <1>2

LEMMA FirstWaits ==
  ASSUME SemInv, NEW s \in Sems, waitq[s] # <<>>
  PROVE  LET w == FirstWaiter(s)
         IN  /\ w \in Procs /\ w \in Elems(waitq[s]) /\ w # Idle
             /\ waitOn[w] = s /\ waitState[w] = "KSEM"
             /\ flags[w] = "INTERRUPTED" /\ state[w] = "SLEEPING"
<1> DEFINE w == FirstWaiter(s)
<1>1. w \in Procs /\ w \in Elems(waitq[s])
  BY TailElems, WaitqMeaning DEF FirstWaiter, SemInv, TypeOK, SemTypeOK
<1>2. waitOn[w] = s /\ waitState[w] = "KSEM" /\ flags[w] = "INTERRUPTED"
  BY <1>1, WaitqMeaning DEF SemInv
<1>3. state[w] = "SLEEPING"
  BY <1>1, <1>2 DEF SemInv, SleepAgrees
<1> QED
  BY <1>1, <1>2, <1>3 DEF SemInv

LEMMA GrantedCount ==
  ASSUME SemInv, NEW s \in Sems
  PROVE  IsFiniteSet(Granted(s)) /\ Cardinality(Granted(s)) \in Nat
         /\ value[s] \in Nat
  BY FS_CardinalityType DEF SemInv, TypeOK, SemTypeOK

-----------------------------------------------------------------------------
LEMMA DownTakes ==
  ASSUME SemInv, NEW s \in Sems, Take(s),
         UNCHANGED <<schedVars, waitq, waitOn, flags, phase>>
  PROVE  SemInv' /\ AvailStep /\ FifoStep
<1>1. /\ value[s] > 0 /\ value' = [value EXCEPT ![s] = @ - 1]
      /\ UNCHANGED <<current, state, waitState, needResched, slice, runq, waitq,
                     waitOn, flags, phase>>
  BY DEF Take, CanTake, schedVars
<1>2. \A t : Granted(t)' = Granted(t)
  BY <1>1 DEF Granted
<1>3. TypeOK'
  BY <1>1 DEF SemInv, TypeOK, SchedTypeOK, SemTypeOK
<1>4. RunqExact' /\ SleepAgrees' /\ WaitqExact' /\ CurrentAwake' /\ NoStaleWait'
  BY <1>1 DEF SemInv, RunqExact, Queued, SleepAgrees, WaitqExact, Waiting,
              CurrentAwake, NoStaleWait
<1>5. NoIdleUnit'
  BY <1>1 DEF SemInv, NoIdleUnit, TypeOK, SemTypeOK
<1>6. AvailStep
  <2>1. \A t \in Sems \ {s} : value'[t] = value[t]
    BY <1>1 DEF SemInv, TypeOK, SemTypeOK
  <2>2. value'[s] = value[s] - 1
    BY <1>1 DEF SemInv, TypeOK, SemTypeOK
  <2> QED
    BY <1>1, <1>2, <2>1, <2>2, GrantedCount, Takes DEF Avail
<1>7. FifoStep
  BY <1>1, <1>2 DEF FifoStep, Ahead
<1> QED
  BY <1>1, <1>2, <1>3, <1>4, <1>5, <1>6, <1>7 DEF SemInv

LEMMA DownBlocks ==
  ASSUME SemInv, NEW p \in Threads, NEW s \in Sems, Runs(p), Block(p, s),
         UNCHANGED <<current, needResched, slice, runq, value>>
  PROVE  SemInv' /\ AvailStep /\ FifoStep
<1>1. /\ p \in Procs /\ p # Idle /\ p = current /\ phase[p] = "run"
      /\ waitOn[p] = NoSem
  BY DEF Threads, Runs, SemInv, NoStaleWait
<1>2. /\ ~(value[s] > 0) /\ FallAsleep(p, "KSEM")
      /\ waitq' = [waitq EXCEPT ![s] = Append(@, p)]
      /\ waitOn' = [waitOn EXCEPT ![p] = s]
      /\ flags' = [flags EXCEPT ![p] = "INTERRUPTED"]
      /\ phase' = [phase EXCEPT ![p] = "leaving"]
  BY DEF Block, CanTake
<1>3. /\ state' \in [Procs -> States] /\ waitState' \in [Procs -> WaitStates]
      /\ RunqExact' /\ SleepAgrees' /\ state'[Idle] = "RUNNABLE"
  BY <1>1, <1>2, FallAsleepExact DEF SemInv, TypeOK
<1>4. waitState' = [waitState EXCEPT ![p] = "KSEM"]
  BY <1>2 DEF FallAsleep
<1>5. /\ \A t \in Sems : waitq[t] \in Seq(Procs)
      /\ p \notin Elems(waitq[s])
      /\ OnceEach(waitq[s])
  BY <1>1, RunningIsAwake, WaitqMeaning DEF SemInv, TypeOK, SemTypeOK
<1>6. /\ waitq'[s] = Append(waitq[s], p)
      /\ \A t \in Sems \ {s} : waitq'[t] = waitq[t]
  BY <1>2 DEF SemInv, TypeOK, SemTypeOK
<1>7. /\ waitq'[s] \in Seq(Procs) /\ OnceEach(waitq'[s])
      /\ Elems(waitq'[s]) = Elems(waitq[s]) \cup {p}
  BY <1>1, <1>5, <1>6, AppendElems
<1>8. TypeOK'
  <2>1. waitq' \in [Sems -> Seq(Procs)]
    BY <1>2, <1>5, <1>6, <1>7 DEF SemInv, TypeOK, SemTypeOK
  <2> QED
    BY <1>1, <1>2, <1>3, <2>1 DEF SemInv, TypeOK, SchedTypeOK, SemTypeOK, Flags
<1>9. WaitqExact'
  <2>1. ASSUME NEW t \in Sems
        PROVE  /\ OnceEach(waitq'[t])
               /\ Elems(waitq'[t]) = {q \in Procs : waitOn'[q] = t
                                             /\ waitState'[q] = "KSEM"}
               /\ Elems(waitq'[t]) = {q \in Procs : waitOn'[q] = t
                                             /\ flags'[q] = "INTERRUPTED"}
    <3>1. /\ OnceEach(waitq[t])
          /\ Elems(waitq[t]) = {q \in Procs : waitOn[q] = t
                                             /\ waitState[q] = "KSEM"}
          /\ Elems(waitq[t]) = {q \in Procs : waitOn[q] = t
                                             /\ flags[q] = "INTERRUPTED"}
      BY WaitqMeaning DEF SemInv
    <3>2. CASE t = s
      BY <1>1, <1>2, <1>4, <1>7, <3>1, <3>2 DEF SemInv, TypeOK, SchedTypeOK,
                                                SemTypeOK
    <3>3. CASE t # s
      BY <1>1, <1>2, <1>4, <1>6, <3>1, <3>3, SemConstants
      DEF SemInv, TypeOK, SchedTypeOK, SemTypeOK
    <3> QED
      BY <3>2, <3>3
  <2> QED
    BY <2>1 DEF WaitqExact, Waiting, OnceEach, Elems
<1>10. \A t \in Sems : Granted(t)' = Granted(t)
  BY <1>1, <1>2, SemConstants DEF Granted, SemInv, TypeOK, SemTypeOK
<1>11. NoIdleUnit' /\ CurrentAwake' /\ NoStaleWait'
  BY <1>1, <1>2, <1>6
  DEF SemInv, TypeOK, SemTypeOK, NoIdleUnit, CurrentAwake, NoStaleWait
<1>12. AvailStep
  BY <1>10 DEF AvailStep, Avail
<1>13. FifoStep
  <2>1. ASSUME NEW t \in Sems, NEW x \in Procs, NEW y \in Procs, Ahead(t, x, y)
        PROVE  Ahead(t, x, y)'
    <3>1. PICK i \in DOMAIN waitq[t] : /\ waitq[t][i] = x
                                       /\ \A j \in 1 .. i : waitq[t][j] # y
      BY <2>1 DEF Ahead
    <3>2. /\ i \in DOMAIN waitq'[t]
          /\ \A j \in 1 .. i : waitq'[t][j] = waitq[t][j]
      <4>1. CASE t # s
        BY <1>6, <4>1
      <4>2. CASE t = s
        <5>1. DOMAIN waitq[s] = 1 .. Len(waitq[s]) /\ Len(waitq[s]) \in Nat
          BY <1>5
        <5>2. /\ DOMAIN waitq'[s] = 1 .. Len(waitq[s]) + 1
              /\ \A j \in 1 .. Len(waitq[s]) : waitq'[s][j] = waitq[s][j]
          BY <1>1, <1>5, <1>6
        <5> QED
          BY <4>2, <5>1, <5>2
      <4> QED
        BY <4>1, <4>2
    <3>3. i \in 1 .. i
      BY <1>5
    <3> QED
      BY <3>1, <3>2, <3>3 DEF Ahead
  <2> QED
    BY <2>1, <1>10 DEF FifoStep
<1> QED
  BY <1>3, <1>8, <1>9, <1>10, <1>11, <1>12, <1>13 DEF SemInv

-----------------------------------------------------------------------------
\* up() hands its unit to the first waiter.
LEMMA UpGrants ==
  ASSUME SemInv, NEW s \in Sems, Grant(s),
         UNCHANGED <<current, needResched, waitOn, phase>>
  PROVE  SemInv' /\ AvailStep /\ FifoStep
<1>0. PICK w \in Procs : w = FirstWaiter(s)
  BY FirstWaits DEF Grant
<1>1. /\ waitq[s] # <<>> /\ Wakeup(w)
      /\ flags' = [flags EXCEPT ![w] = "KSEM"]
      /\ waitq' = [waitq EXCEPT ![s] = Tail(@)]
      /\ value' = value
  BY <1>0 DEF Grant, Dequeued
<1>2. /\ w \in Procs /\ w \in Elems(waitq[s]) /\ w # Idle
      /\ waitOn[w] = s /\ waitState[w] = "KSEM"
      /\ flags[w] = "INTERRUPTED" /\ state[w] = "SLEEPING"
      /\ w = Head(waitq[s])
  BY <1>0, <1>1, FirstWaits DEF FirstWaiter
<1>3. /\ state' = [state EXCEPT ![w] = "RUNNABLE"]
      /\ waitState' = [waitState EXCEPT ![w] = "0"]
  BY <1>1, <1>2 DEF Wakeup, Woken
<1>4. /\ state' \in [Procs -> States] /\ waitState' \in [Procs -> WaitStates]
      /\ slice' \in [Procs -> 0 .. MaxSlice] /\ runq' \in Seq(Procs)
      /\ RunqExact' /\ state'[Idle] = "RUNNABLE"
  BY <1>1, <1>2, WakeupType, WakeupExact DEF SemInv, TypeOK
<1>5. SleepAgrees'
  BY <1>2, <1>3 DEF SemInv, TypeOK, SchedTypeOK, SleepAgrees
<1>6. /\ \A t \in Sems : waitq[t] \in Seq(Procs) /\ OnceEach(waitq[t])
      /\ waitq'[s] = Tail(waitq[s])
      /\ \A t \in Sems \ {s} : waitq'[t] = waitq[t]
  BY <1>1, WaitqMeaning DEF SemInv, TypeOK, SemTypeOK
<1>7. /\ waitq'[s] \in Seq(Procs) /\ OnceEach(waitq'[s])
      /\ Elems(waitq'[s]) = Elems(waitq[s]) \ {w}
  BY <1>1, <1>2, <1>6, TailElems
<1>8. TypeOK'
  <2>1. waitq' \in [Sems -> Seq(Procs)]
    BY <1>1, <1>6, <1>7 DEF SemInv, TypeOK, SemTypeOK
  <2> QED
    BY <1>1, <1>4, <2>1 DEF SemInv, TypeOK, SchedTypeOK, SemTypeOK, Flags
<1>9. WaitqExact'
  <2>1. ASSUME NEW t \in Sems
        PROVE  /\ OnceEach(waitq'[t])
               /\ Elems(waitq'[t]) = {q \in Procs : waitOn'[q] = t
                                             /\ waitState'[q] = "KSEM"}
               /\ Elems(waitq'[t]) = {q \in Procs : waitOn'[q] = t
                                             /\ flags'[q] = "INTERRUPTED"}
    <3>1. /\ OnceEach(waitq[t])
          /\ Elems(waitq[t]) = {q \in Procs : waitOn[q] = t
                                             /\ waitState[q] = "KSEM"}
          /\ Elems(waitq[t]) = {q \in Procs : waitOn[q] = t
                                             /\ flags[q] = "INTERRUPTED"}
      BY WaitqMeaning DEF SemInv
    <3>2. \A q \in Procs : /\ waitOn'[q] = waitOn[q]
                           /\ q # w => /\ waitState'[q] = waitState[q]
                                       /\ flags'[q] = flags[q]
      BY <1>1, <1>3 DEF SemInv, TypeOK, SchedTypeOK, SemTypeOK
    <3>3. waitState'[w] = "0" /\ flags'[w] = "KSEM"
      BY <1>1, <1>2, <1>3 DEF SemInv, TypeOK, SchedTypeOK, SemTypeOK
    <3>4. CASE t = s
      BY <1>7, <3>1, <3>2, <3>3, <3>4
    <3>5. CASE t # s
      BY <1>2, <1>6, <3>1, <3>2, <3>5
    <3> QED
      BY <3>4, <3>5
  <2> QED
    BY <2>1 DEF WaitqExact, Waiting, OnceEach, Elems
<1>10. /\ Granted(s)' = Granted(s) \cup {w} /\ w \notin Granted(s)
       /\ \A t \in Sems \ {s} : Granted(t)' = Granted(t)
  BY <1>1, <1>2 DEF Granted, SemInv, TypeOK, SemTypeOK
<1>11. /\ IsFiniteSet(Granted(s)')
       /\ Cardinality(Granted(s)') = Cardinality(Granted(s)) + 1
       /\ \A t \in Sems : IsFiniteSet(Granted(t)')
  BY <1>10, GrantedCount, FS_AddElement DEF SemInv
<1>12. NoIdleUnit' /\ CurrentAwake' /\ NoStaleWait'
  BY <1>1, <1>3, <1>6
  DEF SemInv, NoIdleUnit, CurrentAwake, NoStaleWait, TypeOK, SchedTypeOK
<1>13. AvailStep
  <2>1. \A t \in Sems \ {s} : value'[t] = value[t] /\ Granted(t)' = Granted(t)
    BY <1>1, <1>10
  <2>2. value'[s] + Cardinality(Granted(s)')
          = value[s] + Cardinality(Granted(s)) + 1
    BY <1>1, <1>11, GrantedCount
  <2> QED
    BY <2>1, <2>2, Gives
<1>14. FifoStep
  <2>1. ASSUME NEW t \in Sems, NEW x \in Procs, NEW y \in Procs,
               Ahead(t, x, y), x \notin Granted(t)'
        PROVE  Ahead(t, x, y)' /\ (y \in Granted(t)' => y \in Granted(t))
    <3>1. CASE t # s
      BY <1>6, <1>10, <2>1, <3>1 DEF Ahead
    <3>2. CASE t = s
      <4>1. PICK i \in DOMAIN waitq[s] : /\ waitq[s][i] = x
                                         /\ \A j \in 1 .. i : waitq[s][j] # y
        BY <2>1, <3>2 DEF Ahead
      <4>2. /\ DOMAIN waitq[s] = 1 .. Len(waitq[s]) /\ Len(waitq[s]) \in Nat
            /\ w = waitq[s][1]
        BY <1>1, <1>2, <1>6
      <4>3. /\ DOMAIN waitq'[s] = 1 .. Len(waitq[s]) - 1
            /\ \A j \in 1 .. Len(waitq[s]) - 1 : waitq'[s][j] = waitq[s][j + 1]
        <5>1. \A k \in Seq(Procs) : k # <<>> =>
                 /\ DOMAIN Tail(k) = 1 .. Len(k) - 1
                 /\ \A j \in 1 .. Len(k) - 1 : Tail(k)[j] = k[j + 1]
          OBVIOUS
        <5> QED
          BY <1>1, <1>6, <5>1
      <4>4. x # w /\ i # 1 /\ y # w
        BY <1>10, <2>1, <3>2, <4>1, <4>2
      <4>5. i - 1 \in DOMAIN waitq'[s] /\ waitq'[s][i - 1] = x
        BY <4>1, <4>2, <4>3, <4>4
      <4>6. ASSUME NEW j \in 1 .. i - 1 PROVE waitq'[s][j] # y
        <5>1. /\ i \in 1 .. Len(waitq[s]) /\ j \in 1 .. Len(waitq[s]) - 1
              /\ j + 1 \in 1 .. i
          BY <4>1, <4>2
        <5> QED
          BY <4>1, <4>3, <5>1
      <4>7. Ahead(s, x, y)'
        BY <4>5, <4>6 DEF Ahead
      <4> QED
        BY <1>10, <3>2, <4>4, <4>7
    <3> QED
      BY <3>1, <3>2
  <2> QED
    BY <2>1 DEF FifoStep
<1> QED
  BY <1>4, <1>5, <1>8, <1>9, <1>11, <1>12, <1>13, <1>14 DEF SemInv

LEMMA UpReleases ==
  ASSUME SemInv, NEW s \in Sems, Release(s),
         UNCHANGED <<current, needResched, waitOn, phase>>
  PROVE  SemInv' /\ AvailStep /\ FifoStep
<1>1. /\ waitq[s] = <<>> /\ value' = [value EXCEPT ![s] = @ + 1]
      /\ UNCHANGED <<waitq, flags, state, waitState, runq, slice>>
  BY DEF Release
<1>2. \A t : Granted(t)' = Granted(t)
  BY <1>1 DEF Granted
<1>3. TypeOK'
  BY <1>1 DEF SemInv, TypeOK, SchedTypeOK, SemTypeOK
<1>4. RunqExact' /\ SleepAgrees' /\ WaitqExact' /\ CurrentAwake' /\ NoStaleWait'
  BY <1>1 DEF SemInv, RunqExact, Queued, SleepAgrees, WaitqExact, Waiting,
              CurrentAwake, NoStaleWait
<1>5. NoIdleUnit'
  BY <1>1 DEF SemInv, NoIdleUnit, TypeOK, SemTypeOK
<1>6. AvailStep
  <2>1. \A t \in Sems \ {s} : value'[t] = value[t]
    BY <1>1 DEF SemInv, TypeOK, SemTypeOK
  <2>2. value'[s] = value[s] + 1
    BY <1>1 DEF SemInv, TypeOK, SemTypeOK
  <2> QED
    BY <1>2, <2>1, <2>2, GrantedCount, Gives
<1>7. FifoStep
  BY <1>1, <1>2 DEF FifoStep, Ahead
<1> QED
  BY <1>1, <1>2, <1>3, <1>4, <1>5, <1>6, <1>7 DEF SemInv

\* down() goes on, woken by up(), with the unit it was handed.
LEMMA DownReturnsInv ==
  ASSUME SemInv, NEW p \in Procs, DownReturns(p),
         UNCHANGED <<schedVars, value, flags>>
  PROVE  SemInv' /\ AvailStep /\ FifoStep
<1>0. PICK s \in Sems : s = waitOn[p]
  BY DEF DownReturns, SemInv, TypeOK, SemTypeOK
<1>1. /\ p = current /\ phase[p] = "back" /\ waitOn[p] = s
      /\ waitOn' = [waitOn EXCEPT ![p] = NoSem]
      /\ phase' = [phase EXCEPT ![p] = "run"]
      /\ UNCHANGED <<current, state, waitState, needResched, slice, runq>>
  BY <1>0 DEF DownReturns, Back, schedVars
<1>2. /\ state[p] = "RUNNABLE" /\ waitState[p] = "0" /\ flags[p] = "KSEM"
      /\ p \notin Elems(waitq[s])
  BY <1>1, RunningIsAwake
<1>3. waitq' = waitq
  BY <1>1, <1>2 DEF DownReturns, Waiting, Elems
<1>4. TypeOK'
  BY <1>1, <1>3 DEF SemInv, TypeOK, SchedTypeOK, SemTypeOK
<1>5. RunqExact' /\ SleepAgrees' /\ NoIdleUnit'
  BY <1>1, <1>3 DEF SemInv, RunqExact, Queued, SleepAgrees, NoIdleUnit
<1>6. WaitqExact'
  BY <1>1, <1>2, <1>3
  DEF SemInv, WaitqExact, Waiting, TypeOK, SemTypeOK
<1>7. CurrentAwake' /\ NoStaleWait'
  BY <1>1, <1>2 DEF SemInv, CurrentAwake, NoStaleWait, TypeOK, SemTypeOK
<1>8. /\ Granted(s)' = Granted(s) \ {p} /\ p \in Granted(s)
      /\ \A t \in Sems \ {s} : Granted(t)' = Granted(t)
  BY <1>1, <1>2, SemConstants DEF Granted, SemInv, TypeOK, SemTypeOK
<1>9. /\ Cardinality(Granted(s)') = Cardinality(Granted(s)) - 1
      /\ \A t \in Sems : IsFiniteSet(Granted(t)')
  <2>1. \A G : IsFiniteSet(G) /\ p \in G =>
               /\ IsFiniteSet(G \ {p})
               /\ Cardinality(G \ {p}) = Cardinality(G) - 1
    BY FS_RemoveElement
  <2> QED
    BY <1>8, <2>1, GrantedCount DEF SemInv
<1>10. Cardinality(Granted(s)) # 0
  BY <1>1, <1>8, GrantedCount, FS_EmptySet
<1>11. AvailStep
  <2>1. /\ \A t \in Sems \ {s} : value'[t] = value[t] /\ Granted(t)' = Granted(t)
        /\ value'[s] = value[s]
    BY <1>8
  <2>2. Avail[s] > 0 /\ Avail'[s] = Avail[s] - 1
    BY <1>9, <1>10, <2>1, GrantedCount DEF Avail
  <2> QED
    BY <2>1, <2>2, Takes
<1>12. FifoStep
  BY <1>1, <1>3, <1>8 DEF FifoStep, Ahead
<1> QED
  BY <1>1, <1>4, <1>5, <1>6, <1>7, <1>9, <1>11, <1>12 DEF SemInv
-----------------------------------------------------------------------------
\* The steps that leave the semaphores alone.
SameSems == UNCHANGED <<value, waitq, waitOn, flags>>

\* schedule(), called on the way to sleep or on the way back to user mode.
LEMMA Switches ==
  ASSUME SemInv, Schedule, SameSems,
         \/ phase' = phase
         \/ phase' = [phase EXCEPT ![current] = "back"]
  PROVE  SemInv'
<1>1. state' = state /\ waitState' = waitState
  BY DEF Schedule
<1>2. TypeOK'
  BY <1>1, ScheduleType DEF SameSems, SemInv, TypeOK, SchedTypeOK, SemTypeOK
<1>3. RunqExact'
  BY ScheduleExact DEF SemInv, TypeOK
<1>4. SleepAgrees' /\ WaitqExact' /\ NoIdleUnit'
  BY <1>1 DEF SameSems, SemInv, SleepAgrees, WaitqExact, Waiting, NoIdleUnit
<1>5. CurrentAwake'
  BY SchedulePicksRunnable DEF SemInv, TypeOK, CurrentAwake
<1>6. NoStaleWait'
  BY DEF SameSems, SemInv, NoStaleWait, TypeOK, SemTypeOK
<1>7. \A s \in Sems : IsFiniteSet(Granted(s)')
  BY DEF SameSems, SemInv, Granted
<1> QED
  BY <1>1, <1>2, <1>3, <1>4, <1>5, <1>6, <1>7 DEF SemInv

\* do_sleep().
LEMMA Dozes ==
  ASSUME SemInv, NEW p \in Threads, Sleep(p)
  PROVE  SemInv' /\ SameSems
<1>1. /\ p \in Procs /\ p # Idle /\ p = current /\ phase[p] = "run"
      /\ FallAsleep(p, "TIMER")
      /\ phase' = [phase EXCEPT ![p] = "leaving"]
      /\ UNCHANGED <<current, needResched, slice, runq, value, waitq, waitOn, flags>>
  BY DEF Sleep, Doze, Runs, Threads
<1>2. "TIMER" \in Interruptible
  BY DEF Interruptible
<1>3. /\ state' \in [Procs -> States] /\ waitState' \in [Procs -> WaitStates]
      /\ RunqExact' /\ SleepAgrees' /\ state'[Idle] = "RUNNABLE"
  BY <1>1, <1>2, FallAsleepExact DEF SemInv, TypeOK
<1>4. waitState[p] = "0" /\ waitState' = [waitState EXCEPT ![p] = "TIMER"]
  BY <1>1, RunningIsAwake DEF FallAsleep
<1>5. TypeOK'
  BY <1>1, <1>3 DEF SemInv, TypeOK, SchedTypeOK, SemTypeOK
<1>6. WaitqExact' /\ NoIdleUnit'
  BY <1>1, <1>4
  DEF SemInv, WaitqExact, Waiting, NoIdleUnit, TypeOK, SchedTypeOK
<1>7. CurrentAwake' /\ NoStaleWait'
  BY <1>1 DEF SemInv, CurrentAwake, NoStaleWait, TypeOK, SemTypeOK
<1>8. \A s \in Sems : IsFiniteSet(Granted(s)')
  BY <1>1 DEF SemInv, Granted
<1> QED
  BY <1>1, <1>3, <1>5, <1>6, <1>7, <1>8 DEF SemInv, SameSems

\* do_sleep() goes on after schedule().
LEMMA DozeEnds ==
  ASSUME SemInv, NEW p \in Threads, DozeReturns(p),
         UNCHANGED <<schedVars, value, waitq, waitOn, flags>>
  PROVE  SemInv' /\ SameSems
<1>1. /\ p = current /\ phase[p] = "back" /\ waitOn[p] = NoSem
      /\ phase' = [phase EXCEPT ![p] = "run"]
      /\ UNCHANGED <<current, state, waitState, needResched, slice, runq, value,
                     waitq, waitOn, flags>>
  BY DEF DozeReturns, Back, schedVars
<1>2. TypeOK' /\ NoStaleWait'
  BY <1>1 DEF SemInv, TypeOK, SchedTypeOK, SemTypeOK, NoStaleWait
<1>3. RunqExact' /\ SleepAgrees' /\ WaitqExact' /\ NoIdleUnit'
  BY <1>1 DEF SemInv, RunqExact, Queued, SleepAgrees, WaitqExact, Waiting, NoIdleUnit
<1>4. CurrentAwake'
  BY <1>1 DEF SemInv, CurrentAwake
<1>5. \A s \in Sems : IsFiniteSet(Granted(s)')
  BY <1>1 DEF SemInv, Granted
<1> QED
  BY <1>1, <1>2, <1>3, <1>4, <1>5 DEF SemInv, SameSems

\* A wakeup by a timer or by do_kill: never of a process blocked in down().
LEMMA WokenOtherwise ==
  ASSUME SemInv, NEW p \in Threads, Awaken(p)
  PROVE  SemInv' /\ SameSems
<1>1. /\ p \in Procs /\ Wakeup(p) /\ waitState[p] \in Interruptible
      /\ UNCHANGED <<current, needResched, value, waitq, waitOn, flags, phase>>
  BY DEF Awaken, TimerWakes, KillWakes, MustWake, Interruptible, Threads, semVars
<1>2. /\ state' \in [Procs -> States] /\ waitState' \in [Procs -> WaitStates]
      /\ slice' \in [Procs -> 0 .. MaxSlice] /\ runq' \in Seq(Procs)
      /\ RunqExact' /\ state'[Idle] = "RUNNABLE"
  BY <1>1, WakeupType, WakeupExact DEF SemInv, TypeOK
<1>3. state[p] = "SLEEPING"
  BY <1>1 DEF SemInv, SleepAgrees, Interruptible
<1>4. /\ state' = [state EXCEPT ![p] = "RUNNABLE"]
      /\ waitState' = [waitState EXCEPT ![p] = "0"]
  BY <1>1, <1>3 DEF Wakeup, Woken
<1>5. TypeOK'
  BY <1>1, <1>2 DEF SemInv, TypeOK, SchedTypeOK, SemTypeOK
<1>6. SleepAgrees' /\ CurrentAwake'
  BY <1>1, <1>4 DEF SemInv, SleepAgrees, CurrentAwake, TypeOK, SchedTypeOK
<1>7. WaitqExact' /\ NoIdleUnit' /\ NoStaleWait'
  BY <1>1, <1>4 DEF SemInv, WaitqExact, Waiting, NoIdleUnit, NoStaleWait, TypeOK,
                    SchedTypeOK, Interruptible
<1>8. \A s \in Sems : IsFiniteSet(Granted(s)')
  BY <1>1 DEF SemInv, Granted
<1> QED
  BY <1>1, <1>2, <1>5, <1>6, <1>7, <1>8 DEF SemInv, SameSems

LEMMA Ticks ==
  ASSUME SemInv, Tick
  PROVE  SemInv' /\ SameSems
<1>1. /\ ProcTick(current) /\ current \in Procs
      /\ UNCHANGED <<current, state, waitState, runq, value, waitq, waitOn, flags, phase>>
  BY DEF Tick, semVars, SemInv, TypeOK, SchedTypeOK
<1>2. TypeOK'
  BY <1>1, ProcTickType DEF SemInv, TypeOK, SchedTypeOK, SemTypeOK
<1>3. /\ RunqExact' /\ SleepAgrees' /\ WaitqExact' /\ NoIdleUnit'
      /\ CurrentAwake' /\ NoStaleWait'
  BY <1>1 DEF SemInv, RunqExact, Queued, SleepAgrees, WaitqExact, Waiting,
              NoIdleUnit, CurrentAwake, NoStaleWait
<1>4. \A s \in Sems : IsFiniteSet(Granted(s)')
  BY <1>1 DEF SemInv, Granted
<1> QED
  BY <1>1, <1>2, <1>3, <1>4 DEF SemInv, SameSems

-----------------------------------------------------------------------------
LEMMA InitSemInv ==
  ASSUME ClientInit
  PROVE  SemInv /\ (\A s \in Sems : Granted(s) = {})
<1>1. \A s \in Sems : Granted(s) = {}
  BY SemConstants DEF ClientInit, Granted
<1>2. Threads \subseteq Procs /\ Idle \in Procs
  BY DEF Threads, Procs
<1>3. runq \in Seq(Procs)
  <2>1. runq \in [1 .. Cardinality(Threads) -> Threads]
    BY DEF ClientInit
  <2>2. Cardinality(Threads) \in Nat
    <3>1. IsFiniteSet(Users \cup {InitP})
      BY ClientConstants, FS_AddElement
    <3>2. Threads = Users \cup {InitP}
      BY SchedConstants DEF Threads, Procs
    <3> QED
      BY <3>1, <3>2, FS_CardinalityType
  <2> QED
    BY <1>2, <2>1, <2>2
<1>4. TypeOK
  BY <1>2, <1>3, SchedConstants, ClientConstants
  DEF ClientInit, TypeOK, SchedTypeOK, SemTypeOK, States, WaitStates, Flags
<1>5. WaitqExact /\ NoIdleUnit
  BY SemConstants DEF ClientInit, WaitqExact, Waiting, NoIdleUnit
<1>6. RunqExact /\ SleepAgrees /\ CurrentAwake /\ NoStaleWait /\ state[Idle] = "RUNNABLE"
  BY <1>2 DEF ClientInit, SleepAgrees, CurrentAwake, NoStaleWait
<1> QED
  BY <1>1, <1>4, <1>5, <1>6, FS_EmptySet DEF SemInv

\* Every step keeps the invariant, is a step of the counting semaphores or none,
\* and lets nobody overtake.
LEMMA NextSemInv ==
  ASSUME SemInv, [ClientNext]_clientVars
  PROVE  SemInv' /\ AvailStep /\ FifoStep
<1>1. CASE UNCHANGED clientVars
  <2>1. SameSems
    BY <1>1 DEF clientVars, semVars, SameSems
  <2>2. UNCHANGED <<current, state, waitState, needResched, slice, runq, value,
                    waitq, waitOn, flags, phase>>
    BY <1>1 DEF clientVars, schedVars, semVars
  <2>3. TypeOK' /\ RunqExact' /\ SleepAgrees' /\ WaitqExact' /\ NoIdleUnit'
    BY <2>2 DEF SemInv, TypeOK, SchedTypeOK, SemTypeOK, RunqExact, Queued,
                SleepAgrees, WaitqExact, Waiting, NoIdleUnit
  <2>4. /\ CurrentAwake' /\ NoStaleWait' /\ state'[Idle] = "RUNNABLE"
        /\ \A s \in Sems : IsFiniteSet(Granted(s)')
    BY <2>2 DEF SemInv, CurrentAwake, NoStaleWait, Granted
  <2>5. SemInv'
    BY <2>3, <2>4 DEF SemInv
  <2> QED
    BY <2>1, <2>5, SemQuiet DEF SameSems
<1>2. CASE Tick
  BY <1>2, Ticks, SemQuiet DEF SameSems
<1>3. CASE IdleYields
  <2>1. Schedule /\ SameSems /\ phase' = phase
    BY <1>3 DEF IdleYields, semVars, SameSems
  <2> QED
    BY <2>1, Switches, SemQuiet DEF SameSems
<1>4. ASSUME NEW p \in Threads,
             \/ Sleep(p) \/ Preempt(p) \/ Return(p) \/ Leave(p) \/ Awaken(p)
             \/ \E s \in Sems : DownCall(p, s) \/ UpCall(p, s)
      PROVE  SemInv' /\ AvailStep /\ FifoStep
  <2>1. CASE Sleep(p)
    BY <2>1, Dozes, SemQuiet DEF SameSems
  <2>2. CASE Preempt(p)
    <3>1. Schedule /\ SameSems /\ phase' = phase
      BY <2>2 DEF Preempt, semVars, SameSems
    <3> QED
      BY <3>1, Switches, SemQuiet DEF SameSems
  <2>3. CASE Return(p)
    <3>1. CASE DownReturns(p) /\ UNCHANGED <<schedVars, value, flags>>
      BY <3>1, DownReturnsInv DEF Threads
    <3>2. CASE DozeReturns(p) /\ UNCHANGED <<schedVars, value, waitq, waitOn, flags>>
      BY <3>2, DozeEnds, SemQuiet DEF SameSems
    <3> QED
      BY <2>3, <3>1, <3>2 DEF Return
  <2>4. CASE Leave(p)
    <3>1. Schedule /\ SameSems /\ phase' = [phase EXCEPT ![current] = "back"]
      BY <2>4 DEF Leave, SameSems
    <3> QED
      BY <3>1, Switches, SemQuiet DEF SameSems
  <2>5. CASE Awaken(p)
    BY <2>5, WokenOtherwise, SemQuiet DEF SameSems
  <2>6. ASSUME NEW s \in Sems, DownCall(p, s)
        PROVE  SemInv' /\ AvailStep /\ FifoStep
    <3>1. CASE Take(s) /\ UNCHANGED <<schedVars, waitq, waitOn, flags, phase>>
      BY <3>1, DownTakes
    <3>2. CASE Block(p, s) /\ UNCHANGED <<current, needResched, slice, runq, value>>
      BY <2>6, <3>2, DownBlocks DEF DownCall
    <3> QED
      BY <2>6, <3>1, <3>2 DEF DownCall
  <2>7. ASSUME NEW s \in Sems, UpCall(p, s)
        PROVE  SemInv' /\ AvailStep /\ FifoStep
    BY <2>7, UpGrants, UpReleases DEF UpCall, Up
  <2> QED
    BY <1>4, <2>1, <2>2, <2>3, <2>4, <2>5, <2>6, <2>7
<1> QED
  BY <1>1, <1>2, <1>3, <1>4 DEF ClientNext

-----------------------------------------------------------------------------
\* The inductive invariant of the semaphores and their clients.
THEOREM SemInvariant == ClientSpec => []SemInv
<1>1. ClientInit => SemInv
  BY InitSemInv
<1>2. SemInv /\ [ClientNext]_clientVars => SemInv'
  BY NextSemInv
<1> QED
  BY <1>1, <1>2, PTL DEF ClientSpec

\* Every variable keeps its type, whatever the clients of sem.c do.
THEOREM SemTypeCorrect == ClientSpec => []TypeOK
<1>1. SemInv => TypeOK
  BY DEF SemInv
<1> QED
  BY <1>1, SemInvariant, PTL

\* A wait_t is on the queue of a semaphore exactly while its process is blocked
\* there: up() never leaves one behind on a stack that is gone (__up, __down).
\* And while somebody waits the value is 0: down() never overlooks a unit.
THEOREM WaitQueuesSound == ClientSpec => []WaitqSound
<1>1. SemInv => WaitqSound
  BY DEF SemInv, WaitqSound
<1> QED
  BY <1>1, SemInvariant, PTL

\* The assertion at the end of __down: only up() ends the wait.
THEOREM DownWokenByUp == ClientSpec => []DownAssert
<1>1. SemInv => DownAssert
  <2> SUFFICES ASSUME SemInv, NEW p \in Procs, Back(p), waitOn[p] # NoSem
               PROVE  flags[p] = "KSEM"
    BY DEF DownAssert
  <2>1. waitOn[p] \in Sems
    BY DEF SemInv, TypeOK, SemTypeOK
  <2> QED
    BY <2>1, RunningIsAwake DEF Back
<1> QED
  BY <1>1, SemInvariant, PTL

\* The queues, flags and wakeups of sem.c implement counting semaphores.
THEOREM SemRefines == ClientSpec => RefinesSem
<1>1. ClientInit => SA!AbsInit
  <2> SUFFICES ASSUME ClientInit PROVE Avail = InitValue
    BY DEF SA!AbsInit, Avail
  <2>1. \A s \in Sems : value[s] + Cardinality(Granted(s)) = InitValue[s]
    <3> SUFFICES ASSUME NEW s \in Sems
                 PROVE  value[s] + Cardinality(Granted(s)) = InitValue[s]
      OBVIOUS
    <3>1. Granted(s) = {}
      BY InitSemInv
    <3>2. Cardinality(Granted(s)) = 0
      BY <3>1, FS_EmptySet
    <3>3. value = InitValue /\ InitValue[s] \in Nat
      BY ClientConstants DEF ClientInit
    <3> QED
      BY <3>2, <3>3
  <2> QED
    BY <2>1, ClientConstants DEF Avail
<1>2. SemInv /\ [ClientNext]_clientVars => [SA!AbsNext]_Avail
  BY NextSemInv DEF AvailStep
<1> QED
  BY <1>1, <1>2, SemInvariant, PTL DEF ClientSpec, RefinesSem, SA!AbsSpec, Avail

\* Nobody overtakes a process that waits in down().
THEOREM FirstComeFirstServed == ClientSpec => Fifo
<1>1. SemInv /\ [ClientNext]_clientVars => FifoStep
  BY NextSemInv
<1> QED
  BY <1>1, SemInvariant, PTL DEF ClientSpec, Fifo, FifoStep
-----------------------------------------------------------------------------
(* The dining philosophers of check_sync.c. *)

LEMMA PhilsAre ==
  /\ Phils \subseteq Sems /\ Phils \subseteq Procs /\ Phils \subseteq Threads
  /\ Idle \notin Phils /\ InitP \notin Phils /\ Procs = Phils \cup {Idle, InitP}
  /\ Mutex \in Sems /\ Mutex \notin Phils /\ Sems = Phils \cup {Mutex}
  /\ NoSem \notin Sems
BY SchedConstants, SemConstants, TableConstants, SemaConstants DEF Procs, Threads

\* The table is round.
LEMMA Neighbours ==
  ASSUME NEW i \in Phils
  PROVE  /\ LEFT(i) \in Phils /\ RIGHT(i) \in Phils
         /\ LEFT(i) # i /\ RIGHT(i) # i
         /\ RIGHT(LEFT(i)) = i /\ LEFT(RIGHT(i)) = i
<1>1. N \in Nat /\ N > 2 /\ i \in 0 .. N - 1
  BY TableConstants DEF Phils
<1>2. LEFT(i) = IF i = 0 THEN N - 1 ELSE i - 1
  BY <1>1 DEF LEFT
<1>3. RIGHT(i) = IF i = N - 1 THEN 0 ELSE i + 1
  BY <1>1 DEF RIGHT
<1>4. RIGHT(LEFT(i)) = i
  BY <1>1, <1>2 DEF RIGHT
<1>5. LEFT(RIGHT(i)) = i
  BY <1>1, <1>3 DEF LEFT
<1> QED
  BY <1>1, <1>2, <1>3, <1>4, <1>5 DEF Phils

\* What PhilInv says of the table, apart from SemInv.
TableInv == PhilTypeOK /\ DownAgrees /\ StatesAgree /\ SeatsApart /\ SeatPromised

LEMMA InitPhilInv == TableInit => PhilInv
<1> SUFFICES ASSUME TableInit PROVE PhilInv
  OBVIOUS
<1>1. runq \in Seq(Procs) /\ RunqExact
  <2>1. N \in Nat /\ Phils = 0 .. N - 1
    BY TableConstants DEF Phils
  <2>2. runq = [i \in 1 .. N |-> i - 1]
    BY DEF TableInit
  <2>3. runq \in Seq(Procs)
    BY <2>1, <2>2, PhilsAre
  <2>4. \A i \in 1 .. N : runq[i] = i - 1
    BY <2>2
  <2>5. Queued = Phils
    <3>1. \A q \in Queued : q \in Phils
      BY <2>1, <2>2, <2>4 DEF Queued
    <3>2. ASSUME NEW q \in Phils PROVE q \in Queued
      <4>1. q + 1 \in DOMAIN runq /\ runq[q + 1] = q
        BY <2>1, <2>2
      <4> QED
        BY <4>1 DEF Queued
    <3> QED
      BY <3>1, <3>2
  <2>6. {p \in Procs \ {Idle} : state[p] = "RUNNABLE" /\ p # current} = Phils
    BY PhilsAre DEF TableInit
  <2>7. \A i, j \in DOMAIN runq : runq[i] = runq[j] => i = j
    BY <2>1, <2>2
  <2> QED
    BY <2>3, <2>5, <2>6, <2>7 DEF RunqExact
<1>2. TypeOK
  <2>1. SchedTypeOK
    BY <1>1, PhilsAre, SchedConstants
    DEF TableInit, SchedTypeOK, States, WaitStates, Interruptible
  <2>2. SemTypeOK
    BY PhilsAre DEF TableInit, SemTypeOK, Flags
  <2> QED
    BY <2>1, <2>2 DEF TypeOK
<1>3. /\ SleepAgrees /\ CurrentAwake /\ NoStaleWait /\ state[Idle] = "RUNNABLE"
      /\ NoIdleUnit
  BY PhilsAre, SchedConstants
  DEF TableInit, SleepAgrees, CurrentAwake, NoStaleWait, NoIdleUnit
<1>4. WaitqExact
  BY PhilsAre DEF TableInit, WaitqExact, Waiting
<1>5. \A s \in Sems : IsFiniteSet(Granted(s))
  <2>1. \A s \in Sems : Granted(s) = {}
    BY PhilsAre DEF TableInit, Granted
  <2> QED
    BY <2>1, FS_EmptySet
<1>6. PhilTypeOK
  BY TableConstants DEF TableInit, PhilTypeOK, PCs
<1>7. DownAgrees /\ StatesAgree
  BY PhilsAre DEF TableInit, DownAgrees, StatesAgree
<1>8. SeatsApart /\ SeatPromised
  BY PhilsAre, Neighbours DEF TableInit, SeatsApart, SeatPromised, SeatUnits
<1> QED
  BY <1>1, <1>2, <1>3, <1>4, <1>5, <1>6, <1>7, <1>8 DEF PhilInv, SemInv

\* The kernel's own steps do not touch the table.
LEMMA TableKept ==
  ASSUME PhilInv, UNCHANGED <<value, waitOn, flags, tableVars>>,
         \A i \in Phils : phase'[i] = "run" <=> phase[i] = "run",
         \A i \in Phils : state[i] = "ZOMBIE" => state'[i] = "ZOMBIE"
  PROVE  TableInv'
<1>1. UNCHANGED <<value, waitOn, flags, pc, iter, phi_state>>
  BY DEF tableVars
<1>2. PhilTypeOK' /\ StatesAgree' /\ SeatsApart' /\ SeatPromised'
  BY <1>1 DEF PhilInv, PhilTypeOK, StatesAgree, SeatsApart, SeatPromised, SeatUnits
<1>3. DownAgrees'
  BY <1>1 DEF PhilInv, DownAgrees, SemOf
<1> QED
  BY <1>2, <1>3 DEF TableInv

LEMMA KernelInv ==
  ASSUME PhilInv, Clock \/ Idling \/ \E i \in Phils : Away(i) \/ Awakened(i)
  PROVE  PhilInv'
<1> USE DEF PhilInv
<1>1. CASE Clock
  <2>1. Tick /\ UNCHANGED tableVars /\ UNCHANGED <<phase, state>>
    BY <1>1 DEF Clock, Tick, semVars
  <2> QED
    BY <2>1, Ticks, TableKept DEF SameSems, TableInv
<1>2. CASE Idling
  <2>1. /\ Schedule /\ SameSems /\ phase' = phase /\ UNCHANGED tableVars
        /\ UNCHANGED state
    BY <1>2 DEF Idling, IdleYields, semVars, SameSems, Schedule
  <2> QED
    BY <2>1, Switches, TableKept DEF SameSems, TableInv
<1>3. ASSUME NEW i \in Phils, Away(i) PROVE PhilInv'
  <2>1. /\ Schedule /\ SameSems /\ UNCHANGED tableVars /\ UNCHANGED state
        /\ i = current /\ phase[i] = "leaving"
        /\ phase' = [phase EXCEPT ![current] = "back"]
    BY <1>3 DEF Away, Leave, SameSems, Schedule
  <2>2. \A j \in Phils : phase'[j] = "run" <=> phase[j] = "run"
    BY <2>1, PhilsAre DEF SemInv, TypeOK, SemTypeOK
  <2> QED
    BY <2>1, <2>2, Switches, TableKept DEF SameSems, TableInv
<1>4. ASSUME NEW i \in Phils, Awakened(i) PROVE PhilInv'
  <2>1. Awaken(i) /\ UNCHANGED tableVars /\ i \in Threads
    BY <1>4, PhilsAre DEF Awakened
  <2>2. SemInv' /\ SameSems
    BY <2>1, WokenOtherwise
  <2>3. phase' = phase /\ waitState[i] \in Interruptible /\ Wakeup(i)
    BY <2>1 DEF Awaken, TimerWakes, KillWakes, MustWake, Interruptible, semVars
  <2>4. state[i] = "SLEEPING"
    BY <2>3, PhilsAre DEF SemInv, SleepAgrees, Interruptible
  <2>5. \A j \in Phils : state[j] = "ZOMBIE" => state'[j] = "ZOMBIE"
    BY <2>3, <2>4, PhilsAre DEF Wakeup, SemInv, TypeOK, SchedTypeOK
  <2> QED
    BY <2>1, <2>2, <2>3, <2>5, TableKept DEF SameSems, TableInv
<1> QED
  BY <1>1, <1>2, <1>3, <1>4
\* The loop of a philosopher outside the critical sections.
LEMMA ThinkEatInv ==
  ASSUME PhilInv, NEW i \in Phils, Think(i) \/ Eat(i)
  PROVE  PhilInv'
<1> USE DEF PhilInv
<1>1. /\ i \in Threads /\ Sleep(i) /\ UNCHANGED <<pc, phi_state>>
      /\ current = i /\ phase[i] = "run" /\ pc[i] \in {"think", "eat"}
      /\ phase' = [phase EXCEPT ![i] = "leaving"]
      /\ state' = [state EXCEPT ![i] = "SLEEPING"]
  BY PhilsAre DEF Think, Eat, At, Sleep, Runs, Doze, FallAsleep, tableVars
<1>2. SemInv' /\ SameSems
  BY <1>1, Dozes
<1>3. PhilTypeOK'
  <2>1. iter' \in [Phils -> 0 .. TIMES]
    BY TableConstants DEF Think, Eat, tableVars, PhilTypeOK
  <2> QED
    BY <1>1, <2>1 DEF PhilTypeOK
<1>4. waitOn[i] = NoSem
  BY <1>1, PhilsAre DEF SemInv, NoStaleWait
<1>5. DownAgrees'
  BY <1>1, <1>2, <1>4, PhilsAre
  DEF DownAgrees, SemOf, SameSems, SemInv, TypeOK, SchedTypeOK, SemTypeOK
<1>6. StatesAgree' /\ SeatsApart' /\ SeatPromised'
  BY <1>1, <1>2 DEF StatesAgree, SeatsApart, SeatPromised, SeatUnits, SameSems
<1> QED
  BY <1>2, <1>3, <1>5, <1>6

LEMMA RestedInv ==
  ASSUME PhilInv, NEW i \in Phils, Rested(i)
  PROVE  PhilInv'
<1> USE DEF PhilInv
<1>1. /\ i \in Threads /\ DozeReturns(i)
      /\ UNCHANGED <<schedVars, value, waitq, waitOn, flags>>
      /\ current = i /\ phase[i] = "back" /\ waitOn[i] = NoSem
      /\ phase' = [phase EXCEPT ![i] = "run"]
      /\ pc' = [pc EXCEPT ![i] = AfterSleep[pc[i]]]
      /\ UNCHANGED <<iter, phi_state, state>>
  BY PhilsAre DEF Rested, DozeReturns, Back, Goto, schedVars
<1>2. SemInv' /\ SameSems
  BY <1>1, DozeEnds
<1>3. state[i] = "RUNNABLE"
  BY <1>1, PhilsAre, RunningIsAwake
<1>4. \/ pc[i] = "think" /\ AfterSleep[pc[i]] = "take"
      \/ pc[i] = "eat" /\ AfterSleep[pc[i]] = "put"
  BY <1>1, <1>3 DEF DownAgrees, AfterSleep
<1>5. PhilTypeOK'
  BY <1>1, <1>4 DEF PhilTypeOK, PCs
<1>6. DownAgrees'
  BY <1>1, <1>2, <1>4, PhilsAre
  DEF DownAgrees, SemOf, SameSems, PhilTypeOK, SemInv, TypeOK, SemTypeOK
<1>7. StatesAgree' /\ SeatsApart'
  BY <1>1, <1>4 DEF StatesAgree, SeatsApart, PhilTypeOK
<1>8. SeatPromised'
  BY <1>1, <1>4 DEF SeatPromised, SeatUnits, PhilTypeOK
<1> QED
  BY <1>2, <1>5, <1>6, <1>7, <1>8

LEMMA QuitInv ==
  ASSUME PhilInv, NEW i \in Phils, Quit(i)
  PROVE  PhilInv'
<1> USE DEF PhilInv
<1>1. /\ i \in Procs /\ i # Idle /\ current = i /\ phase[i] = "run"
      /\ pc[i] = "think"
      /\ state' = [state EXCEPT ![i] = "ZOMBIE"]
      /\ phase' = [phase EXCEPT ![i] = "leaving"]
      /\ pc' = [pc EXCEPT ![i] = "quit"]
      /\ UNCHANGED <<current, waitState, needResched, slice, runq, value, waitq,
                     waitOn, flags, iter, phi_state>>
  BY PhilsAre DEF Quit, At, Runs, Goto
<1>2. /\ state[i] = "RUNNABLE" /\ waitState[i] = "0" /\ waitOn[i] = NoSem
  BY <1>1, RunningIsAwake DEF SemInv, NoStaleWait
<1>3. TypeOK'
  BY <1>1 DEF SemInv, TypeOK, SchedTypeOK, SemTypeOK, States
<1>4. RunqExact'
  BY <1>1 DEF SemInv, RunqExact, Queued, TypeOK, SchedTypeOK
<1>5. SleepAgrees' /\ CurrentAwake' /\ NoStaleWait' /\ state'[Idle] = "RUNNABLE"
  BY <1>1, <1>2
  DEF SemInv, SleepAgrees, CurrentAwake, NoStaleWait, TypeOK, SchedTypeOK, SemTypeOK
<1>6. WaitqExact' /\ NoIdleUnit' /\ \A s \in Sems : IsFiniteSet(Granted(s)')
  BY <1>1 DEF SemInv, WaitqExact, Waiting, NoIdleUnit, Granted
<1>7. PhilTypeOK' /\ StatesAgree' /\ SeatsApart'
  BY <1>1 DEF PhilTypeOK, PCs, StatesAgree, SeatsApart
<1>8. DownAgrees'
  BY <1>1, <1>2, PhilsAre
  DEF DownAgrees, SemOf, PhilTypeOK, SemInv, TypeOK, SchedTypeOK, SemTypeOK
<1>9. SeatPromised'
  BY <1>1 DEF SeatPromised, SeatUnits, PhilTypeOK
<1> QED
  BY <1>3, <1>4, <1>5, <1>6, <1>7, <1>8, <1>9 DEF SemInv

-----------------------------------------------------------------------------
\* down(): where a philosopher stands before and after.
LEMMA DownPlaces ==
  ASSUME PhilInv, NEW i \in Phils, pc[i] \in DOMAIN AfterDown
  PROVE  /\ SemOf(i) \in Sems
         /\ \/ pc[i] = "take" /\ AfterDown[pc[i]] = "hungry" /\ SemOf(i) = Mutex
            \/ pc[i] = "wait" /\ AfterDown[pc[i]] = "eat" /\ SemOf(i) = i
            \/ pc[i] = "put" /\ AfterDown[pc[i]] = "put_left" /\ SemOf(i) = Mutex
BY PhilsAre DEF AfterDown, SemOf

\* The unit of s[i] that ends the wait is the seat.
LEMMA UnitIsSeat ==
  ASSUME PhilInv, NEW i \in Phils, pc[i] = "wait",
         value[i] # 0 \/ (waitOn[i] = i /\ flags[i] = "KSEM")
  PROVE  phi_state[i] = "EATING" /\ SeatUnits(i) = 1
<1>1. value[i] \in Nat
  BY PhilsAre DEF PhilInv, SemInv, TypeOK, SemTypeOK
<1>2. SeatUnits(i) # 0
  BY <1>1 DEF SeatUnits
<1> QED
  BY <1>2 DEF PhilInv, SeatPromised

LEMMA AcquireTakes ==
  ASSUME PhilInv, NEW i \in Phils, pc[i] \in DOMAIN AfterDown, Runs(i),
         Take(SemOf(i)), Goto(i, AfterDown[pc[i]]),
         UNCHANGED <<schedVars, waitq, waitOn, flags, phase>>,
         UNCHANGED <<iter, phi_state>>
  PROVE  PhilInv'
<1> USE DEF PhilInv
<1>0. PICK l \in PCs : l = AfterDown[pc[i]]
  BY DownPlaces DEF PCs
<1>1. /\ pc' = [pc EXCEPT ![i] = l] /\ phase[i] = "run"
      /\ value' = [value EXCEPT ![SemOf(i)] = @ - 1] /\ value[SemOf(i)] > 0
      /\ UNCHANGED <<waitOn, flags, phase, iter, phi_state, state>>
  BY <1>0 DEF Goto, Take, CanTake, Runs, schedVars
<1>2. SemInv'
  BY DownPlaces, DownTakes
<1>3. waitOn[i] = NoSem
  BY <1>1, PhilsAre DEF SemInv, NoStaleWait
<1>4. \/ pc[i] = "take" /\ l = "hungry" /\ SemOf(i) = Mutex
      \/ pc[i] = "wait" /\ l = "eat" /\ SemOf(i) = i
      \/ pc[i] = "put" /\ l = "put_left" /\ SemOf(i) = Mutex
  BY <1>0, DownPlaces
<1>5. ASSUME pc[i] = "wait" PROVE phi_state[i] = "EATING" /\ SeatUnits(i) = 1
  <2>1. value[i] # 0
    BY <1>1, <1>4, <1>5
  <2> QED
    BY <1>5, <2>1, UnitIsSeat
<1>6. PhilTypeOK' /\ SeatsApart'
  BY <1>1 DEF PhilTypeOK, SeatsApart
<1>7. DownAgrees'
  BY <1>1, <1>3, <1>4, PhilsAre DEF DownAgrees, SemOf, PhilTypeOK
<1>8. StatesAgree'
  BY <1>1, <1>4, <1>5 DEF StatesAgree, PhilTypeOK
<1>9. SeatPromised'
  <2> SUFFICES ASSUME NEW j \in Phils
               PROVE  SeatUnits(j)' = IF phi_state'[j] = "EATING"
                                         /\ pc'[j] \in {"take_up", "wait"}
                                      THEN 1 ELSE 0
    BY DEF SeatPromised
  <2>1. CASE j = i /\ pc[i] = "wait"
    <3>1. value[i] = 1
      BY <1>3, <1>5, <2>1, PhilsAre DEF SeatUnits, SemInv, TypeOK, SemTypeOK
    <3>2. value'[i] = 0
      BY <1>1, <1>4, <2>1, <3>1, PhilsAre DEF SemInv, TypeOK, SemTypeOK
    <3> QED
      BY <1>1, <1>3, <1>4, <2>1, <3>2, PhilsAre DEF SeatUnits, PhilTypeOK
  <2>2. CASE ~(j = i /\ pc[i] = "wait")
    <3>1. value'[j] = value[j]
      BY <1>1, <1>4, <2>2, PhilsAre DEF SemInv, TypeOK, SemTypeOK
    <3>2. SeatUnits(j)' = SeatUnits(j)
      BY <1>1, <3>1 DEF SeatUnits
    <3> QED
      BY <1>1, <1>4, <2>2, <3>2 DEF SeatPromised, PhilTypeOK
  <2> QED
    BY <2>1, <2>2
<1> QED
  BY <1>2, <1>6, <1>7, <1>8, <1>9

LEMMA AcquireBlocks ==
  ASSUME PhilInv, NEW i \in Phils, pc[i] \in DOMAIN AfterDown, Runs(i),
         Block(i, SemOf(i)),
         UNCHANGED <<current, needResched, slice, runq, value, pc>>,
         UNCHANGED <<iter, phi_state>>
  PROVE  PhilInv'
<1> USE DEF PhilInv
<1>1. /\ current = i /\ phase[i] = "run" /\ ~(value[SemOf(i)] > 0)
      /\ state' = [state EXCEPT ![i] = "SLEEPING"]
      /\ waitOn' = [waitOn EXCEPT ![i] = SemOf(i)]
      /\ flags' = [flags EXCEPT ![i] = "INTERRUPTED"]
      /\ phase' = [phase EXCEPT ![i] = "leaving"]
      /\ UNCHANGED <<value, pc, iter, phi_state>>
  BY DEF Runs, Block, CanTake, FallAsleep
<1>2. SemInv'
  BY PhilsAre, DownPlaces, DownBlocks
<1>3. waitOn[i] = NoSem
  BY <1>1, PhilsAre DEF SemInv, NoStaleWait
<1>4. PhilTypeOK' /\ StatesAgree' /\ SeatsApart'
  BY <1>1 DEF PhilTypeOK, StatesAgree, SeatsApart
<1>5. DownAgrees'
  BY <1>1, DownPlaces, PhilsAre
  DEF DownAgrees, SemOf, AfterDown, SemInv, TypeOK, SchedTypeOK, SemTypeOK
<1>6. SeatPromised'
  BY <1>1, <1>3, PhilsAre
  DEF SeatPromised, SeatUnits, SemInv, TypeOK, SchedTypeOK, SemTypeOK
<1> QED
  BY <1>2, <1>4, <1>5, <1>6

LEMMA AcquireReturns ==
  ASSUME PhilInv, NEW i \in Phils, pc[i] \in DOMAIN AfterDown, DownReturns(i),
         Goto(i, AfterDown[pc[i]]), UNCHANGED <<schedVars, value, flags>>,
         UNCHANGED <<iter, phi_state>>
  PROVE  PhilInv'
<1> USE DEF PhilInv
<1>0. PICK l \in PCs : l = AfterDown[pc[i]]
  BY DownPlaces DEF PCs
<1>1. /\ current = i /\ phase[i] = "back" /\ waitOn[i] # NoSem
      /\ waitOn' = [waitOn EXCEPT ![i] = NoSem]
      /\ phase' = [phase EXCEPT ![i] = "run"]
      /\ pc' = [pc EXCEPT ![i] = l]
      /\ UNCHANGED <<value, flags, iter, phi_state, state>>
  BY <1>0 DEF DownReturns, Back, Goto, schedVars
<1>2. SemInv'
  BY PhilsAre, DownReturnsInv
<1>3. waitOn[i] = SemOf(i)
  BY <1>1 DEF DownAgrees
<1>4. flags[i] = "KSEM"
  BY <1>1, <1>3, DownPlaces, PhilsAre, RunningIsAwake
<1>5. \/ pc[i] = "take" /\ l = "hungry" /\ SemOf(i) = Mutex
      \/ pc[i] = "wait" /\ l = "eat" /\ SemOf(i) = i
      \/ pc[i] = "put" /\ l = "put_left" /\ SemOf(i) = Mutex
  BY <1>0, DownPlaces
<1>6. pc[i] = "wait" => phi_state[i] = "EATING" /\ SeatUnits(i) = 1
  BY <1>3, <1>4, <1>5, UnitIsSeat
<1>7. PhilTypeOK' /\ SeatsApart'
  BY <1>1 DEF PhilTypeOK, SeatsApart
<1>8. DownAgrees'
  BY <1>1, <1>5, PhilsAre DEF DownAgrees, SemOf, PhilTypeOK, SemInv, TypeOK, SemTypeOK
<1>9. StatesAgree'
  BY <1>1, <1>5, <1>6 DEF StatesAgree, PhilTypeOK
<1>10. SeatPromised'
  <2> SUFFICES ASSUME NEW j \in Phils
               PROVE  SeatUnits(j)' = IF phi_state'[j] = "EATING"
                                         /\ pc'[j] \in {"take_up", "wait"}
                                      THEN 1 ELSE 0
    BY DEF SeatPromised
  <2>1. CASE j = i /\ pc[i] = "wait"
    <3>1. value[i] = 0
      BY <1>3, <1>4, <1>5, <1>6, <2>1, PhilsAre
      DEF SeatUnits, SemInv, TypeOK, SemTypeOK
    <3>2. SeatUnits(i)' = 0
      BY <1>1, <3>1, PhilsAre DEF SeatUnits, SemInv, TypeOK, SemTypeOK
    <3> QED
      BY <1>1, <1>5, <2>1, <3>2 DEF PhilTypeOK
  <2>2. CASE ~(j = i /\ pc[i] = "wait")
    <3>1. SeatUnits(j)' = SeatUnits(j)
      BY <1>1, <1>3, <1>5, <2>2, PhilsAre DEF SeatUnits, SemInv, TypeOK, SemTypeOK
    <3> QED
      BY <1>1, <1>5, <2>2, <3>1 DEF SeatPromised, PhilTypeOK
  <2> QED
    BY <2>1, <2>2
<1> QED
  BY <1>2, <1>7, <1>8, <1>9, <1>10

LEMMA AcquireInv == ASSUME PhilInv, NEW i \in Phils, Acquire(i) PROVE PhilInv'
BY AcquireTakes, AcquireBlocks, AcquireReturns DEF Acquire, Down
-----------------------------------------------------------------------------
\* up(): a unit more of s, in value or on its way to the philosopher that waits.
LEMMA UpGives ==
  ASSUME PhilInv, NEW s \in Sems, Up(s),
         UNCHANGED <<current, needResched, waitOn, phase>>
  PROVE  /\ SemInv'
         /\ \A k \in Phils : state[k] = "ZOMBIE" => state'[k] = "ZOMBIE"
         /\ \A k \in Phils : SeatUnits(k)' = SeatUnits(k) + IF k = s THEN 1 ELSE 0
<1> USE DEF PhilInv
<1>1. CASE Grant(s)
  <2>1. PICK w \in Procs : w = FirstWaiter(s)
    BY <1>1, FirstWaits DEF Grant
  <2>2. /\ waitOn[w] = s /\ flags[w] = "INTERRUPTED" /\ state[w] = "SLEEPING"
        /\ flags' = [flags EXCEPT ![w] = "KSEM"] /\ Wakeup(w)
        /\ value' = value
    BY <1>1, <2>1, FirstWaits DEF Grant
  <2>3. w \in Phils /\ (s \in Phils => w = s)
    BY <2>2, PhilsAre DEF DownAgrees, SemOf
  <2>4. state' = [state EXCEPT ![w] = "RUNNABLE"]
    BY <2>2 DEF Wakeup
  <2>5. ASSUME NEW k \in Phils
        PROVE  SeatUnits(k)' = SeatUnits(k) + IF k = s THEN 1 ELSE 0
    <3>1. k \in Procs /\ value[k] \in Nat /\ value'[k] = value[k]
          /\ waitOn'[k] = waitOn[k]
      BY <2>2, PhilsAre DEF SemInv, TypeOK, SemTypeOK
    <3>2. CASE k = s
      <4>1. k = w /\ flags'[k] = "KSEM"
        BY <2>2, <2>3, <3>1, <3>2 DEF SemInv, TypeOK, SemTypeOK
      <4> QED
        BY <2>2, <3>1, <3>2, <4>1 DEF SeatUnits
    <3>3. CASE k # s
      <4>1. waitOn[k] = k => flags'[k] = flags[k]
        BY <2>2, <3>1, <3>3 DEF SemInv, TypeOK, SemTypeOK
      <4> QED
        BY <3>1, <3>3, <4>1 DEF SeatUnits
    <3> QED
      BY <3>2, <3>3
  <2> QED
    BY <1>1, <2>2, <2>4, <2>5, UpGrants, PhilsAre DEF SemInv, TypeOK, SchedTypeOK
<1>2. CASE Release(s)
  <2>1. /\ value' = [value EXCEPT ![s] = @ + 1]
        /\ UNCHANGED <<waitOn, flags, state>>
    BY <1>2 DEF Release
  <2>2. ASSUME NEW k \in Phils
        PROVE  SeatUnits(k)' = SeatUnits(k) + IF k = s THEN 1 ELSE 0
    <3>1. value[k] \in Nat /\ value'[k] = value[k] + IF k = s THEN 1 ELSE 0
      BY <2>1, PhilsAre DEF SemInv, TypeOK, SemTypeOK
    <3> QED
      BY <2>1, <3>1 DEF SeatUnits
  <2> QED
    BY <1>2, <2>1, <2>2, UpReleases
<1> QED
  BY <1>1, <1>2 DEF Up

\* Of a philosopher that runs and goes on in its program outside down() and
\* do_sleep().
LEMMA GoesOn ==
  ASSUME PhilInv, NEW i \in Phils, NEW l \in PCs, Runs(i), l # "quit",
         pc' = [pc EXCEPT ![i] = l], UNCHANGED <<waitOn, phase, iter>>,
         \A k \in Phils : state[k] = "ZOMBIE" => state'[k] = "ZOMBIE"
  PROVE  DownAgrees'
<1>1. waitOn[i] = NoSem /\ phase[i] = "run"
  BY PhilsAre DEF PhilInv, SemInv, NoStaleWait, Runs
<1>2. \A k \in Phils \ {i} : pc'[k] = pc[k]
  OBVIOUS
<1>3. pc'[i] = l
  BY DEF PhilInv, PhilTypeOK
<1> QED
  BY <1>1, <1>2, <1>3 DEF PhilInv, DownAgrees, SemOf

LEMMA UpMutexInv == ASSUME PhilInv, NEW i \in Phils, UpMutex(i) PROVE PhilInv'
<1> USE DEF PhilInv
<1>0. pc[i] \in {"take_up", "put_up"}
  BY DEF UpMutex, AfterUp
<1>1. PICK l \in PCs : /\ l = AfterUp[pc[i]] /\ l # "quit"
                       /\ pc[i] = "take_up" => l = "wait"
                       /\ pc[i] = "put_up" => l = "think"
  <2>1. CASE pc[i] = "take_up"
    BY <2>1 DEF AfterUp, PCs
  <2>2. CASE pc[i] = "put_up"
    BY <2>2 DEF AfterUp, PCs
  <2> QED
    BY <1>0, <2>1, <2>2
<1>2. /\ Runs(i) /\ Up(Mutex) /\ pc' = [pc EXCEPT ![i] = l]
      /\ UNCHANGED <<current, needResched, waitOn, phase, iter, phi_state>>
  BY <1>1 DEF UpMutex, Goto
<1>3. /\ SemInv'
      /\ \A k \in Phils : state[k] = "ZOMBIE" => state'[k] = "ZOMBIE"
      /\ \A k \in Phils : SeatUnits(k)' = SeatUnits(k)
                                          + IF k = Mutex THEN 1 ELSE 0
  BY <1>2, PhilsAre, UpGives
<1>4. \A k \in Phils : SeatUnits(k)' = SeatUnits(k)
  BY <1>3, PhilsAre DEF SeatPromised
<1>5. PhilTypeOK' /\ SeatsApart'
  BY <1>2 DEF PhilTypeOK, SeatsApart
<1>6. DownAgrees'
  BY <1>1, <1>2, <1>3, GoesOn
<1>7. StatesAgree' /\ SeatPromised'
  BY <1>0, <1>1, <1>2, <1>4 DEF StatesAgree, SeatPromised, PhilTypeOK
<1> QED
  BY <1>3, <1>5, <1>6, <1>7

\* phi_test_sema(j).
LEMMA TestSeats ==
  ASSUME PhilInv, NEW j \in Phils, NEW st, Test(st, j),
         UNCHANGED <<current, needResched, waitOn, phase>>
  PROVE  /\ SemInv'
         /\ \A k \in Phils : state[k] = "ZOMBIE" => state'[k] = "ZOMBIE"
         /\ \/ /\ MayEat(st, j) /\ phi_state' = [st EXCEPT ![j] = "EATING"]
               /\ \A k \in Phils : SeatUnits(k)' = SeatUnits(k)
                                                   + IF k = j THEN 1 ELSE 0
            \/ /\ phi_state' = st
               /\ \A k \in Phils : SeatUnits(k)' = SeatUnits(k)
<1>1. CASE MayEat(st, j)
  <2>1. Up(j) /\ phi_state' = [st EXCEPT ![j] = "EATING"]
    BY <1>1 DEF Test
  <2> QED
    BY <1>1, <2>1, PhilsAre, UpGives
<1>2. CASE ~MayEat(st, j)
  <2>1. /\ phi_state' = st
        /\ UNCHANGED <<value, waitq, flags, state, waitState, runq, slice>>
    BY <1>2 DEF Test
  <2>2. TypeOK' /\ RunqExact' /\ SleepAgrees' /\ WaitqExact' /\ NoIdleUnit'
    BY <2>1 DEF PhilInv, SemInv, TypeOK, SchedTypeOK, SemTypeOK, RunqExact, Queued,
                SleepAgrees, WaitqExact, Waiting, NoIdleUnit
  <2>3. /\ CurrentAwake' /\ NoStaleWait' /\ state'[Idle] = "RUNNABLE"
        /\ \A s \in Sems : IsFiniteSet(Granted(s)')
    BY <2>1 DEF PhilInv, SemInv, CurrentAwake, NoStaleWait, Granted
  <2>4. \A k \in Phils : SeatUnits(k)' = SeatUnits(k)
    BY <2>1 DEF SeatUnits
  <2> QED
    BY <2>1, <2>2, <2>3, <2>4 DEF SemInv
<1> QED
  BY <1>1, <1>2

\* Whoever is seated with free seats beside it is apart from its neighbours.
LEMMA SeatedApart ==
  ASSUME NEW st, NEW j \in Phils, MayEat(st, j),
         st \in [Phils -> {"THINKING", "HUNGRY", "EATING"}],
         \A k \in Phils : st[k] = "EATING" => st[RIGHT(k)] # "EATING",
         NEW new, new = [st EXCEPT ![j] = "EATING"]
  PROVE  \A k \in Phils : new[k] = "EATING" => new[RIGHT(k)] # "EATING"
<1> SUFFICES ASSUME NEW k \in Phils, new[k] = "EATING"
             PROVE  new[RIGHT(k)] # "EATING"
  OBVIOUS
<1>1. /\ RIGHT(k) \in Phils /\ RIGHT(k) # k /\ LEFT(RIGHT(k)) = k
  BY Neighbours
<1>2. st[LEFT(j)] # "EATING" /\ st[RIGHT(j)] # "EATING"
  BY DEF MayEat
<1>3. CASE k = j
  BY <1>1, <1>2, <1>3
<1>4. CASE k # j
  <2>1. st[k] = "EATING" /\ st[RIGHT(k)] # "EATING"
    BY <1>4
  <2>2. RIGHT(k) # j
    BY <1>1, <1>2, <2>1
  <2> QED
    BY <1>1, <2>1, <2>2
<1> QED
  BY <1>3, <1>4

LEMMA HungryInv == ASSUME PhilInv, NEW i \in Phils, Hungry(i) PROVE PhilInv'
<1> USE DEF PhilInv
<1>1. PICK st : st = [phi_state EXCEPT ![i] = "HUNGRY"]
  OBVIOUS
<1>2. /\ Runs(i) /\ pc[i] = "hungry" /\ Test(st, i)
      /\ pc' = [pc EXCEPT ![i] = "take_up"]
      /\ UNCHANGED <<current, needResched, waitOn, phase, iter>>
  BY <1>1 DEF Hungry, TestAt, At, Goto
<1>3. /\ SemInv'
      /\ \A k \in Phils : state[k] = "ZOMBIE" => state'[k] = "ZOMBIE"
      /\ \/ /\ MayEat(st, i) /\ phi_state' = [st EXCEPT ![i] = "EATING"]
            /\ \A k \in Phils : SeatUnits(k)' = SeatUnits(k)
                                                + IF k = i THEN 1 ELSE 0
         \/ /\ phi_state' = st
            /\ \A k \in Phils : SeatUnits(k)' = SeatUnits(k)
  BY <1>2, TestSeats
<1>4. /\ st \in [Phils -> {"THINKING", "HUNGRY", "EATING"}] /\ st[i] = "HUNGRY"
      /\ \A k \in Phils \ {i} : st[k] = phi_state[k]
  BY <1>1 DEF PhilTypeOK
<1>5. PhilTypeOK'
  BY <1>2, <1>3, <1>4 DEF PhilTypeOK, PCs
<1>6. DownAgrees'
  BY <1>2, <1>3, GoesOn DEF PCs
<1>7. StatesAgree'
  <2> SUFFICES ASSUME NEW k \in Phils
               PROVE  phi_state'[k] \in CASE pc'[k] \in {"take_up", "wait"} -> {"HUNGRY", "EATING"}
                                           [] pc'[k] \in {"eat", "put", "put_left"} -> {"EATING"}
                                           [] OTHER -> {"THINKING"}
    BY DEF StatesAgree
  <2>1. phi_state'[i] \in {"HUNGRY", "EATING"} /\ (k # i => phi_state'[k] = phi_state[k])
    BY <1>3, <1>4
  <2>2. pc'[i] = "take_up" /\ (k # i => pc'[k] = pc[k])
    BY <1>2 DEF PhilTypeOK
  <2>3. CASE k = i
    BY ONLY <2>1, <2>2, <2>3
  <2>4. CASE k # i
    BY <2>1, <2>2, <2>4 DEF StatesAgree
  <2> QED BY <2>3, <2>4
<1>8. SeatsApart'
  <2>1. \A k \in Phils : st[k] = "EATING" => st[RIGHT(k)] # "EATING"
    BY <1>4, Neighbours DEF SeatsApart
  <2> QED
    BY <1>3, <1>4, <2>1, SeatedApart DEF SeatsApart
<1>9. SeatPromised'
  <2>1. SeatUnits(i) = 0 /\ pc'[i] = "take_up"
    BY <1>2 DEF SeatPromised, PhilTypeOK
  <2>2. SeatUnits(i)' = IF phi_state'[i] = "EATING" THEN 1 ELSE 0
    BY <1>3, <1>4, <2>1
  <2>3. ASSUME NEW k \in Phils, k # i
        PROVE  /\ SeatUnits(k)' = SeatUnits(k)
               /\ phi_state'[k] = phi_state[k] /\ pc'[k] = pc[k]
    <3>1. SeatUnits(k)' = SeatUnits(k)
      BY <1>3, <2>3 DEF SeatPromised
    <3>2. phi_state'[k] = phi_state[k] /\ pc'[k] = pc[k]
      BY <1>2, <1>3, <1>4, <2>3 DEF PhilTypeOK
    <3> QED
      BY <3>1, <3>2
  <2> QED
    BY <2>1, <2>2, <2>3 DEF SeatPromised
<1> QED
  BY <1>3, <1>5, <1>6, <1>7, <1>8, <1>9

\* The two halves of phi_put_forks_sema, for the neighbour j that is tested.
LEMMA PutInv ==
  ASSUME PhilInv, NEW i \in Phils, NEW j \in Phils, j # i, NEW st, NEW l,
         \/ pc[i] = "put_left" /\ l = "put_right"
         \/ pc[i] = "put_right" /\ l = "put_up",
         st \in [Phils -> {"THINKING", "HUNGRY", "EATING"}], st[i] = "THINKING",
         \A k \in Phils \ {i} : st[k] = phi_state[k],
         Runs(i), Test(st, j), Goto(i, l),
         UNCHANGED <<current, needResched, waitOn, phase, iter>>
  PROVE  PhilInv'
<1> USE DEF PhilInv
<1>1. pc' = [pc EXCEPT ![i] = l] /\ l \in PCs /\ l # "quit"
  BY DEF Goto, PCs
<1>2. /\ SemInv'
      /\ \A k \in Phils : state[k] = "ZOMBIE" => state'[k] = "ZOMBIE"
      /\ \/ /\ MayEat(st, j) /\ phi_state' = [st EXCEPT ![j] = "EATING"]
            /\ \A k \in Phils : SeatUnits(k)' = SeatUnits(k)
                                                + IF k = j THEN 1 ELSE 0
         \/ /\ phi_state' = st
            /\ \A k \in Phils : SeatUnits(k)' = SeatUnits(k)
  BY TestSeats
<1>3. /\ st \in [Phils -> {"THINKING", "HUNGRY", "EATING"}] /\ st[i] = "THINKING"
      /\ \A k \in Phils \ {i} : st[k] = phi_state[k]
  OBVIOUS
<1>4. PhilTypeOK'
  BY <1>1, <1>2, <1>3 DEF PhilTypeOK
<1>5. DownAgrees'
  BY <1>1, <1>2, GoesOn
<1>6. MayEat(st, j) => phi_state[j] = "HUNGRY" /\ pc[j] \in {"take_up", "wait"}
  <2>1. MayEat(st, j) => phi_state[j] = "HUNGRY"
    BY <1>3 DEF MayEat
  <2> QED
    BY <2>1 DEF StatesAgree
<1>7. StatesAgree'
  BY <1>1, <1>2, <1>3, <1>6 DEF StatesAgree, PhilTypeOK
<1>8. SeatsApart'
  <2>1. \A k \in Phils : st[k] = "EATING" => st[RIGHT(k)] # "EATING"
    BY <1>3, Neighbours DEF SeatsApart
  <2>2. CASE phi_state' = st
    BY <2>1, <2>2 DEF SeatsApart
  <2>3. CASE MayEat(st, j) /\ phi_state' = [st EXCEPT ![j] = "EATING"]
    <3>1. st \in [Phils -> {"THINKING", "HUNGRY", "EATING"}] /\ MayEat(st, j)
      BY <1>3, <2>3
    <3>2. \A k \in Phils : [st EXCEPT ![j] = "EATING"][k] = "EATING" =>
                              [st EXCEPT ![j] = "EATING"][RIGHT(k)] # "EATING"
      BY ONLY <2>1, <3>1, SeatedApart, j \in Phils, Zenon
    <3> QED
      BY <2>3, <3>2 DEF SeatsApart
  <2> QED
    BY <1>2, <2>2, <2>3
<1>9. SeatPromised'
  <2>1. MayEat(st, j) => SeatUnits(j) = 0
    BY <1>6 DEF SeatPromised
  <2>2. ASSUME NEW k \in Phils
        PROVE  SeatUnits(k)' = IF phi_state'[k] = "EATING"
                                  /\ pc'[k] \in {"take_up", "wait"}
                               THEN 1 ELSE 0
    <3>1. CASE k = i
      <4>1. SeatUnits(k)' = SeatUnits(k) /\ SeatUnits(k) = 0
        BY <1>2, <3>1 DEF SeatPromised
      <4> QED
        BY <1>1, <3>1, <4>1 DEF PhilTypeOK
    <3>2. CASE k = j
      BY <1>1, <1>2, <1>3, <1>6, <2>1, <3>2 DEF SeatPromised, PhilTypeOK
    <3>3. CASE k # i /\ k # j
      <4>1. SeatUnits(k)' = SeatUnits(k)
        BY <1>2, <3>3 DEF SeatPromised
      <4> QED
        BY <1>1, <1>2, <1>3, <3>3, <4>1 DEF SeatPromised, PhilTypeOK
    <3> QED
      BY <3>1, <3>2, <3>3
  <2> QED
    BY <2>2 DEF SeatPromised
<1> QED
  BY <1>2, <1>4, <1>5, <1>7, <1>8, <1>9

LEMMA PutBothInv ==
  ASSUME PhilInv, NEW i \in Phils, PutLeft(i) \/ PutRight(i)
  PROVE  PhilInv'
<1>1. CASE PutLeft(i)
  <2>1. PICK st : st = [phi_state EXCEPT ![i] = "THINKING"]
    OBVIOUS
  <2>2. /\ st \in [Phils -> {"THINKING", "HUNGRY", "EATING"}] /\ st[i] = "THINKING"
        /\ \A k \in Phils \ {i} : st[k] = phi_state[k]
    BY <2>1 DEF PhilInv, PhilTypeOK
  <2>3. /\ Runs(i) /\ pc[i] = "put_left" /\ Test(st, LEFT(i)) /\ Goto(i, "put_right")
        /\ UNCHANGED <<current, needResched, waitOn, phase, iter>>
    BY <1>1, <2>1 DEF PutLeft, TestAt, At
  <2> QED
    BY <2>2, <2>3, Neighbours, PutInv
<1>2. CASE PutRight(i)
  <2>1. /\ Runs(i) /\ pc[i] = "put_right" /\ Test(phi_state, RIGHT(i))
        /\ Goto(i, "put_up")
        /\ UNCHANGED <<current, needResched, waitOn, phase, iter>>
    BY <1>2 DEF PutRight, TestAt, At
  <2>2. /\ phi_state \in [Phils -> {"THINKING", "HUNGRY", "EATING"}]
        /\ phi_state[i] = "THINKING"
    BY <2>1 DEF PhilInv, StatesAgree, PhilTypeOK
  <2> QED
    BY <2>1, <2>2, Neighbours, PutInv
<1> QED
  BY <1>1, <1>2

LEMMA NextPhilInv == PhilInv /\ [Next]_vars => PhilInv'
<1> SUFFICES ASSUME PhilInv, [Next]_vars PROVE PhilInv'
  OBVIOUS
<1>1. CASE Clock \/ Idling
  BY <1>1, KernelInv
<1>2. ASSUME NEW i \in Phils, Step(i) \/ Awakened(i) PROVE PhilInv'
  BY <1>2, KernelInv, ThinkEatInv, RestedInv, QuitInv, AcquireInv, UpMutexInv,
     HungryInv, PutBothInv
  DEF Step, LoopStep
<1>3. CASE UNCHANGED vars
  <2>1. UNCHANGED clientVars /\ UNCHANGED <<value, waitOn, flags, tableVars, phase, state>>
    BY <1>3 DEF vars, clientVars, schedVars, semVars, tableVars
  <2>2. SemInv'
    BY <2>1, NextSemInv DEF PhilInv
  <2> QED
    BY <2>1, <2>2, TableKept DEF PhilInv, TableInv
<1> QED
  BY <1>1, <1>2, <1>3 DEF Next

\* The inductive invariant of the philosophers over semaphores.
THEOREM PhilInvariant == Spec => []PhilInv
<1> QED
  BY InitPhilInv, NextPhilInv, PTL DEF Spec

\* SeatsSound: neighbours never eat together, and a seat given is a unit of s[i],
\* in the semaphore or handed over, until its philosopher takes it.
THEOREM SeatsAlwaysSound == Spec => []SeatsSound
<1>1. PhilInv => SeatsSound
  <2> SUFFICES ASSUME PhilInv PROVE SeatsSound
    OBVIOUS
  <2>1. ASSUME NEW i \in Phils, Holds(i)
        PROVE  ~Holds(LEFT(i)) /\ ~Holds(RIGHT(i)) /\ phi_state[i] = "EATING"
    <3>1. \A k \in Phils : Holds(k) => phi_state[k] = "EATING"
      BY DEF PhilInv, StatesAgree, Holds
    <3>2. phi_state[LEFT(i)] # "EATING" /\ phi_state[RIGHT(i)] # "EATING"
      BY <2>1, <3>1, Neighbours DEF PhilInv, SeatsApart
    <3> QED
      BY <2>1, <3>1, <3>2, Neighbours
  <2>2. Exclusion
    BY <2>1 DEF Exclusion
  <2> QED
    BY <2>2 DEF PhilInv, SeatsSound
<1> QED
  BY <1>1, PhilInvariant, PTL
=============================================================================
