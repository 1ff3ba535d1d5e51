------------------------ MODULE PintosThreads_proofs ------------------------
(***************************************************************************)
(* Proofs about PintosThreads for any number of threads and any time       *)
(* slice: the ready list is exact, no page is used after it was freed, and *)
(* there is always a thread to run, also while the idle thread is starting *)
(* up.                                                                     *)
(***************************************************************************)
EXTENDS PintosThreads, TLAPS

USE ThreadConstants

-----------------------------------------------------------------------------
\* The ready list as a set.
Elems(q) == {q[i] : i \in DOMAIN q}
Once(q) == \A i, j \in DOMAIN q : q[i] = q[j] => i = j

LEMMA AppendElems ==
  ASSUME NEW q \in Seq(Threads), NEW t \in Threads, Once(q), t \notin Elems(q)
  PROVE  /\ Append(q, t) \in Seq(Threads)
         /\ Once(Append(q, t))
         /\ Elems(Append(q, t)) = Elems(q) \cup {t}
<1>1. /\ DOMAIN q = 1 .. Len(q)
      /\ DOMAIN Append(q, t) = 1 .. Len(q) + 1
      /\ Len(q) \in Nat
      /\ \A i \in 1 .. Len(q) : Append(q, t)[i] = q[i]
      /\ Append(q, t)[Len(q) + 1] = t
  OBVIOUS
<1>2. Once(Append(q, t))
  BY <1>1 DEF Once, Elems
<1>3. Elems(Append(q, t)) = Elems(q) \cup {t}
  <2>1. ASSUME NEW x \in Elems(Append(q, t)) PROVE x \in Elems(q) \cup {t}
    BY <1>1, <2>1 DEF Elems
  <2>2. ASSUME NEW x \in Elems(q) PROVE x \in Elems(Append(q, t))
    BY <1>1, <2>2 DEF Elems
  <2>3. t \in Elems(Append(q, t))
    BY <1>1 DEF Elems
  <2> QED
    BY <2>1, <2>2, <2>3
<1> QED
  BY <1>2, <1>3

LEMMA TailElems ==
  ASSUME NEW q \in Seq(Threads), Once(q), q # <<>>
  PROVE  /\ Head(q) \in Elems(q) /\ Head(q) \in Threads
         /\ Tail(q) \in Seq(Threads)
         /\ Once(Tail(q))
         /\ Elems(Tail(q)) = Elems(q) \ {Head(q)}
<1>1. /\ DOMAIN q = 1 .. Len(q) /\ Len(q) \in Nat \ {0}
      /\ DOMAIN Tail(q) = 1 .. Len(q) - 1
      /\ \A i \in 1 .. Len(q) - 1 : Tail(q)[i] = q[i + 1]
      /\ Head(q) = q[1]
      /\ Tail(q) \in Seq(Threads)
  OBVIOUS
<1>2. Once(Tail(q))
  BY <1>1 DEF Once
<1>3. Elems(Tail(q)) = Elems(q) \ {Head(q)}
  <2>1. ASSUME NEW i \in 1 .. Len(q) - 1
        PROVE  Tail(q)[i] \in Elems(q) /\ Tail(q)[i] # Head(q)
    BY <1>1 DEF Elems, Once
  <2>2. ASSUME NEW i \in 1 .. Len(q), q[i] # Head(q)
        PROVE  q[i] \in Elems(Tail(q))
    <3>1. i - 1 \in 1 .. Len(q) - 1 /\ Tail(q)[i - 1] = q[i]
      BY <1>1, <2>2
    <3> QED
      BY <1>1, <3>1 DEF Elems
  <2>3. Elems(Tail(q)) \subseteq Elems(q) \ {Head(q)}
    BY <1>1, <2>1 DEF Elems
  <2>4. Elems(q) \ {Head(q)} \subseteq Elems(Tail(q))
    BY <1>1, <2>2 DEF Elems
  <2> QED
    BY <2>3, <2>4
<1>4. Head(q) \in Elems(q)
  BY <1>1 DEF Elems
<1>5. Head(q) \in Threads
  BY <1>1
<1> QED
  BY <1>1, <1>2, <1>3, <1>4, <1>5

-----------------------------------------------------------------------------
\* schedule(): the list it is called with holds the other ready threads, and
\* the caller if it stays ready; its head, or the idle thread, runs next.
LEMMA ScheduleExact ==
  ASSUME TypeOK, NEW t \in Threads, t = current,
         NEW s \in {"blocked", "ready", "dying"},
         NEW q \in Seq(Threads), Once(q),
         \A u \in Threads : u \in Elems(q) <=>
             u # idle_thread /\ IF u = t THEN s = "ready" ELSE status[u] = "ready",
         \A u \in Threads : status[u] = "running" <=> u = t,
         q = <<>> => idle_thread # None,
         Schedule(t, s, q), UNCHANGED idle_thread
  PROVE  /\ current' \in Threads /\ status' \in [Threads -> Statuses]
         /\ ready' \in Seq(Threads) /\ thread_ticks' = 0
         /\ ReadyExact'
         /\ status'[current'] = "running"
         /\ \A u \in Threads : u # current' =>
                status'[u] = IF u = t THEN Left(t, s) ELSE status[u]
         /\ current' \in Elems(q) \/ current' = idle_thread
         /\ current' = idle_thread => ready' = <<>>
<1> DEFINE next == IF q = <<>> THEN idle_thread ELSE Head(q)
           left == [status EXCEPT ![t] = Left(t, s)]
<1>1. /\ next \in Threads /\ next # None
      /\ next \in Elems(q) \/ next = idle_thread
      /\ next = idle_thread => q = <<>>
  <2>1. CASE q = <<>>
    BY <2>1 DEF TypeOK, Threads
  <2>2. CASE q # <<>>
    BY <2>2, TailElems
  <2> QED
    BY <2>1, <2>2
<1>2. /\ current' = next
      /\ ready' = IF q = <<>> THEN q ELSE Tail(q)
      /\ status' = [left EXCEPT ![next] = "running"]
      /\ thread_ticks' = 0
  BY <1>1 DEF Schedule
<1>3. Left(t, s) \in Statuses \ {"running"} /\ (Left(t, s) = "ready" <=> s = "ready")
  BY DEF Left, Statuses
<1>4. status' \in [Threads -> Statuses]
  BY <1>2, <1>3 DEF TypeOK, Statuses
<1>5. /\ status'[next] = "running"
      /\ \A u \in Threads : u # next =>
             status'[u] = IF u = t THEN Left(t, s) ELSE status[u]
  BY <1>1, <1>2 DEF TypeOK
<1>6. ready' \in Seq(Threads) /\ Once(ready') /\ Elems(ready') = Elems(q) \ {next}
  <2>1. CASE q = <<>>
    BY <1>2, <2>1 DEF Elems
  <2>2. CASE q # <<>>
    BY <1>2, <2>2, TailElems
  <2> QED
    BY <2>1, <2>2
<1>7. ReadyExact'
  <2>1. \A u \in Threads : status'[u] = "running" <=> current' = u
    BY <1>2, <1>3, <1>5
  <2>2. \A u \in Elems(q) : u \in Threads
    BY DEF Elems
  <2>3. \A u \in Threads : u \in Elems(ready') <=>
                               status'[u] = "ready" /\ u # idle_thread
    BY <1>3, <1>5, <1>6
  <2>4. InReady' = Elems(ready')
    BY DEF InReady, Elems
  <2>5. InReady' = {u \in Threads : status'[u] = "ready" /\ u # idle_thread'}
    BY <1>6, <2>2, <2>3, <2>4
  <2> QED
    BY <1>6, <2>1, <2>5 DEF ReadyExact, Once
<1> QED
  BY <1>1, <1>2, <1>4, <1>5, <1>6, <1>7

\* What ReadyExact says of the list that schedule() is called with.
LEMMA ReadyElems ==
  ASSUME TypeOK, ReadyExact
  PROVE  /\ ready \in Seq(Threads) /\ Once(ready)
         /\ \A u \in Threads : u \in Elems(ready) <=>
                                   status[u] = "ready" /\ u # idle_thread
         /\ \A u \in Threads : status[u] = "running" <=> u = current
<1>1. InReady = Elems(ready)
  BY DEF InReady, Elems
<1> QED
  BY <1>1 DEF ReadyExact, Once, TypeOK

\* thread_unblock of a blocked thread other than the idle thread.
LEMMA UnblockExact ==
  ASSUME TypeOK, ReadyExact, NEW t \in Threads,
         status[t] \notin {"ready", "running"}, t # idle_thread, Unblock(t),
         UNCHANGED <<current, idle_thread>>
  PROVE  /\ ready' \in Seq(Threads)
         /\ status' = [status EXCEPT ![t] = "ready"]
         /\ status' \in [Threads -> Statuses]
         /\ ReadyExact'
<1>1. /\ ready' = Append(ready, t) /\ status' = [status EXCEPT ![t] = "ready"]
  BY DEF Unblock, Enqueued
<1>2. t \notin Elems(ready)
  BY ReadyElems
<1>3. ready' \in Seq(Threads) /\ Once(ready') /\ Elems(ready') = Elems(ready) \cup {t}
  BY <1>1, <1>2, ReadyElems, AppendElems
<1>4. status' \in [Threads -> Statuses]
  BY <1>1 DEF TypeOK, Statuses
<1>5. ReadyExact'
  <2>1. \A u \in Threads : status'[u] = "running" <=> current' = u
    BY <1>1, ReadyElems DEF TypeOK
  <2>2. InReady' = Elems(ready')
    BY DEF InReady, Elems
  <2>3. \A u \in Threads : u \in Elems(ready') <=>
                               status'[u] = "ready" /\ u # idle_thread
    BY <1>1, <1>3, ReadyElems DEF TypeOK
  <2>4. Elems(ready') \subseteq Threads
    BY <1>3 DEF Elems
  <2>5. InReady' = {u \in Threads : status'[u] = "ready" /\ u # idle_thread'}
    BY <2>2, <2>3, <2>4
  <2> QED
    BY <1>3, <2>1, <2>5 DEF ReadyExact, Once
<1> QED
  BY <1>1, <1>3, <1>4, <1>5

-----------------------------------------------------------------------------
\* At the start only initial_thread is there.
LEMMA InitThreadInv == Init => ThreadInv
<1> SUFFICES ASSUME Init PROVE ThreadInv
  OBVIOUS
<1>1. TypeOK
  BY DEF Init, TypeOK, Threads, Statuses, PCs
<1>0. ready = <<>> /\ InReady = {}
  BY DEF Init, InReady
<1>2. ReadyExact
  <2>1. \A t \in Threads : status[t] = "running" <=> current = t
    BY DEF Init
  <2>2. {t \in Threads : status[t] = "ready" /\ t # idle_thread} = {}
    BY DEF Init
  <2>3. DOMAIN ready = {}
    BY <1>0
  <2> QED
    BY <1>0, <2>1, <2>2, <2>3 DEF ReadyExact
<1>3. PagesSafe
  BY <1>0 DEF Init, PagesSafe, Threads
<1>4. IdleSound
  BY DEF Init, IdleSound, IdleReady, NeverHaltsBusy, Threads
<1>5. Places /\ StartUp
  BY DEF Init, Places, StartUp, Threads
<1> QED
  BY <1>1, <1>2, <1>3, <1>4, <1>5 DEF ThreadInv

\* The running thread gives the processor away: it blocks, yields or exits.
\* Of the places in the code only the idle thread's may change, in its loop.
LEMMA LeavesProcessor ==
  ASSUME ThreadInv, NEW t \in Threads, t = current, pc[Main] # "boot",
         NEW s \in {"blocked", "ready", "dying"},
         Schedule(t, s, IF s = "ready" /\ t # idle_thread
                        THEN Append(ready, t) ELSE ready),
         UNCHANGED <<idle_thread, idle_started, creates>>,
         all_list' = IF s = "dying" THEN all_list \ {t} ELSE all_list,
         s = "dying" => pc[t] = "run",
         pc[t] = "idle" => s = "ready",
         pc' \in [Threads -> PCs],
         \A u \in Threads \ {Idle} : pc'[u] = pc[u],
         \/ pc'[Idle] = pc[Idle]
         \/ {pc[Idle], pc'[Idle]} \subseteq {"loop", "halt"}
  PROVE  ThreadInv'
<1> USE DEF ThreadInv
<1> DEFINE q == IF s = "ready" /\ t # idle_thread
                THEN Append(ready, t) ELSE ready
<1>0. Main \in Threads /\ Idle \in Threads
  BY DEF Threads
<1>1. /\ q \in Seq(Threads) /\ Once(q)
      /\ \A u \in Threads : u \in Elems(q) <=>
             u # idle_thread /\ IF u = t THEN s = "ready" ELSE status[u] = "ready"
  <2>1. CASE s = "ready" /\ t # idle_thread
    <3>1. t \notin Elems(ready)
      BY ReadyElems
    <3> QED
      BY <2>1, <3>1, ReadyElems, AppendElems
  <2>2. CASE ~(s = "ready" /\ t # idle_thread)
    BY <2>2, ReadyElems
  <2> QED
    BY <2>1, <2>2
<1>2. q = <<>> => idle_thread # None
  <2>1. ASSUME idle_thread = None PROVE Idle \in Elems(q)
    <3>1. pc[Idle] = "idle"
      BY <2>1 DEF StartUp
    <3>2. Idle # idle_thread /\ status[Idle] \in {"ready", "running"}
      BY <1>0, <2>1, <3>1 DEF StartUp
    <3>3. status[Idle] = "running" => Idle = t /\ s = "ready"
      BY <1>0, <3>1, ReadyElems
    <3>4. status[t] = "running"
      BY ReadyElems
    <3> QED
      BY <1>0, <1>1, <3>2, <3>3, <3>4
  <2> QED
    BY <2>1 DEF Elems
<1>3. \A u \in Threads : status[u] = "running" <=> u = t
  BY ReadyElems
<1>4. /\ current' \in Threads /\ status' \in [Threads -> Statuses]
      /\ ready' \in Seq(Threads) /\ thread_ticks' = 0
      /\ ReadyExact'
      /\ status'[current'] = "running"
      /\ \A u \in Threads : u # current' =>
             status'[u] = IF u = t THEN Left(t, s) ELSE status[u]
      /\ current' \in Elems(q) \/ current' = idle_thread
      /\ current' = idle_thread => ready' = <<>>
  <2>1. Schedule(t, s, q)
    OBVIOUS
  <2>2. TypeOK /\ UNCHANGED idle_thread
    OBVIOUS
  <2> HIDE DEF q, ThreadInv
  <2> QED
    BY <1>1, <1>2, <1>3, <2>1, <2>2, ScheduleExact
<1>5. idle_thread = None \/ idle_thread = Idle
  BY DEF TypeOK
<1>6. current' \in all_list'
  <2>1. CASE current' \in Elems(q)
    <3>1. CASE current' = t
      <4>1. s = "ready" /\ status[t] = "running"
        BY <1>1, <1>3, <1>4, <2>1, <3>1
      <4> QED
        BY <3>1, <4>1 DEF PagesSafe
    <3>2. CASE current' # t
      <4>1. status[current'] = "ready"
        BY <1>1, <1>4, <2>1, <3>2
      <4> QED
        BY <1>4, <3>2, <4>1 DEF PagesSafe
    <3> QED
      BY <3>1, <3>2
  <2>2. CASE current' = idle_thread
    <3>1. current' = Idle /\ pc[Idle] # "new"
      BY <1>4, <1>5, <2>2 DEF StartUp
    <3>2. status[Idle] \notin {"free", "dying"}
      BY <3>1 DEF StartUp
    <3>3. Idle = t => s # "dying"
      BY DEF Places
    <3> QED
      BY <1>0, <3>1, <3>2, <3>3 DEF PagesSafe
  <2> QED
    BY <1>4, <2>1, <2>2
<1>7. TypeOK'
  BY <1>4 DEF TypeOK
<1>8. PagesSafe'
  <2>1. \A u \in Threads : status'[u] \in {"free", "dying"} <=> u \notin all_list'
    <3> TAKE u \in Threads
    <3>1. CASE u = current'
      BY <1>4, <1>6, <3>1
    <3>2. CASE u # current' /\ u = t
      <4>1. status[t] = "running" /\ t \in all_list
        BY <1>3 DEF PagesSafe
      <4> QED
        BY <1>4, <3>2, <4>1 DEF Left
    <3>3. CASE u # current' /\ u # t
      BY <1>4, <3>3 DEF PagesSafe
    <3> QED
      BY <3>1, <3>2, <3>3
  <2>2. \A u \in Threads : u \notin all_list' => u \notin InReady' /\ u # current'
    BY <1>4, <1>6, <2>1 DEF ReadyExact
  <2>3. status'[Main] # "free"
    BY <1>0, <1>4 DEF Left, PagesSafe
  <2>4. ASSUME NEW v \in Threads, NEW u \in Threads, creates'[v] = u
        PROVE  /\ u \in all_list' /\ status'[u] = "blocked" /\ pc'[u] = "new"
               /\ \A w \in Threads : creates'[w] = u => w = v
    <3>1. /\ u \in all_list /\ status[u] = "blocked" /\ pc[u] = "new"
          /\ \A w \in Threads : creates[w] = u => w = v
      BY <2>4 DEF PagesSafe
    <3>2. u # t /\ u # Idle
      <4>1. u \in Pages
        BY <2>4 DEF TypeOK
      <4> QED
        BY <1>3, <3>1, <4>1
    <3>3. u # current'
      BY <1>1, <1>4, <1>5, <3>1, <3>2
    <3> QED
      BY <1>4, <3>1, <3>2, <3>3
  <2> QED
    BY <2>1, <2>2, <2>3, <2>4 DEF PagesSafe
<1>9. IdleSound'
  <2>1. IdleReady'
    BY <1>0, <1>4 DEF IdleSound, IdleReady
  <2>2. NeverHaltsBusy'
    <3>1. ASSUME current' = Idle, pc'[Idle] = "halt" PROVE ready' = <<>>
      <4>1. pc[Idle] \in {"loop", "halt"}
        BY <3>1
      <4>2. idle_thread = Idle
        BY <1>5, <4>1 DEF StartUp
      <4> QED
        BY <1>4, <3>1, <4>2
    <3> QED
      BY <3>1 DEF NeverHaltsBusy
  <2> QED
    BY <2>1, <2>2 DEF IdleSound
<1>10. Places'
  <2>1. /\ pc'[Main] = pc[Main]
        /\ pc'[Idle] \in {"new", "idle", "up", "loop", "halt"}
        /\ \A u \in Pages : pc'[u] = pc[u]
    BY <1>0 DEF Places, Threads
  <2>2. \A u \in Threads : pc'[u] = "create" <=> pc[u] = "create"
    BY <1>0 DEF Places
  <2>3. \A u \in Threads : status'[u] \in {"free", "dying"} => pc[u] # "create"
    <3> TAKE u \in Threads
    <3>1. CASE u = current'
      BY <1>4, <3>1
    <3>2. CASE u # current' /\ u = t
      BY <1>4, <3>2 DEF Left
    <3>3. CASE u # current' /\ u # t
      BY <1>4, <3>3 DEF Places
    <3> QED
      BY <3>1, <3>2, <3>3
  <2> QED
    BY <2>1, <2>2, <2>3 DEF Places
<1>11. StartUp'
  <2>1. pc[Idle] # "new" /\ pc'[Main] = pc[Main]
    BY <1>0 DEF StartUp
  <2>2. pc'[Idle] = pc[Idle] \/ {pc[Idle], pc'[Idle]} \cap {"new", "idle", "up"} = {}
    OBVIOUS
  <2>3. pc[Idle] = "idle" => status'[Idle] \in {"ready", "running"}
    <3>1. ASSUME pc[Idle] = "idle", Idle # current'
          PROVE  status'[Idle] = "ready"
      <4>1. status[Idle] \in {"ready", "running"}
        BY <3>1 DEF StartUp
      <4>2. CASE Idle = t
        BY <1>0, <1>4, <3>1, <4>2 DEF Left
      <4>3. CASE Idle # t
        BY <1>0, <1>3, <1>4, <3>1, <4>1, <4>3
      <4> QED
        BY <4>2, <4>3
    <3> QED
      BY <1>4, <3>1
  <2>4. status'[Idle] \notin {"free", "dying"}
    <3>1. CASE Idle = current'
      BY <1>4, <3>1
    <3>2. CASE Idle # current' /\ Idle = t
      <4>1. s # "dying"
        BY <3>2 DEF Places
      <4> QED
        BY <1>0, <1>4, <3>2, <4>1 DEF Left
    <3>3. CASE Idle # current' /\ Idle # t
      BY <1>0, <1>4, <2>1, <3>3 DEF StartUp
    <3> QED
      BY <3>1, <3>2, <3>3
  <2> QED
    BY <2>1, <2>2, <2>3, <2>4 DEF StartUp
<1> QED
  BY <1>4, <1>7, <1>8, <1>9, <1>10, <1>11

-----------------------------------------------------------------------------
\* The start-up.
LEMMA StartInv == ASSUME ThreadInv, Start PROVE ThreadInv'
<1> USE DEF ThreadInv
<1>0. Main \in Threads /\ Idle \in Threads
  BY DEF Threads
<1>1. /\ current = Main /\ pc[Main] = "boot" /\ Unblock(Idle)
      /\ all_list' = all_list \cup {Idle}
      /\ pc' = [pc EXCEPT ![Main] = "start", ![Idle] = "idle"]
      /\ UNCHANGED <<current, idle_thread, thread_ticks, idle_started, creates>>
  BY DEF Start
<1>2. /\ status[Idle] = "free" /\ idle_thread = None /\ idle_started = 0
      /\ pc[Idle] = "new"
  BY <1>0, <1>1 DEF StartUp
<1>3. /\ ready' \in Seq(Threads)
      /\ status' = [status EXCEPT ![Idle] = "ready"]
      /\ status' \in [Threads -> Statuses]
      /\ ReadyExact'
  BY <1>0, <1>1, <1>2, UnblockExact
<1>4. TypeOK'
  BY <1>0, <1>1, <1>3 DEF TypeOK, PCs
<1>5. PagesSafe'
  <2>1. \A u \in Threads : status'[u] \in {"free", "dying"} <=> u \notin all_list'
    BY <1>0, <1>1, <1>3 DEF PagesSafe, TypeOK
  <2>2. \A u \in Threads : u \notin all_list' => u \notin InReady' /\ u # current'
    BY <1>1, <1>3, <2>1 DEF ReadyExact, PagesSafe
  <2>3. \A u \in Pages : creates[u] = None
    BY <1>0, <1>1 DEF StartUp, PagesSafe, Places, Threads
  <2>4. \A v, u \in Threads : creates'[v] = u =>
            /\ u \in all_list' /\ status'[u] = "blocked" /\ pc'[u] = "new"
            /\ \A w \in Threads : creates'[w] = u => w = v
    <3>1. \A v, u \in Threads : creates[v] = u => u \in Pages
      BY DEF TypeOK
    <3>2. \A u \in Pages : u # Main /\ u # Idle /\ u \in Threads
      BY DEF Threads
    <3> QED
      BY <1>1, <1>3, <3>1, <3>2 DEF PagesSafe, TypeOK
  <2> QED
    BY <1>0, <1>3, <2>1, <2>2, <2>4 DEF PagesSafe, TypeOK
<1>6. IdleSound'
  BY <1>0, <1>1 DEF IdleSound, IdleReady, NeverHaltsBusy, TypeOK
<1>7. Places'
  BY <1>0, <1>1, <1>3 DEF Places, TypeOK, Threads
<1>8. StartUp'
  BY <1>0, <1>1, <1>2, <1>3 DEF StartUp, TypeOK
<1> QED
  BY <1>3, <1>4, <1>5, <1>6, <1>7, <1>8

LEMMA AwaitIdleInv == ASSUME ThreadInv, AwaitIdle PROVE ThreadInv'
<1> USE DEF ThreadInv
<1>0. Main \in Threads /\ Idle \in Threads
  BY DEF Threads
<1>1. CASE idle_started = 0
  <2>1. /\ Main = current /\ pc[Main] = "start"
        /\ Schedule(Main, "blocked", ready)
        /\ UNCHANGED <<all_list, idle_thread, idle_started, creates, pc>>
    BY <1>1 DEF AwaitIdle
  <2> QED
    BY <1>0, <2>1, LeavesProcessor DEF TypeOK
<1>2. CASE idle_started # 0
  <2>1. /\ current = Main /\ pc[Main] = "start"
        /\ idle_started' = idle_started - 1
        /\ pc' = [pc EXCEPT ![Main] = "run"]
        /\ UNCHANGED <<current, status, ready, thread_ticks, all_list,
                       idle_thread, creates>>
    BY <1>2 DEF AwaitIdle, Goto
  <2>2. pc[Idle] \notin {"new", "idle", "up"} /\ idle_thread = Idle
    BY <1>2 DEF StartUp, TypeOK
  <2>3. TypeOK'
    <3>1. idle_started' \in Nat
      BY <1>2, <2>1 DEF TypeOK
    <3>2. pc' \in [Threads -> PCs]
      BY <2>1 DEF TypeOK, PCs
    <3> QED
      BY <2>1, <3>1, <3>2 DEF TypeOK
  <2>4. ReadyExact'
    BY <2>1 DEF ReadyExact, InReady
  <2>5. PagesSafe'
    <3>1. \A u \in Threads : pc[u] = "new" => pc'[u] = "new"
      BY <2>1 DEF TypeOK
    <3> QED
      BY <2>1, <3>1 DEF PagesSafe, InReady
  <2>6. IdleSound'
    BY <1>0, <2>1, <2>2 DEF IdleSound, IdleReady, NeverHaltsBusy, TypeOK
  <2>7. Places'
    BY <1>0, <2>1 DEF Places, TypeOK, Threads
  <2>8. StartUp'
    BY <1>0, <2>1, <2>2 DEF StartUp, TypeOK
  <2> QED
    BY <2>3, <2>4, <2>5, <2>6, <2>7, <2>8
<1> QED
  BY <1>1, <1>2

-----------------------------------------------------------------------------
\* idle().
LEMMA IdleInitInv == ASSUME ThreadInv, IdleInit PROVE ThreadInv'
<1> USE DEF ThreadInv
<1>0. Main \in Threads /\ Idle \in Threads
  BY DEF Threads
<1>1. /\ current = Idle /\ pc[Idle] = "idle" /\ idle_thread' = Idle
      /\ pc' = [pc EXCEPT ![Idle] = "up"]
      /\ UNCHANGED <<current, status, ready, all_list, thread_ticks,
                     idle_started, creates>>
  BY DEF IdleInit, Goto
<1>2. status[Idle] = "running" /\ idle_thread = None
  BY <1>0, <1>1 DEF ReadyExact, StartUp
<1>3. TypeOK'
  BY <1>1 DEF TypeOK, PCs
<1>4. ReadyExact'
  <2>1. InReady' = InReady
    BY <1>1 DEF InReady
  <2>2. \A t \in Threads : status[t] = "ready" => t # Idle /\ t # None
    BY <1>2
  <2> QED
    BY <1>1, <1>2, <2>1, <2>2 DEF ReadyExact
<1>5. PagesSafe'
  <2>1. \A u \in Threads : pc[u] = "new" => pc'[u] = "new"
    BY <1>1 DEF TypeOK
  <2> QED
    BY <1>1, <2>1 DEF PagesSafe, InReady
<1>6. IdleSound'
  BY <1>0, <1>1 DEF IdleSound, IdleReady, NeverHaltsBusy, TypeOK
<1>7. Places'
  BY <1>0, <1>1 DEF Places, TypeOK, Threads
<1>8. StartUp'
  BY <1>0, <1>1, <1>2 DEF StartUp, TypeOK
<1> QED
  BY <1>3, <1>4, <1>5, <1>6, <1>7, <1>8

LEMMA IdleUpInv == ASSUME ThreadInv, IdleUp PROVE ThreadInv'
<1> USE DEF ThreadInv
<1>0. Main \in Threads /\ Idle \in Threads
  BY DEF Threads
<1>1. /\ current = Idle /\ pc[Idle] = "up" /\ idle_started' = idle_started + 1
      /\ pc' = [pc EXCEPT ![Idle] = "loop"]
      /\ UNCHANGED <<current, all_list, idle_thread, thread_ticks, creates>>
  BY DEF IdleUp, IdleUps, Goto
<1>2. idle_thread = Idle /\ pc[Main] # "boot"
  BY <1>1 DEF StartUp, TypeOK
<1>3. /\ ready' \in Seq(Threads)
      /\ status' \in [Threads -> Statuses]
      /\ ReadyExact'
      /\ \/ status[Main] = "blocked" /\ status' = [status EXCEPT ![Main] = "ready"]
         \/ UNCHANGED <<status, ready>>
  <2>1. CASE status[Main] = "blocked"
    BY <1>0, <1>1, <1>2, <2>1, UnblockExact DEF IdleUp, IdleUps
  <2>2. CASE status[Main] # "blocked"
    BY <1>1, <2>2 DEF IdleUp, IdleUps, ReadyExact, InReady, TypeOK
  <2> QED
    BY <2>1, <2>2
<1>4. TypeOK'
  <2>1. idle_started' \in Nat
    BY <1>1 DEF TypeOK
  <2>2. pc' \in [Threads -> PCs]
    BY <1>1 DEF TypeOK, PCs
  <2> QED
    BY <1>1, <1>3, <2>1, <2>2 DEF TypeOK
<1>5. PagesSafe'
  <2>1. \A u \in Threads : /\ status'[u] \in {"free", "dying"} <=>
                                 status[u] \in {"free", "dying"}
                           /\ u # Main => status'[u] = status[u]
                           /\ pc[u] = "new" => pc'[u] = "new"
    BY <1>0, <1>1, <1>3 DEF TypeOK
  <2>2. \A u \in Threads : u \notin all_list' => u \notin InReady' /\ u # current'
    BY <1>1, <1>3, <2>1 DEF ReadyExact, PagesSafe
  <2>3. \A v, u \in Threads : creates[v] = u => u # Main
    BY DEF TypeOK
  <2>4. status'[Main] # "free"
    BY <1>0, <1>3 DEF PagesSafe, TypeOK
  <2> QED
    BY <1>1, <2>1, <2>2, <2>3, <2>4 DEF PagesSafe
<1>6. IdleSound'
  BY <1>0, <1>1, <1>2 DEF IdleSound, IdleReady, NeverHaltsBusy, TypeOK
<1>7. Places'
  BY <1>0, <1>1, <1>3 DEF Places, TypeOK, Threads
<1>8. StartUp'
  BY <1>0, <1>1, <1>2, <1>3 DEF StartUp, TypeOK
<1> QED
  BY <1>3, <1>4, <1>5, <1>6, <1>7, <1>8

LEMMA IdleBlockInv == ASSUME ThreadInv, IdleBlock PROVE ThreadInv'
<1> USE DEF ThreadInv
<1>0. Main \in Threads /\ Idle \in Threads
  BY DEF Threads
<1>1. /\ Idle = current /\ pc[Idle] = "loop"
      /\ Schedule(Idle, "blocked", ready)
      /\ pc' = [pc EXCEPT ![Idle] = "halt"]
      /\ UNCHANGED <<all_list, idle_thread, idle_started, creates>>
  BY DEF IdleBlock, Goto
<1>2. pc[Main] # "boot"
  BY <1>1 DEF StartUp
<1>3. /\ pc' \in [Threads -> PCs]
      /\ \A u \in Threads \ {Idle} : pc'[u] = pc[u]
      /\ {pc[Idle], pc'[Idle]} \subseteq {"loop", "halt"}
  BY <1>0, <1>1 DEF TypeOK, PCs
<1> QED
  BY <1>0, <1>1, <1>2, <1>3, LeavesProcessor

-----------------------------------------------------------------------------
\* Ordinary threads.
LEMMA CreateInv ==
  ASSUME ThreadInv, NEW t \in Threads, Create(t) PROVE ThreadInv'
<1> USE DEF ThreadInv
<1>0. Main \in Threads /\ Idle \in Threads
  BY DEF Threads
<1>1. PICK u \in Pages :
         /\ status[u] = "free"
         /\ status' = [status EXCEPT ![u] = "blocked"]
         /\ all_list' = all_list \cup {u}
         /\ creates' = [creates EXCEPT ![t] = u]
         /\ pc' = [pc EXCEPT ![t] = "create", ![u] = "new"]
  BY DEF Create
<1>2. /\ current = t /\ pc[t] = "run"
      /\ UNCHANGED <<current, ready, idle_thread, thread_ticks, idle_started>>
  BY DEF Create
<1>3. /\ u \in Threads /\ u # Main /\ u # Idle /\ u # None /\ u # t
      /\ status[t] = "running" /\ t # Idle
  BY <1>0, <1>1, <1>2 DEF Threads, ReadyExact, Places
<1>4. TypeOK'
  BY <1>1, <1>2, <1>3 DEF TypeOK, Statuses, PCs
<1>5. ReadyExact'
  <2>1. InReady' = InReady
    BY <1>2 DEF InReady
  <2>2. \A v \in Threads : /\ status'[v] = "ready" <=> status[v] = "ready"
                           /\ status'[v] = "running" <=> status[v] = "running"
    BY <1>1, <1>3 DEF TypeOK
  <2> QED
    BY <1>2, <2>1, <2>2 DEF ReadyExact
<1>6. PagesSafe'
  <2>1. \A v \in Threads : status'[v] \in {"free", "dying"} <=> v \notin all_list'
    BY <1>1, <1>3 DEF PagesSafe, TypeOK
  <2>2. \A v \in Threads : v \notin all_list' => v \notin InReady' /\ v # current'
    BY <1>1, <1>2 DEF PagesSafe, InReady
  <2>3. status'[Main] # "free"
    BY <1>0, <1>1, <1>3 DEF PagesSafe, TypeOK
  <2>4. ASSUME NEW v \in Threads, NEW w \in Threads, creates'[v] = w
        PROVE  /\ w \in all_list' /\ status'[w] = "blocked" /\ pc'[w] = "new"
               /\ \A x \in Threads : creates'[x] = w => x = v
    <3>1. \A x \in Threads : creates[x] # u
      BY <1>1, <1>3 DEF PagesSafe
    <3>2. CASE v = t
      <4>1. w = u
        BY <1>1, <2>4, <3>2 DEF TypeOK
      <4> QED
        BY <1>1, <1>3, <3>1, <3>2, <4>1 DEF TypeOK
    <3>3. CASE v # t
      <4>1. creates[v] = w /\ w # u
        BY <1>1, <2>4, <3>1, <3>3 DEF TypeOK
      <4>2. /\ w \in all_list /\ status[w] = "blocked" /\ pc[w] = "new"
            /\ \A x \in Threads : creates[x] = w => x = v
        BY <4>1 DEF PagesSafe
      <4>3. w # t
        BY <1>3, <4>2
      <4> QED
        BY <1>1, <4>1, <4>2, <4>3 DEF TypeOK
    <3> QED
      BY <3>2, <3>3
  <2> QED
    BY <2>1, <2>2, <2>3, <2>4 DEF PagesSafe
<1>7. IdleSound'
  BY <1>0, <1>1, <1>2, <1>3 DEF IdleSound, IdleReady, NeverHaltsBusy, TypeOK
<1>8. Places'
  <2>1. creates[u] = None /\ creates'[u] = None
    BY <1>1, <1>3 DEF Places, TypeOK
  <2> QED
    BY <1>0, <1>1, <1>2, <1>3, <2>1 DEF Places, TypeOK, Threads
<1>9. StartUp'
  BY <1>0, <1>1, <1>2, <1>3 DEF StartUp, TypeOK
<1> QED
  BY <1>4, <1>5, <1>6, <1>7, <1>8, <1>9

LEMMA LaunchInv ==
  ASSUME ThreadInv, NEW t \in Threads, Launch(t) PROVE ThreadInv'
<1> USE DEF ThreadInv
<1> DEFINE u == creates[t]
<1>0. Main \in Threads /\ Idle \in Threads
  BY DEF Threads
<1>1. /\ current = t /\ pc[t] = "create" /\ Unblock(u)
      /\ creates' = [creates EXCEPT ![t] = None]
      /\ pc' = [pc EXCEPT ![t] = "run", ![u] = "run"]
      /\ UNCHANGED <<current, all_list, idle_thread, thread_ticks, idle_started>>
  BY DEF Launch
<1>2. /\ u \in Pages /\ u \in Threads /\ u # Main /\ u # Idle /\ u # None
      /\ status[u] = "blocked" /\ pc[u] = "new" /\ u \in all_list
      /\ \A v \in Threads : creates[v] = u => v = t
  <2>1. u \in Pages
    BY <1>1 DEF Places, TypeOK
  <2> QED
    BY <2>1 DEF PagesSafe, Threads
<1>3. /\ status[t] = "running" /\ u # t /\ t # Idle /\ creates[u] = None
  BY <1>1, <1>2 DEF ReadyExact, Places
<1> HIDE DEF u
<1>4. /\ ready' \in Seq(Threads)
      /\ status' = [status EXCEPT ![u] = "ready"]
      /\ status' \in [Threads -> Statuses]
      /\ ReadyExact'
  <2>1. u # idle_thread
    BY <1>2 DEF TypeOK
  <2> QED
    BY <1>1, <1>2, <2>1, UnblockExact
<1>5. TypeOK'
  BY <1>1, <1>2, <1>4 DEF TypeOK, PCs
<1>6. PagesSafe'
  <2>1. \A v \in Threads : status'[v] \in {"free", "dying"} <=> v \notin all_list'
    BY <1>1, <1>2, <1>4 DEF PagesSafe, TypeOK
  <2>2. \A v \in Threads : v \notin all_list' => v \notin InReady' /\ v # current'
    BY <1>1, <1>4, <2>1 DEF ReadyExact, PagesSafe
  <2>3. status'[Main] # "free"
    BY <1>0, <1>2, <1>4 DEF PagesSafe, TypeOK
  <2>4. ASSUME NEW v \in Threads, NEW w \in Threads, creates'[v] = w
        PROVE  /\ w \in all_list' /\ status'[w] = "blocked" /\ pc'[w] = "new"
               /\ \A x \in Threads : creates'[x] = w => x = v
    <3>1. v # t /\ creates[v] = w
      BY <1>1, <2>4 DEF TypeOK
    <3>2. /\ w \in all_list /\ status[w] = "blocked" /\ pc[w] = "new"
          /\ \A x \in Threads : creates[x] = w => x = v
      BY <3>1 DEF PagesSafe
    <3>3. w # u /\ w # t
      BY <1>2, <1>3, <3>1, <3>2
    <3> QED
      BY <1>1, <1>4, <3>2, <3>3 DEF TypeOK
  <2> QED
    BY <2>1, <2>2, <2>3, <2>4 DEF PagesSafe
<1>7. IdleSound'
  BY <1>0, <1>1, <1>2, <1>3 DEF IdleSound, IdleReady, NeverHaltsBusy, TypeOK, StartUp
<1>8. Places'
  BY <1>0, <1>1, <1>2, <1>3, <1>4 DEF Places, TypeOK, Threads
<1>9. StartUp'
  BY <1>0, <1>1, <1>2, <1>3, <1>4 DEF StartUp, TypeOK
<1> QED
  BY <1>4, <1>5, <1>6, <1>7, <1>8, <1>9

\* thread_unblock from another thread or an interrupt handler.
LEMMA SignalInv ==
  ASSUME ThreadInv, NEW t \in Threads, Signal(t) PROVE ThreadInv'
<1> USE DEF ThreadInv
<1>0. Main \in Threads /\ Idle \in Threads
  BY DEF Threads
<1>1. /\ pc[Main] # "boot" /\ status[t] = "blocked" /\ pc[t] \in {"run", "create"}
      /\ Unblock(t) /\ pc' = Resumed
      /\ UNCHANGED <<current, all_list, idle_thread, thread_ticks,
                     idle_started, creates>>
  BY DEF Signal, InterruptsOn, Waits
<1>2. t # Idle /\ t # idle_thread
  BY <1>1 DEF Places, TypeOK
<1>3. /\ ready' \in Seq(Threads)
      /\ status' = [status EXCEPT ![t] = "ready"]
      /\ status' \in [Threads -> Statuses]
      /\ ReadyExact'
  BY <1>1, <1>2, UnblockExact
<1>4. /\ pc' \in [Threads -> PCs]
      /\ \A v \in Threads \ {Idle} : pc'[v] = pc[v]
      /\ pc'[Idle] = IF current = Idle /\ pc[Idle] = "halt" THEN "loop"
                     ELSE pc[Idle]
  BY <1>0, <1>1 DEF Resumed, TypeOK, PCs
<1>5. TypeOK'
  BY <1>1, <1>3, <1>4 DEF TypeOK
<1>6. PagesSafe'
  <2>1. \A v \in Threads : status'[v] \in {"free", "dying"} <=> v \notin all_list'
    BY <1>1, <1>3 DEF PagesSafe, TypeOK
  <2>2. \A v \in Threads : v \notin all_list' => v \notin InReady' /\ v # current'
    BY <1>1, <1>3, <2>1 DEF ReadyExact, PagesSafe
  <2>3. status'[Main] # "free"
    BY <1>0, <1>3 DEF PagesSafe, TypeOK
  <2>4. ASSUME NEW v \in Threads, NEW w \in Threads, creates'[v] = w
        PROVE  /\ w \in all_list' /\ status'[w] = "blocked" /\ pc'[w] = "new"
               /\ \A x \in Threads : creates'[x] = w => x = v
    <3>1. /\ w \in all_list /\ status[w] = "blocked" /\ pc[w] = "new"
          /\ \A x \in Threads : creates[x] = w => x = v
      BY <1>1, <2>4 DEF PagesSafe
    <3>2. w # Idle /\ w # t
      BY <1>1, <2>4, <3>1 DEF TypeOK
    <3> QED
      BY <1>1, <1>3, <1>4, <3>1, <3>2 DEF TypeOK
  <2> QED
    BY <2>1, <2>2, <2>3, <2>4 DEF PagesSafe
<1>7. IdleSound'
  BY <1>0, <1>1, <1>4 DEF IdleSound, IdleReady, NeverHaltsBusy
<1>8. Places'
  BY <1>0, <1>1, <1>3, <1>4 DEF Places, TypeOK, Threads
<1>9. StartUp'
  BY <1>0, <1>1, <1>2, <1>3, <1>4 DEF StartUp, TypeOK
<1> QED
  BY <1>3, <1>5, <1>6, <1>7, <1>8, <1>9

\* Block, yield and exit.
LEMMA LeavesInv ==
  ASSUME ThreadInv, NEW t \in Threads, Block(t) \/ Yield(t) \/ thread_exit(t)
  PROVE  ThreadInv'
<1> USE DEF ThreadInv
<1>0. /\ t = current /\ pc[t] \in {"run", "create"} /\ UNCHANGED pc
      /\ pc \in [Threads -> PCs]
  BY DEF Block, Yield, thread_exit, TypeOK
<1>1. pc[Main] # "boot"
  BY <1>0 DEF StartUp
<1>2. CASE Block(t)
  BY <1>0, <1>1, <1>2, LeavesProcessor DEF Block
<1>3. CASE Yield(t)
  BY <1>0, <1>1, <1>3, LeavesProcessor DEF Yield, thread_yield, Yielded, Enqueued
<1>4. CASE thread_exit(t)
  BY <1>0, <1>1, <1>4, LeavesProcessor DEF thread_exit
<1> QED
  BY <1>2, <1>3, <1>4

\* The timer.
LEMMA TickInv == ASSUME ThreadInv, Tick PROVE ThreadInv'
<1> USE DEF ThreadInv
<1>0. Main \in Threads /\ Idle \in Threads
  BY DEF Threads
<1>1. /\ current \in Threads /\ pc[Main] # "boot" /\ pc' = Resumed
  BY DEF Tick, InterruptsOn, TypeOK
<1>2. /\ pc' \in [Threads -> PCs]
      /\ \A v \in Threads \ {Idle} : pc'[v] = pc[v]
      /\ pc'[Idle] = IF current = Idle /\ pc[Idle] = "halt" THEN "loop"
                     ELSE pc[Idle]
  BY <1>0, <1>1 DEF Resumed, TypeOK, PCs
<1>3. CASE SliceOver(thread_ticks + 1)
  <2>1. /\ Schedule(current, "ready", IF current # idle_thread
                                      THEN Append(ready, current) ELSE ready)
        /\ UNCHANGED <<all_list, idle_thread, idle_started, creates>>
    BY <1>3 DEF Tick, thread_yield, Yielded, Enqueued
  <2> QED
    BY <1>1, <1>2, <2>1, LeavesProcessor
<1>4. CASE ~SliceOver(thread_ticks + 1)
  <2>1. /\ thread_ticks' = thread_ticks + 1
        /\ UNCHANGED <<current, status, ready, all_list, idle_thread,
                       idle_started, creates>>
    BY <1>4 DEF Tick
  <2>2. TypeOK'
    BY <1>2, <2>1 DEF TypeOK
  <2>3. ReadyExact'
    BY <2>1 DEF ReadyExact, InReady
  <2>4. PagesSafe'
    <3>1. \A u \in Threads : pc[u] = "new" => pc'[u] = "new"
      BY <1>2
    <3> QED
      BY <2>1, <3>1 DEF PagesSafe, InReady
  <2>5. IdleSound'
    BY <1>0, <1>2, <2>1 DEF IdleSound, IdleReady, NeverHaltsBusy
  <2>6. Places'
    BY <1>0, <1>2, <2>1 DEF Places, Threads
  <2>7. StartUp'
    BY <1>0, <1>2, <2>1 DEF StartUp
  <2> QED
    BY <2>2, <2>3, <2>4, <2>5, <2>6, <2>7
<1> QED
  BY <1>3, <1>4

LEMMA NextThreadInv == ThreadInv /\ [Next]_vars => ThreadInv'
<1> SUFFICES ASSUME ThreadInv, [Next]_vars PROVE ThreadInv'
  OBVIOUS
<1>1. CASE Start \/ AwaitIdle
  BY <1>1, StartInv, AwaitIdleInv
<1>2. CASE IdleStep
  BY <1>2, IdleInitInv, IdleUpInv, IdleBlockInv DEF IdleStep
<1>3. CASE Tick
  BY <1>3, TickInv
<1>4. ASSUME NEW t \in Threads,
             Create(t) \/ Launch(t) \/ Block(t) \/ Yield(t) \/ thread_exit(t)
               \/ Signal(t)
      PROVE  ThreadInv'
  BY <1>4, CreateInv, LaunchInv, LeavesInv, SignalInv
<1>5. CASE UNCHANGED vars
  BY <1>5
  DEF vars, ThreadInv, TypeOK, ReadyExact, InReady, PagesSafe, IdleSound,
      IdleReady, NeverHaltsBusy, Places, StartUp
<1> QED
  BY <1>1, <1>2, <1>3, <1>4, <1>5 DEF Next

-----------------------------------------------------------------------------
THEOREM ThreadInvariant == Spec => []ThreadInv
  BY InitThreadInv, NextThreadInv, PTL DEF Spec

\* The ready list holds each ready thread once and nobody else, for any number
\* of threads, wherever the timer and interrupt handlers come in.
THEOREM ReadyAlwaysExact == Spec => []ReadyExact
  BY ThreadInvariant, PTL DEF ThreadInv

\* No page of a thread is used after the thread has exited, and a thread that
\* is being created is its creator's alone until it is unblocked.
THEOREM PagesAlwaysSafe == Spec => []PagesSafe
  BY ThreadInvariant, PTL DEF ThreadInv

\* There is always a thread to run, in the start-up as well, and the processor
\* halts only when no other thread is ready.
THEOREM IdleAlwaysSound == Spec => []IdleSound
  BY ThreadInvariant, PTL DEF ThreadInv
=============================================================================
