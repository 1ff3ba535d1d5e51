-------------------------- MODULE PintosSync_proofs --------------------------
(***************************************************************************)
(* Proofs about the users of Pintos semaphores and locks, for every finite *)
(* set of threads.  The readers-writers lock: the guard is a lock, the     *)
(* counters are exact, a blocked thread is on one wait list, and the lock  *)
(* implements RwAbs.  The interrupt queue: a blocked thread is where its   *)
(* wakeup will look for it, no wakeup is missed, and the ring buffer       *)
(* implements QueueAbs.                                                    *)
(***************************************************************************)
EXTENDS RwLock, Intq, FiniteSetTheorems, TLAPS

LEMMA GuardIsSem ==
  /\ Guard \in Sems /\ Guard \in Locks /\ Guard \notin Threads
  /\ Sems = Threads \cup {Guard}
BY SyncConstants, RwConstants DEF Sems

\* The part of TypeOK that is about semaphores.
SyncTyped == /\ value \in [Sems -> Nat]
             /\ waiters \in [Sems -> Seq(Threads)]
             /\ blocked \subseteq Threads

-----------------------------------------------------------------------------
(* Wait lists: what sema_down and sema_up do to them. *)

LEMMA WaitersKept ==
  ASSUME WaitersBlocked, waiters' = waiters, blocked' = blocked
  PROVE  WaitersBlocked'
BY DEF WaitersBlocked, Waiting

LEMMA PassBlocked ==
  ASSUME SyncTyped, WaitersBlocked, NEW t \in Threads, NEW s \in Sems, Pass(t, s)
  PROVE  SyncTyped' /\ WaitersBlocked'
<1>1. /\ waiters' = waiters /\ blocked' = blocked
      /\ value' = [value EXCEPT ![s] = @ - 1] /\ value[s] > 0
  BY DEF Pass, CanPass
<1>2. SyncTyped'
  BY <1>1 DEF SyncTyped
<1> QED
  BY <1>1, <1>2, WaitersKept

OnceEach(s) == \A i, j \in DOMAIN waiters[s] : waiters[s][i] = waiters[s][j] => i = j

\* A wait list when a thread joins it ...
LEMMA Joins ==
  ASSUME SyncTyped, NEW s \in Sems, NEW t \in Threads,
         waiters' = [waiters EXCEPT ![s] = Append(@, t)]
  PROVE  /\ waiters' \in [Sems -> Seq(Threads)]
         /\ Waiting(s)' = Waiting(s) \cup {t}
         /\ \A r \in Sems : r # s => Waiting(r)' = Waiting(r)
         /\ OnceEach(s) /\ t \notin Waiting(s) => OnceEach(s)'
<1> DEFINE w == waiters[s]
<1>1. waiters'[s] = Append(w, t) /\ w \in Seq(Threads)
  BY DEF SyncTyped
<1>2. /\ DOMAIN w = 1 .. Len(w) /\ DOMAIN Append(w, t) = 1 .. Len(w) + 1
      /\ \A i \in 1 .. Len(w) : Append(w, t)[i] = w[i]
      /\ Append(w, t)[Len(w) + 1] = t
      /\ Len(w) \in Nat
  BY <1>1
<1>3. \A x \in Waiting(s)' : x \in Waiting(s) \cup {t}
  BY <1>1, <1>2 DEF Waiting
<1>4. \A x \in Waiting(s) \cup {t} : x \in Waiting(s)'
  BY <1>1, <1>2 DEF Waiting
<1>5. \A r \in Sems : r # s => Waiting(r)' = Waiting(r)
  BY DEF SyncTyped, Waiting
<1>6. waiters' \in [Sems -> Seq(Threads)]
  BY <1>1 DEF SyncTyped
<1>7. OnceEach(s) /\ t \notin Waiting(s) => OnceEach(s)'
  BY <1>1, <1>2 DEF OnceEach, Waiting
<1> QED
  BY <1>3, <1>4, <1>5, <1>6, <1>7

\* ... and when sema_up takes the first thread off it.
LEMMA Leaves ==
  ASSUME SyncTyped, NEW s \in Sems, OnceEach(s), waiters' = Popped(s)
  PROVE  /\ waiters' \in [Sems -> Seq(Threads)]
         /\ LetGo(s) \subseteq Waiting(s) /\ Waiting(s) \subseteq Threads
         /\ Waiting(s)' = Waiting(s) \ LetGo(s)
         /\ \A r \in Sems : r # s => Waiting(r)' = Waiting(r)
         /\ OnceEach(s)'
<1>0. Waiting(s) \subseteq Threads
  BY DEF Waiting, SyncTyped
<1>1. CASE waiters[s] = <<>>
  <2>1. waiters' = waiters /\ LetGo(s) = {}
    BY <1>1 DEF Popped, LetGo, SyncTyped
  <2> QED
    BY <1>0, <2>1 DEF Waiting, OnceEach, SyncTyped
<1>2. CASE waiters[s] # <<>>
  <2> DEFINE h == Head(waiters[s])
             n == Len(waiters[s])
  <2>1. /\ waiters[s] \in Seq(Threads) /\ n \in Nat /\ DOMAIN waiters[s] = 1 .. n
        /\ h = waiters[s][1] /\ 1 \in 1 .. n
        /\ Tail(waiters[s]) \in Seq(Threads)
        /\ DOMAIN Tail(waiters[s]) = 1 .. n - 1
        /\ \A i \in 1 .. n - 1 : Tail(waiters[s])[i] = waiters[s][i + 1]
    BY <1>2 DEF SyncTyped
  <2>2. /\ waiters' = [waiters EXCEPT ![s] = Tail(waiters[s])]
        /\ LetGo(s) = {h}
    BY <1>2 DEF Popped, LetGo, FirstWaiter, SyncTyped
  <2>3. waiters'[s] = Tail(waiters[s]) /\ h \in Waiting(s)
    BY <2>1, <2>2 DEF SyncTyped, Waiting
  <2>4. \A i \in 2 .. n : waiters[s][i] # h
    BY <2>1 DEF OnceEach
  <2>5. \A x \in Waiting(s)' : x \in Waiting(s) \ {h}
    BY <2>1, <2>3, <2>4 DEF Waiting
  <2>6. ASSUME NEW x \in Waiting(s), x # h PROVE x \in Waiting(s)'
    <3>1. PICK i \in 1 .. n : waiters[s][i] = x
      BY <2>1 DEF Waiting
    <3>2. i - 1 \in 1 .. n - 1 /\ Tail(waiters[s])[i - 1] = x
      BY <2>1, <2>6, <3>1
    <3> QED
      BY <2>1, <2>3, <3>2 DEF Waiting
  <2>7. OnceEach(s)'
    <3>1. ASSUME NEW i \in 1 .. n - 1, NEW j \in 1 .. n - 1,
                 Tail(waiters[s])[i] = Tail(waiters[s])[j]
          PROVE  i = j
      <4>1. /\ i + 1 \in 1 .. n /\ j + 1 \in 1 .. n
            /\ waiters[s][i + 1] = waiters[s][j + 1]
        BY <2>1, <3>1
      <4>2. i + 1 = j + 1
        BY <2>1, <4>1 DEF OnceEach
      <4> QED
        BY <4>2
    <3>2. waiters[s]' = Tail(waiters[s]) /\ DOMAIN waiters[s]' = 1 .. n - 1
      BY ONLY <2>1, <2>3
    <3> QED
      BY ONLY <3>1, <3>2 DEF OnceEach
  <2>8. \A r \in Sems : r # s => Waiting(r)' = Waiting(r)
    BY <2>2 DEF SyncTyped, Waiting
  <2>9. waiters' \in [Sems -> Seq(Threads)]
    BY <2>1, <2>2 DEF SyncTyped
  <2> QED
    BY <1>0, <2>2, <2>3, <2>5, <2>6, <2>7, <2>8, <2>9
<1> QED
  BY <1>1, <1>2

\* What WaitersBlocked says of the lists that a step does not touch.
LEMMA OneListChanged ==
  ASSUME SyncTyped, WaitersBlocked, NEW s \in Sems, OnceEach(s)', NEW f,
         waiters' = [waiters EXCEPT ![s] = f]
  PROVE  \A r \in Sems : OnceEach(r)'
BY DEF SyncTyped, WaitersBlocked, OnceEach

LEMMA SleepBlocked ==
  ASSUME SyncTyped, WaitersBlocked, NEW t \in Threads, NEW s \in Sems, Sleep(t, s)
  PROVE  SyncTyped' /\ WaitersBlocked'
<1>1. /\ waiters' = [waiters EXCEPT ![s] = Append(@, t)]
      /\ t \notin blocked /\ blocked' = blocked \cup {t} /\ UNCHANGED value
  BY DEF Sleep
<1>2. \A r \in Sems : t \notin Waiting(r)
  BY <1>1 DEF WaitersBlocked
<1>3. OnceEach(s)
  BY DEF WaitersBlocked, OnceEach
<1>4. /\ waiters' \in [Sems -> Seq(Threads)]
      /\ Waiting(s)' = Waiting(s) \cup {t}
      /\ \A r \in Sems : r # s => Waiting(r)' = Waiting(r)
      /\ OnceEach(s)'
  BY <1>1, <1>2, <1>3, Joins
<1>5. \A r \in Sems : OnceEach(r)'
  BY <1>1, <1>4, OneListChanged
<1>6. \A q, r \in Sems : q # r => Waiting(q)' \cap Waiting(r)' = {}
  <2> SUFFICES ASSUME NEW q \in Sems, NEW r \in Sems, q # r
               PROVE  Waiting(q)' \cap Waiting(r)' = {}
    OBVIOUS
  <2>1. Waiting(q) \cap Waiting(r) = {} /\ t \notin Waiting(q) /\ t \notin Waiting(r)
    BY <1>2 DEF WaitersBlocked
  <2>2. Waiting(q)' \subseteq Waiting(q) \cup {t} /\ (q # s => Waiting(q)' = Waiting(q))
    BY <1>4
  <2>3. Waiting(r)' \subseteq Waiting(r) \cup {t} /\ (r # s => Waiting(r)' = Waiting(r))
    BY <1>4
  <2> QED BY <2>1, <2>2, <2>3
<1>7. blocked' = UNION {Waiting(r)' : r \in Sems}
  BY <1>1, <1>4 DEF WaitersBlocked
<1> QED
  BY <1>1, <1>4, <1>5, <1>6, <1>7 DEF SyncTyped, WaitersBlocked, OnceEach

LEMMA UpBlocked ==
  ASSUME SyncTyped, WaitersBlocked, NEW s \in Sems, Up(s)
  PROVE  SyncTyped' /\ WaitersBlocked'
<1>1. /\ waiters' = Popped(s) /\ blocked' = blocked \ LetGo(s)
      /\ value' = [value EXCEPT ![s] = @ + 1]
  BY DEF Up
<1>2. OnceEach(s)
  BY DEF WaitersBlocked, OnceEach
<1>3. /\ waiters' \in [Sems -> Seq(Threads)]
      /\ LetGo(s) \subseteq Waiting(s)
      /\ Waiting(s)' = Waiting(s) \ LetGo(s)
      /\ \A r \in Sems : r # s => Waiting(r)' = Waiting(r)
      /\ OnceEach(s)'
  BY <1>1, <1>2, Leaves
<1>4. \A r \in Sems : OnceEach(r)'
  BY <1>1, <1>3, OneListChanged DEF Popped
<1>5. \A q, r \in Sems : q # r => Waiting(q)' \cap Waiting(r)' = {}
  <2> SUFFICES ASSUME NEW q \in Sems, NEW r \in Sems, q # r
               PROVE  Waiting(q)' \cap Waiting(r)' = {}
    OBVIOUS
  <2>1. Waiting(q) \cap Waiting(r) = {}
    BY DEF WaitersBlocked
  <2>2. Waiting(q)' \subseteq Waiting(q) /\ Waiting(r)' \subseteq Waiting(r)
    BY <1>3
  <2> QED BY <2>1, <2>2
<1>6. blocked' = UNION {Waiting(r)' : r \in Sems}
  <2>1. blocked = UNION {Waiting(r) : r \in Sems}
    BY DEF WaitersBlocked
  <2>2. \A r \in Sems : r # s => Waiting(r) \cap LetGo(s) = {}
    BY <1>3 DEF WaitersBlocked
  <2>3. \A r \in Sems : Waiting(r)' = Waiting(r) \ LetGo(s)
    <3>1. \A r \in Sems : r # s => Waiting(r)' = Waiting(r)
      BY <1>3
    <3>2. Waiting(s)' = Waiting(s) \ LetGo(s)
      BY <1>3
    <3> QED BY ONLY <2>2, <3>1, <3>2
  <2>4. \A x : x \in blocked' <=> \E r \in Sems : x \in Waiting(r) /\ x \notin LetGo(s)
    BY ONLY <1>1, <2>1
  <2> QED BY ONLY <2>3, <2>4
<1>7. value' \in [Sems -> Nat]
  BY <1>1 DEF SyncTyped
<1>8. SyncTyped'
  BY <1>1, <1>3, <1>7 DEF SyncTyped
<1> QED
  BY <1>4, <1>5, <1>6, <1>8 DEF WaitersBlocked, OnceEach

-----------------------------------------------------------------------------
(* The guard: a step that neither takes nor gives it back. *)

LEMMA UnitKept ==
  ASSUME TypeOK, OneUnit, GuardHeld, NEW t \in Threads, NEW l \in PCs,
         pc' = [pc EXCEPT ![t] = l],
         pc[t] \in UnitPCs <=> l \in UnitPCs,
         pc[t] \in HoldingPCs <=> l \in HoldingPCs,
         value'[Guard] = value[Guard],
         holder' = holder
  PROVE  OneUnit' /\ GuardHeld'
<1>1. \A u \in Threads : /\ pc'[u] \in UnitPCs <=> pc[u] \in UnitPCs
                         /\ pc'[u] \in HoldingPCs <=> pc[u] \in HoldingPCs
  BY DEF TypeOK
<1> QED
  BY <1>1 DEF OneUnit, GuardHeld

(* The counters: who is counted, and steps that change no count. *)

WaitingIn(k) == {t \in Threads : pc[t] \in WaitPCs /\ wants[t] = k}

LEMMA FiniteCounts ==
  \A k : IsFiniteSet(Inside(k)) /\ IsFiniteSet(WaitingIn(k))
BY SyncConstants, FS_Subset DEF Inside, WaitingIn

LEMMA GuardCountsKept ==
  ASSUME OneUnit, GuardHeld, CountersExact,
         UNCHANGED <<value, holder, pc, wants, active, queued>>
  PROVE  OneUnit' /\ GuardHeld' /\ CountersExact'
<1>1. OneUnit' /\ GuardHeld'
  BY DEF OneUnit, GuardHeld
<1>2. \A k \in Kinds : Inside(k)' = Inside(k) /\ WaitingIn(k)' = WaitingIn(k)
  BY DEF Inside, WaitingIn
<1>3. CountersExact'
  BY <1>2 DEF CountersExact, WaitingIn
<1> QED
  BY <1>1, <1>3

LEMMA CountsKept ==
  ASSUME TypeOK, CountersExact, NEW t \in Threads, NEW l \in PCs,
         pc' = [pc EXCEPT ![t] = l],
         pc[t] \in InsidePCs <=> l \in InsidePCs,
         pc[t] \in WaitPCs <=> l \in WaitPCs,
         UNCHANGED <<wants, active, queued>>
  PROVE  CountersExact' /\ \A k \in Kinds : Inside(k)' = Inside(k)
<1>1. ASSUME NEW k \in Kinds
      PROVE  Inside(k)' = Inside(k) /\ WaitingIn(k)' = WaitingIn(k)
  BY DEF Inside, WaitingIn, TypeOK
<1> QED
  BY <1>1 DEF CountersExact, WaitingIn

-----------------------------------------------------------------------------
LEMMA InitRwInv == Init => RwInv
<1> SUFFICES ASSUME Init PROVE RwInv
  OBVIOUS
<1>1. TypeOK
  BY GuardIsSem, SyncConstants, RwConstants
     DEF Init, SyncInit, TypeOK, PCs, Kinds
<1>2. OneUnit /\ GuardHeld
  BY GuardIsSem, SyncConstants
     DEF Init, SyncInit, OneUnit, GuardHeld, UnitPCs, HoldingPCs, Hold, GuardUp, Clear
<1>3. CountersExact
  <2>1. \A k \in Kinds : Inside(k) = {} /\ WaitingIn(k) = {}
    BY DEF Init, SyncInit, Inside, InsidePCs, WaitingIn, WaitPCs
  <2> QED
    BY <2>1, FS_EmptySet DEF Init, CountersExact, WaitingIn
<1>4. WaitersBlocked
  BY DEF Init, SyncInit, WaitersBlocked, Waiting
<1> QED
  BY <1>1, <1>2, <1>3, <1>4 DEF RwInv, LockSound

-----------------------------------------------------------------------------
(* One lemma per action. *)

LEMMA CallInv == ASSUME RwInv, NEW t \in Threads, Call(t) PROVE RwInv'
<1> USE DEF RwInv, LockSound
<1>1. TypeOK'
  BY DEF Call, Goto, TypeOK, syncVars, PCs, GuardDown
<1>2. OneUnit' /\ GuardHeld'
  BY UnitKept
     DEF Call, Goto, syncVars, PCs, GuardDown, UnitPCs, HoldingPCs, Hold, GuardUp, Clear
<1>3. CountersExact'
  <2>1. ASSUME NEW k \in Kinds
        PROVE  Inside(k)' = Inside(k) /\ WaitingIn(k)' = WaitingIn(k)
    BY DEF Call, Goto, Inside, InsidePCs, WaitingIn, WaitPCs, TypeOK
  <2> QED
    BY <2>1 DEF Call, CountersExact, WaitingIn
<1>4. WaitersBlocked'
  BY DEF Call, syncVars, WaitersBlocked, Waiting
<1> QED
  BY <1>1, <1>2, <1>3, <1>4

LEMMA TakeGuardInv == ASSUME RwInv, NEW t \in Threads, TakeGuard(t) PROVE RwInv'
<1> USE DEF RwInv, LockSound
<1>1. SyncTyped' /\ WaitersBlocked'
  BY PassBlocked, SleepBlocked, GuardIsSem DEF TakeGuard, SyncTyped, TypeOK
<1>2. CASE Sleep(t, Guard) /\ UNCHANGED pc
  <2>1. TypeOK'
    BY <1>1, <1>2 DEF TakeGuard, rwVars, SyncTyped, TypeOK
  <2>2. UNCHANGED <<value, holder, pc, wants, active, queued>>
    BY <1>2 DEF TakeGuard, Sleep, rwVars
  <2>3. OneUnit' /\ GuardHeld' /\ CountersExact'
    BY <2>2, GuardCountsKept
  <2> QED
    BY <1>1, <2>1, <2>3
<1>3. CASE Pass(t, Guard) /\ Goto(t, GuardDown[pc[t]])
  <2> DEFINE l == GuardDown[pc[t]]
  <2>1. /\ l \in DOMAIN Hold
        /\ pc[t] \in {"acq_down", "again_down", "rel_down"}
        /\ l = IF pc[t] = "acq_down" THEN "acq_hold" ELSE
               IF pc[t] = "again_down" THEN "again_hold" ELSE "rel_hold"
    BY DEF TakeGuard, GuardDown, Hold
  <2>2. pc' = [pc EXCEPT ![t] = l] /\ UNCHANGED <<holder, rwVars>>
    BY <1>3 DEF TakeGuard, Goto
  <2>3. TypeOK'
    BY <1>1, <2>1, <2>2 DEF rwVars, SyncTyped, TypeOK, PCs
  <2>4. value[Guard] = 1 /\ value'[Guard] = 0
    BY <1>3, GuardIsSem DEF Pass, CanPass, OneUnit, TypeOK
  <2>5. \A u \in Threads : pc[u] \notin UnitPCs
    BY <2>4 DEF OneUnit
  <2>6. \A u \in Threads : pc'[u] \in UnitPCs => u = t
    BY <2>2, <2>5 DEF TypeOK
  <2>7. OneUnit'
    BY <2>4, <2>6 DEF OneUnit
  <2>8. \A u \in Threads : pc'[u] \in HoldingPCs <=> pc[u] \in HoldingPCs
    BY <2>1, <2>2 DEF HoldingPCs, Hold, Clear, TypeOK
  <2>9. GuardHeld'
    BY <2>2, <2>4, <2>8 DEF GuardHeld
  <2>10. CountersExact'
    <3>1. l \in PCs
      BY <2>1 DEF PCs
    <3> QED
      BY <2>1, <2>2, <3>1, CountsKept DEF InsidePCs, WaitPCs, rwVars
  <2> QED
    BY <1>1, <2>3, <2>7, <2>9, <2>10
<1> QED
  BY <1>2, <1>3 DEF TakeGuard

LEMMA SetHolderInv == ASSUME RwInv, NEW t \in Threads, SetHolder(t) PROVE RwInv'
<1> USE DEF RwInv, LockSound
<1> DEFINE l == Hold[pc[t]]
<1>1. /\ pc[t] \in DOMAIN Hold /\ l \in {"test", "woken", "leave"}
      /\ l \in HoldingPCs /\ l \in UnitPCs /\ l \in PCs /\ pc[t] \in UnitPCs
      /\ pc[t] \in InsidePCs <=> l \in InsidePCs
      /\ pc[t] \in WaitPCs <=> l \in WaitPCs
  BY DEF SetHolder, Hold, HoldingPCs, UnitPCs, PCs, InsidePCs, WaitPCs
<1>2. /\ holder' = [holder EXCEPT ![Guard] = t]
      /\ pc' = [pc EXCEPT ![t] = l]
      /\ UNCHANGED <<value, waiters, blocked, wants, active, queued, conds>>
  BY DEF SetHolder, Goto, rwVars
<1>3. TypeOK'
  BY <1>1, <1>2, GuardIsSem DEF TypeOK
<1>4. \A u \in Threads : pc'[u] \in UnitPCs <=> pc[u] \in UnitPCs
  BY <1>1, <1>2 DEF TypeOK
<1>5. OneUnit'
  BY <1>2, <1>4 DEF OneUnit
<1>6. \A u \in Threads : pc'[u] \in HoldingPCs <=> u = t
  BY <1>1, <1>2 DEF TypeOK, OneUnit, UnitPCs
<1>7. GuardHeld'
  BY <1>1, <1>2, <1>6, GuardIsSem DEF GuardHeld, OneUnit, TypeOK
<1>8. CountersExact'
  BY <1>1, <1>2, CountsKept
<1>9. WaitersBlocked'
  BY <1>2 DEF WaitersBlocked, Waiting
<1> QED
  BY <1>3, <1>5, <1>7, <1>8, <1>9

LEMMA ClearHolderInv == ASSUME RwInv, NEW t \in Threads, ClearHolder(t) PROVE RwInv'
<1> USE DEF RwInv, LockSound
<1> DEFINE l == Clear[pc[t]]
<1>1. /\ pc[t] \in DOMAIN Clear /\ l \in DOMAIN GuardUp
      /\ l \notin HoldingPCs /\ l \in UnitPCs /\ l \in PCs /\ pc[t] \in UnitPCs
      /\ pc[t] \in HoldingPCs
      /\ pc[t] \in InsidePCs <=> l \in InsidePCs
      /\ pc[t] \in WaitPCs <=> l \in WaitPCs
  BY DEF ClearHolder, Clear, GuardUp, HoldingPCs, UnitPCs, PCs, InsidePCs, WaitPCs
<1>2. /\ holder' = [holder EXCEPT ![Guard] = None]
      /\ pc' = [pc EXCEPT ![t] = l]
      /\ UNCHANGED <<value, waiters, blocked, wants, active, queued, conds>>
  BY DEF ClearHolder, Goto, rwVars
<1>3. TypeOK'
  BY <1>1, <1>2, GuardIsSem DEF TypeOK
<1>4. \A u \in Threads : pc'[u] \in UnitPCs <=> pc[u] \in UnitPCs
  BY <1>1, <1>2 DEF TypeOK
<1>5. OneUnit'
  BY <1>2, <1>4 DEF OneUnit
<1>6. \A u \in Threads : pc'[u] \notin HoldingPCs
  BY <1>1, <1>2 DEF TypeOK, OneUnit, UnitPCs
<1>7. GuardHeld'
  BY <1>2, <1>6, GuardIsSem, SyncConstants DEF GuardHeld, TypeOK
<1>8. CountersExact'
  BY <1>1, <1>2, CountsKept
<1>9. WaitersBlocked'
  BY <1>2 DEF WaitersBlocked, Waiting
<1> QED
  BY <1>3, <1>5, <1>7, <1>8, <1>9

LEMMA UpGuardInv == ASSUME RwInv, NEW t \in Threads, UpGuard(t) PROVE RwInv'
<1> USE DEF RwInv, LockSound
<1> DEFINE l == GuardUp[pc[t]]
<1>1. /\ pc[t] \in DOMAIN GuardUp /\ l \in {"wait_down", "in", "out"}
      /\ l \notin HoldingPCs /\ l \notin UnitPCs /\ l \in PCs /\ pc[t] \in UnitPCs
      /\ pc[t] \notin HoldingPCs
      /\ pc[t] \in InsidePCs <=> l \in InsidePCs
      /\ pc[t] \in WaitPCs <=> l \in WaitPCs
  BY DEF UpGuard, Clear, GuardUp, Hold, HoldingPCs, UnitPCs, PCs, InsidePCs, WaitPCs
<1>2. pc' = [pc EXCEPT ![t] = l] /\ UNCHANGED <<holder, rwVars>> /\ Up(Guard)
  BY DEF UpGuard, Goto
<1>3. SyncTyped' /\ WaitersBlocked'
  BY <1>2, UpBlocked, GuardIsSem DEF SyncTyped, TypeOK
<1>4. TypeOK'
  BY <1>1, <1>2, <1>3 DEF TypeOK, SyncTyped, rwVars
<1>5. value'[Guard] = 1
  BY <1>1, <1>2, GuardIsSem DEF Up, OneUnit, TypeOK
<1>6. \A u \in Threads : pc'[u] \notin UnitPCs
  BY <1>1, <1>2 DEF TypeOK, OneUnit
<1>7. OneUnit'
  BY <1>5, <1>6 DEF OneUnit
<1>8. \A u \in Threads : /\ pc'[u] \in HoldingPCs <=> pc[u] \in HoldingPCs
                         /\ pc'[u] \notin HoldingPCs
  BY <1>1, <1>2, <1>6 DEF TypeOK, UnitPCs
<1>9. GuardHeld'
  BY <1>2, <1>8 DEF GuardHeld
<1>10. CountersExact'
  BY <1>1, <1>2, CountsKept DEF rwVars
<1> QED
  BY <1>3, <1>4, <1>7, <1>9, <1>10

\* The rest of the actions keep the guard where it is; each says where it goes.
LEMMA EnterInv ==
  ASSUME RwInv, NEW t \in Threads, Enter(t), NEW w \in Kinds, w = wants[t]
  PROVE  /\ RwInv'
         /\ Inside(w)' = Inside(w) \cup {t}
         /\ \A k \in Kinds \ {w} : Inside(k)' = Inside(k)
         /\ t \notin Inside(w)
<1> USE DEF RwInv, LockSound
<1>1. /\ pc[t] = "test" /\ pc' = [pc EXCEPT ![t] = "acq_clear"]
      /\ active' = [active EXCEPT ![wants[t]] = @ + 1]
      /\ UNCHANGED <<value, waiters, blocked, holder, wants, queued, conds>>
  BY DEF Enter, Goto, syncVars
<1>2. TypeOK'
  BY <1>1 DEF TypeOK, PCs, Clear
<1>3. OneUnit' /\ GuardHeld'
  BY <1>1, UnitKept DEF PCs, UnitPCs, HoldingPCs, Clear
<1>4. /\ Inside(w)' = Inside(w) \cup {t} /\ t \notin Inside(w)
      /\ \A k \in Kinds \ {w} : Inside(k)' = Inside(k)
  BY <1>1 DEF Inside, InsidePCs, TypeOK
<1>5. \A k \in Kinds : WaitingIn(k)' = WaitingIn(k)
  BY <1>1 DEF WaitingIn, WaitPCs, TypeOK
<1>6. Cardinality(Inside(w) \cup {t}) = Cardinality(Inside(w)) + 1
  BY <1>4, FiniteCounts, FS_AddElement
<1>7. CountersExact'
  <2> SUFFICES ASSUME NEW k \in Kinds
               PROVE  /\ active'[k] = Cardinality(Inside(k)')
                      /\ queued'[k] = Cardinality(WaitingIn(k)')
    BY DEF CountersExact, WaitingIn
  <2>1. active[k] = Cardinality(Inside(k)) /\ queued[k] = Cardinality(WaitingIn(k))
    BY DEF CountersExact, WaitingIn
  <2>2. CASE k = w
    BY <1>1, <1>4, <1>5, <1>6, <2>1, <2>2 DEF TypeOK
  <2>3. CASE k # w
    BY <1>1, <1>4, <1>5, <2>1, <2>3 DEF TypeOK
  <2> QED
    BY <2>2, <2>3
<1>8. WaitersBlocked'
  BY <1>1, WaitersKept
<1> QED
  BY <1>2, <1>3, <1>4, <1>7, <1>8

LEMMA WaitInv == ASSUME RwInv, NEW t \in Threads, Wait(t) PROVE RwInv'
<1> USE DEF RwInv, LockSound
<1>1. /\ pc[t] = "test" /\ pc' = [pc EXCEPT ![t] = "wait_clear"]
      /\ queued' = [queued EXCEPT ![wants[t]] = @ + 1]
      /\ value' = [value EXCEPT ![t] = 0]
      /\ conds' = [conds EXCEPT ![wants[t]] = Append(conds[wants[t]], t)]
      /\ UNCHANGED <<waiters, blocked, holder, wants, active>>
  BY DEF Wait, Goto, Joined
<1>2. TypeOK'
  BY <1>1, GuardIsSem DEF TypeOK, PCs, Clear
<1>3. value'[Guard] = value[Guard]
  BY <1>1, GuardIsSem DEF TypeOK
<1>4. OneUnit' /\ GuardHeld'
  BY <1>1, <1>3, UnitKept DEF PCs, UnitPCs, HoldingPCs, Clear
<1>5. /\ WaitingIn(wants[t])' = WaitingIn(wants[t]) \cup {t}
      /\ t \notin WaitingIn(wants[t])
      /\ \A k \in Kinds \ {wants[t]} : WaitingIn(k)' = WaitingIn(k)
  BY <1>1 DEF WaitingIn, WaitPCs, TypeOK
<1>6. \A k \in Kinds : Inside(k)' = Inside(k)
  BY <1>1 DEF Inside, InsidePCs, TypeOK
<1>7. Cardinality(WaitingIn(wants[t]) \cup {t}) = Cardinality(WaitingIn(wants[t])) + 1
  BY <1>5, FiniteCounts, FS_AddElement
<1>8. CountersExact'
  <2> SUFFICES ASSUME NEW k \in Kinds
               PROVE  /\ active'[k] = Cardinality(Inside(k)')
                      /\ queued'[k] = Cardinality(WaitingIn(k)')
    BY DEF CountersExact, WaitingIn
  <2>1. active[k] = Cardinality(Inside(k)) /\ queued[k] = Cardinality(WaitingIn(k))
    BY DEF CountersExact, WaitingIn
  <2>2. CASE k = wants[t]
    BY <1>1, <1>5, <1>6, <1>7, <2>1, <2>2 DEF TypeOK
  <2>3. CASE k # wants[t]
    BY <1>1, <1>5, <1>6, <2>1, <2>3 DEF TypeOK
  <2> QED
    BY <2>2, <2>3
<1>9. WaitersBlocked'
  BY <1>1, WaitersKept
<1> QED
  BY <1>2, <1>4, <1>8, <1>9

LEMMA AwaitSignalInv == ASSUME RwInv, NEW t \in Threads, AwaitSignal(t) PROVE RwInv'
<1> USE DEF RwInv, LockSound
<1>1. SyncTyped' /\ WaitersBlocked'
  BY PassBlocked, SleepBlocked, GuardIsSem DEF AwaitSignal, SyncTyped, TypeOK
<1>2. CASE Sleep(t, t) /\ UNCHANGED pc
  <2>1. TypeOK'
    BY <1>1, <1>2 DEF AwaitSignal, rwVars, SyncTyped, TypeOK
  <2>2. UNCHANGED <<value, holder, pc, wants, active, queued>>
    BY <1>2 DEF AwaitSignal, Sleep, rwVars
  <2>3. OneUnit' /\ GuardHeld' /\ CountersExact'
    BY <2>2, GuardCountsKept
  <2> QED
    BY <1>1, <2>1, <2>3
<1>3. CASE Pass(t, t) /\ Goto(t, "again_down")
  <2>1. /\ pc[t] = "wait_down" /\ pc' = [pc EXCEPT ![t] = "again_down"]
        /\ UNCHANGED <<holder, wants, active, queued, conds>>
    BY <1>3 DEF AwaitSignal, Goto, rwVars
  <2>2. value'[Guard] = value[Guard]
    BY <1>3, GuardIsSem DEF Pass, TypeOK
  <2>3. TypeOK'
    BY <1>1, <2>1 DEF TypeOK, SyncTyped, PCs, GuardDown
  <2>4. OneUnit' /\ GuardHeld'
    BY <2>1, <2>2, UnitKept DEF PCs, GuardDown, UnitPCs, HoldingPCs, Clear, Hold, GuardUp
  <2>5. CountersExact'
    BY <2>1, CountsKept DEF PCs, GuardDown, InsidePCs, WaitPCs
  <2> QED
    BY <1>1, <2>3, <2>4, <2>5
<1> QED
  BY <1>2, <1>3 DEF AwaitSignal

LEMMA CountOutInv == ASSUME RwInv, NEW t \in Threads, CountOut(t) PROVE RwInv'
<1> USE DEF RwInv, LockSound
<1>1. /\ pc[t] = "woken" /\ pc' = [pc EXCEPT ![t] = "test"]
      /\ queued' = [queued EXCEPT ![wants[t]] = @ - 1]
      /\ UNCHANGED <<value, waiters, blocked, holder, wants, active, conds>>
  BY DEF CountOut, Goto, syncVars
<1>2. TypeOK'
  BY <1>1 DEF TypeOK, PCs
<1>3. OneUnit' /\ GuardHeld'
  BY <1>1, UnitKept DEF PCs, UnitPCs, HoldingPCs, Clear
<1>4. /\ WaitingIn(wants[t])' = WaitingIn(wants[t]) \ {t}
      /\ t \in WaitingIn(wants[t])
      /\ \A k \in Kinds \ {wants[t]} : WaitingIn(k)' = WaitingIn(k)
  BY <1>1 DEF WaitingIn, WaitPCs, TypeOK
<1>5. \A k \in Kinds : Inside(k)' = Inside(k)
  BY <1>1 DEF Inside, InsidePCs, TypeOK
<1>6. Cardinality(WaitingIn(wants[t]) \ {t}) = Cardinality(WaitingIn(wants[t])) - 1
  BY <1>4, FiniteCounts, FS_RemoveElement
<1>7. CountersExact'
  <2> SUFFICES ASSUME NEW k \in Kinds
               PROVE  /\ active'[k] = Cardinality(Inside(k)')
                      /\ queued'[k] = Cardinality(WaitingIn(k)')
    BY DEF CountersExact, WaitingIn
  <2>1. active[k] = Cardinality(Inside(k)) /\ queued[k] = Cardinality(WaitingIn(k))
    BY DEF CountersExact, WaitingIn
  <2>2. CASE k = wants[t]
    BY <1>1, <1>4, <1>5, <1>6, <2>1, <2>2 DEF TypeOK
  <2>3. CASE k # wants[t]
    BY <1>1, <1>4, <1>5, <2>1, <2>3 DEF TypeOK
  <2> QED
    BY <2>2, <2>3
<1>8. WaitersBlocked'
  BY <1>1, WaitersKept
<1> QED
  BY <1>2, <1>3, <1>7, <1>8

LEMMA ReleaseInv ==
  ASSUME RwInv, NEW t \in Threads, Release(t)
  PROVE  RwInv' /\ \A k \in Kinds : Inside(k)' = Inside(k)
<1> USE DEF RwInv, LockSound
<1>1. /\ pc[t] = "in" /\ pc' = [pc EXCEPT ![t] = "rel_down"]
      /\ UNCHANGED <<syncVars, rwVars>>
  BY DEF Release, Goto
<1>2. TypeOK'
  BY <1>1 DEF TypeOK, PCs, GuardDown, syncVars, rwVars
<1>3. OneUnit' /\ GuardHeld'
  BY <1>1, UnitKept
     DEF PCs, GuardDown, UnitPCs, HoldingPCs, Clear, Hold, GuardUp, syncVars
<1>4. CountersExact' /\ \A k \in Kinds : Inside(k)' = Inside(k)
  BY <1>1, CountsKept DEF PCs, GuardDown, InsidePCs, WaitPCs, rwVars
<1>5. WaitersBlocked'
  BY <1>1 DEF WaitersBlocked, Waiting, syncVars
<1> QED
  BY <1>2, <1>3, <1>4, <1>5

\* cond_signal ups the semaphore of a thread, which is not the guard.
LEMMA SignalKeeps ==
  ASSUME TypeOK, WaitersBlocked, NEW k \in Kinds, Signal(k)
  PROVE  /\ SyncTyped' /\ WaitersBlocked' /\ value'[Guard] = value[Guard]
         /\ conds' \in [Kinds -> Seq(Threads)]
<1>1. CASE conds[k] = <<>>
  <2>1. UNCHANGED <<value, waiters, blocked, conds>>
    BY <1>1 DEF Signal
  <2> QED
    BY <2>1, WaitersKept DEF TypeOK, SyncTyped
<1>2. CASE conds[k] # <<>>
  <2>1. Head(conds[k]) \in Threads /\ Tail(conds[k]) \in Seq(Threads)
    BY <1>2 DEF TypeOK
  <2>2. Up(Head(conds[k])) /\ conds' = [conds EXCEPT ![k] = Tail(@)]
    BY <1>2 DEF Signal
  <2>3. SyncTyped' /\ WaitersBlocked'
    BY <2>1, <2>2, GuardIsSem, UpBlocked DEF TypeOK, SyncTyped
  <2>4. value'[Guard] = value[Guard]
    BY <2>1, <2>2, GuardIsSem DEF Up, TypeOK
  <2> QED
    BY <2>1, <2>2, <2>3, <2>4 DEF TypeOK
<1> QED
  BY <1>1, <1>2

LEMMA LeaveInv ==
  ASSUME RwInv, NEW t \in Threads, Leave(t), NEW w \in Kinds, w = wants[t]
  PROVE  /\ RwInv'
         /\ Inside(w)' = Inside(w) \ {t}
         /\ \A k \in Kinds \ {w} : Inside(k)' = Inside(k)
         /\ t \in Inside(w)
<1> USE DEF RwInv, LockSound
<1>1. PICK l \in {"rel_clear", "bcast"} : pc' = [pc EXCEPT ![t] = l]
  BY DEF Leave, Goto
<1>2. /\ pc[t] = "leave" /\ active' = [active EXCEPT ![wants[t]] = @ - 1]
      /\ UNCHANGED <<holder, wants, queued>>
      /\ Signal("write") \/ UNCHANGED <<value, waiters, blocked, conds>>
  BY DEF Leave
<1>3. /\ SyncTyped' /\ WaitersBlocked' /\ value'[Guard] = value[Guard]
      /\ conds' \in [Kinds -> Seq(Threads)]
  <2>1. CASE Signal("write")
    BY <2>1, SignalKeeps DEF Kinds
  <2>2. CASE UNCHANGED <<value, waiters, blocked, conds>>
    BY <2>2, WaitersKept DEF TypeOK, SyncTyped
  <2> QED
    BY <1>2, <2>1, <2>2
<1>4. TypeOK'
  <2>1. pc' \in [Threads -> PCs]
    BY <1>1 DEF TypeOK, PCs, Clear
  <2>2. active' \in [Kinds -> Int]
    BY <1>2 DEF TypeOK
  <2> QED
    BY <1>2, <1>3, <2>1, <2>2 DEF TypeOK, SyncTyped
<1>5. OneUnit' /\ GuardHeld'
  BY <1>1, <1>2, <1>3, UnitKept DEF PCs, UnitPCs, HoldingPCs, Clear
<1>6. /\ Inside(w)' = Inside(w) \ {t} /\ t \in Inside(w)
      /\ \A k \in Kinds \ {w} : Inside(k)' = Inside(k)
  BY <1>1, <1>2 DEF Inside, InsidePCs, TypeOK
<1>7. \A k \in Kinds : WaitingIn(k)' = WaitingIn(k)
  BY <1>1, <1>2 DEF WaitingIn, WaitPCs, TypeOK
<1>8. Cardinality(Inside(w) \ {t}) = Cardinality(Inside(w)) - 1
  BY <1>6, FiniteCounts, FS_RemoveElement
<1>9. CountersExact'
  <2> SUFFICES ASSUME NEW k \in Kinds
               PROVE  /\ active'[k] = Cardinality(Inside(k)')
                      /\ queued'[k] = Cardinality(WaitingIn(k)')
    BY DEF CountersExact, WaitingIn
  <2>1. active[k] = Cardinality(Inside(k)) /\ queued[k] = Cardinality(WaitingIn(k))
    BY DEF CountersExact, WaitingIn
  <2>2. CASE k = w
    BY <1>2, <1>6, <1>7, <1>8, <2>1, <2>2 DEF TypeOK
  <2>3. CASE k # w
    BY <1>2, <1>6, <1>7, <2>1, <2>3 DEF TypeOK
  <2> QED
    BY <2>2, <2>3
<1> QED
  BY <1>3, <1>4, <1>5, <1>6, <1>9

LEMMA BroadcastInv ==
  ASSUME RwInv, NEW t \in Threads, Broadcast(t)
  PROVE  RwInv' /\ \A k \in Kinds : Inside(k)' = Inside(k)
<1> USE DEF RwInv, LockSound
<1>1. PICK l \in {"rel_clear", "bcast"} : pc' = [pc EXCEPT ![t] = l]
  BY DEF Broadcast, Goto
<1>2. /\ pc[t] = "bcast" /\ Signal("read")
      /\ UNCHANGED <<holder, wants, active, queued>>
  BY DEF Broadcast
<1>3. /\ SyncTyped' /\ WaitersBlocked' /\ value'[Guard] = value[Guard]
      /\ conds' \in [Kinds -> Seq(Threads)]
  BY <1>2, SignalKeeps DEF Kinds
<1>4. TypeOK'
  BY <1>1, <1>2, <1>3 DEF TypeOK, SyncTyped, PCs, Clear
<1>5. OneUnit' /\ GuardHeld'
  BY <1>1, <1>2, <1>3, UnitKept DEF PCs, UnitPCs, HoldingPCs, Clear
<1>6. CountersExact' /\ \A k \in Kinds : Inside(k)' = Inside(k)
  BY <1>1, <1>2, CountsKept DEF PCs, Clear, InsidePCs, WaitPCs
<1> QED
  BY <1>3, <1>4, <1>5, <1>6

-----------------------------------------------------------------------------
LEMMA NextRwInv == RwInv /\ [Next]_vars => RwInv'
<1> SUFFICES ASSUME RwInv, [Next]_vars PROVE RwInv'
  OBVIOUS
<1>1. ASSUME NEW t \in Threads, Call(t) \/ Step(t) PROVE RwInv'
  <2>1. wants[t] \in Kinds
    BY DEF RwInv, TypeOK
  <2>2. Enter(t) \/ Leave(t) => RwInv'
    BY <2>1, EnterInv, LeaveInv
  <2> QED
    BY <1>1, <2>2, CallInv, TakeGuardInv, SetHolderInv, ClearHolderInv, UpGuardInv,
       WaitInv, AwaitSignalInv, CountOutInv, ReleaseInv, BroadcastInv DEF Step
<1>2. CASE UNCHANGED vars
  <2>1. UNCHANGED <<value, waiters, blocked, holder, pc, wants, active, queued, conds>>
    BY <1>2 DEF vars, syncVars
  <2>2. TypeOK'
    BY <2>1 DEF RwInv, TypeOK
  <2> QED
    BY <2>1, <2>2, GuardCountsKept, WaitersKept DEF RwInv, LockSound
<1> QED
  BY <1>1, <1>2 DEF Next

\* The inductive invariant of rw_lock_acquire and rw_lock_release.
THEOREM RwInvariant == Spec => []RwInv
<1> QED
  BY InitRwInv, NextRwInv, PTL DEF Spec

\* LockSound: whoever works on the counters holds the guard alone, AR, AW, WR and
\* WW are exact, and no thread is on two wait lists or on one twice.
THEOREM LockAlwaysSound == Spec => []LockSound
<1> QED
  BY RwInvariant, PTL DEF RwInv

-----------------------------------------------------------------------------
(* The lock implements RwAbs. *)

AbsStep == RA!AbsNext \/ UNCHANGED <<Inside("read"), Inside("write")>>

\* Steps that change no count.
LEMMA CountsStutter ==
  ASSUME RwInv, NEW t \in Threads,
         \/ Call(t) \/ TakeGuard(t) \/ SetHolder(t) \/ ClearHolder(t) \/ UpGuard(t)
         \/ Wait(t) \/ AwaitSignal(t) \/ CountOut(t) \/ Release(t) \/ Broadcast(t)
  PROVE  AbsStep
<1> SUFFICES \A k \in Kinds : Inside(k)' = Inside(k)
  BY DEF AbsStep, Kinds
<1>1. CASE Call(t)
  BY <1>1 DEF RwInv, TypeOK, Call, Goto, Inside, InsidePCs
<1>2. CASE TakeGuard(t)
  BY <1>2 DEF RwInv, TypeOK, TakeGuard, GuardDown, Goto, Inside, InsidePCs, rwVars
<1>3. CASE SetHolder(t)
  BY <1>3 DEF RwInv, TypeOK, SetHolder, Hold, Goto, Inside, InsidePCs, rwVars
<1>4. CASE ClearHolder(t)
  BY <1>4 DEF RwInv, TypeOK, ClearHolder, Clear, Goto, Inside, InsidePCs, rwVars
<1>5. CASE UpGuard(t)
  BY <1>5 DEF RwInv, TypeOK, UpGuard, GuardUp, Goto, Inside, InsidePCs, rwVars
<1>6. CASE Wait(t)
  BY <1>6 DEF RwInv, TypeOK, Wait, Goto, Inside, InsidePCs
<1>7. CASE AwaitSignal(t)
  BY <1>7 DEF RwInv, TypeOK, AwaitSignal, Goto, Inside, InsidePCs, rwVars
<1>8. CASE CountOut(t)
  BY <1>8 DEF RwInv, TypeOK, CountOut, Goto, Inside, InsidePCs
<1>9. CASE Release(t) \/ Broadcast(t)
  BY <1>9, ReleaseInv, BroadcastInv
<1> QED
  BY <1>1, <1>2, <1>3, <1>4, <1>5, <1>6, <1>7, <1>8, <1>9

\* A count of zero says that there is nobody.
LEMMA NobodyInside ==
  ASSUME RwInv, NEW k \in Kinds
  PROVE  active[k] \in Nat /\ queued[k] \in Nat /\ (active[k] = 0 => Inside(k) = {})
<1>1. active[k] = Cardinality(Inside(k)) /\ queued[k] = Cardinality(WaitingIn(k))
  BY DEF RwInv, LockSound, CountersExact, WaitingIn
<1> QED
  BY <1>1, FiniteCounts, FS_CardinalityType, FS_EmptySet

LEMMA EnterMaps == ASSUME RwInv, NEW t \in Threads, Enter(t) PROVE RA!AbsNext
<1>1. ~MustWait(wants[t]) /\ wants[t] \in Kinds
  BY DEF Enter, RwInv, TypeOK
<1>2. \A w \in Kinds : w = wants[t] =>
        /\ Inside(w)' = Inside(w) \cup {t}
        /\ \A k \in Kinds \ {w} : Inside(k)' = Inside(k)
        /\ t \notin Inside(w)
  BY EnterInv
<1>3. active["write"] = 0 /\ Inside("write") = {}
  BY <1>1, NobodyInside DEF MustWait, Kinds
<1>4. CASE wants[t] = "read"
  <2>1. RA!Read(t)
    BY <1>2, <1>3, <1>4 DEF RA!Read, Kinds
  <2> QED
    BY <2>1 DEF RA!AbsNext
<1>5. CASE wants[t] = "write"
  <2>1. Inside("read") = {}
    BY <1>1, <1>5, NobodyInside DEF MustWait, Kinds
  <2>2. RA!Write(t)
    BY <1>2, <1>3, <1>5, <2>1 DEF RA!Write, Kinds
  <2> QED
    BY <2>2 DEF RA!AbsNext
<1> QED
  BY <1>1, <1>4, <1>5 DEF Kinds

LEMMA LeaveMaps == ASSUME RwInv, NEW t \in Threads, Leave(t) PROVE RA!AbsNext
<1>1. PICK w \in Kinds : w = wants[t]
  BY DEF RwInv, TypeOK
<1>2. /\ Inside(w)' = Inside(w) \ {t}
      /\ \A k \in Kinds \ {w} : Inside(k)' = Inside(k)
      /\ t \in Inside(w)
  BY <1>1, LeaveInv
<1>3. \A k \in Kinds \ {w} : t \notin Inside(k)
  BY <1>1 DEF Inside
<1>4. \A k \in Kinds : Inside(k)' = Inside(k) \ {t}
  BY <1>2, <1>3
<1>5. t \in Inside("read") \cup Inside("write")
  BY <1>2 DEF Kinds
<1>6. RA!Leave(t)
  BY <1>4, <1>5 DEF RA!Leave, Kinds
<1> QED
  BY <1>6 DEF RA!AbsNext

\* RefinesRw: a writer is alone and readers are with readers only, however
\* wakeups, newcomers and the reacquisitions of the guard overtake one another.
THEOREM RwRefines == Spec => RefinesRw
<1>1. Init => RA!AbsInit
  BY DEF Init, SyncInit, RA!AbsInit, Inside, InsidePCs
<1>2. RwInv /\ [Next]_vars => AbsStep
  <2> SUFFICES ASSUME RwInv, [Next]_vars PROVE AbsStep
    OBVIOUS
  <2>1. ASSUME NEW t \in Threads, Call(t) \/ Step(t) PROVE AbsStep
    BY <2>1, CountsStutter, EnterMaps, LeaveMaps DEF Step, AbsStep
  <2>2. CASE UNCHANGED vars
    BY <2>2 DEF vars, AbsStep, Inside
  <2> QED
    BY <2>1, <2>2 DEF Next
<1>3. RwInv /\ [Next]_vars => [RA!AbsNext]_<<Inside("read"), Inside("write")>>
  BY <1>2 DEF AbsStep
<1> QED
  BY <1>1, <1>3, RwInvariant, PTL DEF Spec, RefinesRw, RA!AbsSpec

-----------------------------------------------------------------------------
(* The interrupt queue: what is blocked, and who wakes it. *)

LEMMA LockIsSem ==
  /\ Lock \in Sems /\ Lock \in Locks
  /\ None \notin Threads
  /\ \A t \in Threads : Needs(t) \in Conditions /\ Brings(t) \in Conditions
BY SyncConstants, IntqConstants DEF Sems, Needs, Brings, Conditions

\* Positions of the ring buffer, without the remainder.
LEMMA NextPosition ==
  ASSUME NEW p \in 0 .. BUFSIZE - 1
  PROVE  /\ next(p) = IF p + 1 = BUFSIZE THEN 0 ELSE p + 1
         /\ next(p) \in 0 .. BUFSIZE - 1
BY IntqConstants DEF next

LEMMA InitIntqInv == IntqInit => IntqInv
<1> SUFFICES ASSUME IntqInit PROVE IntqInv
  OBVIOUS
<1>1. IntqTypeOK
  BY LockIsSem, IntqConstants, SyncConstants DEF IntqInit, SyncInit, IntqTypeOK
<1>2. /\ value[Lock] = 1 /\ waiters[Lock] = <<>> /\ blocked = {}
      /\ holder[Lock] = None
      /\ \A t \in Threads : pc[t] = "out"
      /\ \A c \in Conditions : waiter[c] = None
  BY LockIsSem DEF IntqInit, SyncInit
<1>3. Waiting(Lock) = {}
  BY <1>2 DEF Waiting
<1>4. LockExact /\ NoMissedWakeup
  BY <1>2, LockIsSem DEF LockExact, NoMissedWakeup
<1>5. QueuedExact /\ BlockedExact
  BY <1>2, <1>3, LockIsSem DEF QueuedExact, BlockedExact
<1> QED
  BY <1>1, <1>4, <1>5 DEF IntqInv

\* What the actions do to the ring buffer keeps its variables in their ranges.
LEMMA GetTyped ==
  ASSUME IntqInv, Get
  PROVE  /\ tail' = next(tail) /\ UNCHANGED <<buf, head, given>>
         /\ tail' \in 0 .. BUFSIZE - 1 /\ last' \in Bytes
BY NextPosition DEF Get, IntqInv, IntqTypeOK

LEMMA PutTyped ==
  ASSUME IntqInv, Put
  PROVE  /\ head' = next(head) /\ UNCHANGED <<tail, last>>
         /\ head' \in 0 .. BUFSIZE - 1 /\ given' \in Bytes
         /\ buf' = [buf EXCEPT ![head] = given']
         /\ buf' \in [0 .. BUFSIZE - 1 -> Bytes]
BY NextPosition DEF Put, Written, IntqInv, IntqTypeOK

RingTyped == /\ buf \in [0 .. BUFSIZE - 1 -> Bytes]
             /\ head \in 0 .. BUFSIZE - 1 /\ tail \in 0 .. BUFSIZE - 1
             /\ given \in Bytes /\ last \in Bytes

LEMMA RingStaysTyped ==
  ASSUME IntqInv, Get \/ Put \/ UNCHANGED ringVars
  PROVE  RingTyped'
<1>1. RingTyped
  BY DEF IntqInv, IntqTypeOK, RingTyped
<1>2. CASE Get
  BY <1>1, <1>2, GetTyped DEF RingTyped
<1>3. CASE Put
  BY <1>1, <1>3, PutTyped DEF RingTyped
<1>4. CASE UNCHANGED ringVars
  BY <1>1, <1>4 DEF RingTyped, ringVars
<1> QED
  BY <1>2, <1>3, <1>4

\* signal() for c where the other condition holds: nobody waits for that one, and
\* the thread that waited for c is no longer blocked.
LEMMA SignalledInv ==
  ASSUME IntqInv, NEW c \in Conditions, NEW d \in Conditions, c # d, Holds(d),
         Get \/ Put,
         blocked' = blocked \ Signalled(c), waiter' = Reset(c),
         UNCHANGED <<value, waiters, holder, pc>>
  PROVE  IntqInv'
<1> USE DEF IntqInv
<1>1. waiter[d] = None
  BY DEF NoMissedWakeup
<1>2. /\ blocked' = blocked \ {waiter[c]}
      /\ waiter' \in [Conditions -> Threads \cup {None}]
      /\ \A e \in Conditions : waiter'[e] = None
  BY <1>1 DEF IntqTypeOK, Signalled, Reset, Conditions
<1>3. IntqTypeOK'
  BY <1>2, RingStaysTyped DEF IntqTypeOK, RingTyped
<1>4. LockExact' /\ QueuedExact'
  BY <1>2 DEF LockExact, QueuedExact, Waiting
<1>5. NoMissedWakeup'
  BY <1>2 DEF NoMissedWakeup
<1>6. Waiting(Lock)' = Waiting(Lock)
  BY DEF Waiting
<1>7. ASSUME NEW t \in Threads
      PROVE  t \in blocked' <=> t \in Waiting(Lock)
  <2>1. CASE t = waiter[c]
    <3>1. t \notin Waiting(Lock)
      BY <2>1, LockIsSem DEF BlockedExact, QueuedExact
    <3> QED
      BY <1>2, <2>1, <3>1
  <2>2. CASE t # waiter[c]
    <3>1. waiter[Needs(t)] # t
      BY <1>1, <2>2, LockIsSem DEF Conditions
    <3> QED
      BY <1>2, <2>2, <3>1 DEF BlockedExact
  <2> QED
    BY <2>1, <2>2
<1>8. value'[Lock] > 0 /\ waiters'[Lock] # <<>> =>
        \E t \in Threads : pc'[t] = "lock" /\ t \notin blocked'
  BY <1>2 DEF BlockedExact
<1>9. BlockedExact'
  BY <1>2, <1>6, <1>7, <1>8, LockIsSem DEF BlockedExact
<1> QED
  BY <1>3, <1>4, <1>5, <1>9

LEMMA AtOnceInv == ASSUME IntqInv, NEW t \in Threads, AtOnce(t) PROVE IntqInv'
<1>1. Needs(t) # Brings(t)
  BY DEF Needs, Brings
<1>2. Get \/ Put
  BY DEF AtOnce, GetOrPut
<1> QED
  BY <1>1, <1>2, LockIsSem, SignalledInv DEF AtOnce

LEMMA InterruptInv == ASSUME IntqInv, Interrupt PROVE IntqInv'
<1> DEFINE e == "not_empty"  f == "not_full"
<1>0. e \in Conditions /\ f \in Conditions /\ e # f
  BY DEF Conditions
<1>1. CASE Receive
  <2>1. Holds(f)
    BY <1>1 DEF Receive, Holds
  <2> QED
    BY <1>0, <1>1, <2>1, SignalledInv DEF Receive
<1>2. CASE Transmit
  <2>1. Holds(e)
    BY <1>2 DEF Transmit, Holds
  <2> QED
    BY <1>0, <1>2, <2>1, SignalledInv DEF Transmit
<1> QED
  BY <1>1, <1>2 DEF Interrupt

\* With the lock free, or held by a thread that is not blocked, nobody waits for
\* a condition.
LEMMA NobodyWaits ==
  ASSUME IntqInv, value[Lock] > 0
                  \/ \E t \in Threads : pc[t] = "wait" /\ t \notin blocked
  PROVE  \A c \in Conditions : waiter[c] = None
<1> SUFFICES ASSUME NEW c \in Conditions, waiter[c] # None PROVE FALSE
  OBVIOUS
<1> USE DEF IntqInv
<1>1. /\ waiter[c] \in Threads /\ holder[Lock] = waiter[c]
      /\ Needs(waiter[c]) = c /\ waiter[c] \in blocked
  BY DEF IntqTypeOK, BlockedExact, QueuedExact
<1>2. value[Lock] = 0
  BY <1>1, LockIsSem DEF LockExact
<1>3. PICK t \in Threads : pc[t] = "wait" /\ t \notin blocked
  BY <1>2
<1>4. holder[Lock] = t
  BY <1>3 DEF LockExact
<1> QED
  BY <1>1, <1>3, <1>4

LEMMA AcquireInv == ASSUME IntqInv, NEW t \in Threads, Acquire(t) PROVE IntqInv'
<1> USE DEF IntqInv
<1>1. /\ value[Lock] > 0 /\ pc[t] \in {"out", "lock"} /\ t \notin blocked
      /\ UNCHANGED <<waiters, ringVars>>
      /\ holder' = [holder EXCEPT ![Lock] = t]
      /\ value' = [value EXCEPT ![Lock] = 0]
  <2>1. pc[t] = "out" => t \notin blocked
    <3> SUFFICES ASSUME pc[t] = "out", t \in blocked PROVE FALSE
      OBVIOUS
    <3>1. t \notin Waiting(Lock)
      BY DEF QueuedExact
    <3>2. waiter[Needs(t)] = t
      BY <3>1 DEF BlockedExact
    <3> QED
      BY <3>2, LockIsSem DEF BlockedExact
  <2> QED
    BY <2>1 DEF Acquire, CanPass, EnterWait
<1>2. holder[Lock] = None /\ \A u \in Threads : pc[u] \notin {"wait", "panic"}
  BY <1>1, LockIsSem DEF LockExact
<1>3. \A c \in Conditions : waiter[c] = None
  BY <1>1, NobodyWaits
<1>4. Waiting(Lock)' = Waiting(Lock) /\ t \notin Waiting(Lock)
  BY <1>1 DEF Waiting, BlockedExact
<1>5. \/ /\ pc' = [pc EXCEPT ![t] = "panic"] /\ UNCHANGED <<blocked, waiter>>
      \/ /\ ~Holds(Needs(t))
         /\ pc' = [pc EXCEPT ![t] = "wait"] /\ blocked' = blocked \cup {t}
         /\ waiter' = [waiter EXCEPT ![Needs(t)] = t]
  BY DEF Acquire, EnterWait, Goto
<1>6. \A c \in Conditions : waiter'[c] \in {None, t}
                            /\ (waiter'[c] = t => c = Needs(t) /\ pc'[t] = "wait")
  BY <1>3, <1>5, LockIsSem DEF IntqTypeOK
<1>7. IntqTypeOK'
  <2>1. RingTyped'
    BY <1>1, RingStaysTyped
  <2>2. /\ value' \in [Sems -> Nat] /\ waiters' \in [Sems -> Seq(Threads)]
        /\ holder' \in [Locks -> Threads \cup {None}]
    BY <1>1 DEF IntqTypeOK
  <2>3. pc' \in [Threads -> {"out", "lock", "wait", "panic"}]
    BY <1>5 DEF IntqTypeOK
  <2>4. blocked' \subseteq Threads
    BY <1>5 DEF IntqTypeOK
  <2>5. waiter' \in [Conditions -> Threads \cup {None}]
    BY <1>5 DEF IntqTypeOK
  <2> QED
    BY <2>1, <2>2, <2>3, <2>4, <2>5 DEF IntqTypeOK, RingTyped
<1>8. LockExact'
  BY <1>1, <1>2, <1>5, LockIsSem DEF LockExact, IntqTypeOK
<1>9. QueuedExact'
  <2>1. \A u \in Waiting(Lock) : u \in Threads
    BY LockIsSem DEF Waiting, IntqTypeOK
  <2>2. \A u \in Waiting(Lock) : pc'[u] = "lock"
    BY <1>4, <1>5, <2>1 DEF QueuedExact, IntqTypeOK
  <2>3. \A c \in Conditions : waiter'[c] # None => Needs(waiter'[c]) = c
    BY <1>6
  <2> QED
    BY <1>1, <1>4, <2>2, <2>3 DEF QueuedExact
<1>10. NoMissedWakeup'
  <2>1. \A c \in Conditions : Holds(c)' = Holds(c)
    BY <1>1 DEF Holds, intq_empty, intq_full, next, ringVars
  <2> QED
    BY <1>3, <1>5, <1>6, <2>1 DEF NoMissedWakeup
<1>11. BlockedExact'
  <2>1. \A c \in Conditions : waiter'[c] # None =>
          pc'[waiter'[c]] = "wait" /\ holder'[Lock] = waiter'[c]
    BY <1>1, <1>6, LockIsSem DEF IntqTypeOK
  <2>2. ASSUME NEW u \in Threads
        PROVE  u \in blocked' <=> waiter'[Needs(u)] = u \/ u \in Waiting(Lock)'
    BY <1>1, <1>3, <1>4, <1>5, LockIsSem DEF BlockedExact, IntqTypeOK
  <2>3. value'[Lock] = 0
    BY <1>1, LockIsSem DEF IntqTypeOK
  <2> QED
    BY <2>1, <2>2, <2>3 DEF BlockedExact
<1> QED
  BY <1>7, <1>8, <1>9, <1>10, <1>11
LEMMA IntqTypedSync == IntqInv => SyncTyped
BY DEF IntqInv, IntqTypeOK, SyncTyped

LEMMA RingKept ==
  ASSUME UNCHANGED ringVars
  PROVE  \A c \in Conditions : Holds(c)' = Holds(c)
BY DEF Holds, intq_empty, intq_full, next, ringVars

LEMMA AwaitLockInv == ASSUME IntqInv, NEW t \in Threads, AwaitLock(t) PROVE IntqInv'
<1> USE DEF IntqInv
<1>1. /\ t \notin blocked /\ value[Lock] = 0 /\ pc[t] \in {"out", "lock"}
      /\ waiters' = [waiters EXCEPT ![Lock] = Append(@, t)]
      /\ blocked' = blocked \cup {t}
      /\ pc' = [pc EXCEPT ![t] = "lock"]
      /\ UNCHANGED <<value, holder, waiter>> /\ UNCHANGED ringVars
  BY LockIsSem DEF AwaitLock, Sleep, CanPass, Goto, IntqTypeOK
<1>2. t \notin Waiting(Lock) /\ waiter[Needs(t)] # t
  BY <1>1 DEF BlockedExact
<1>3. OnceEach(Lock)
  BY DEF QueuedExact, OnceEach
<1>4. /\ waiters' \in [Sems -> Seq(Threads)]
      /\ Waiting(Lock)' = Waiting(Lock) \cup {t}
      /\ OnceEach(Lock)'
  BY <1>1, <1>2, <1>3, LockIsSem, IntqTypedSync, Joins
<1>5. IntqTypeOK'
  <2>1. RingTyped'
    BY <1>1, RingStaysTyped
  <2> QED
    BY <1>1, <1>4, <2>1 DEF IntqTypeOK, RingTyped
<1>6. LockExact'
  BY <1>1 DEF LockExact, IntqTypeOK
<1>7. QueuedExact'
  <2>1. \A u \in Waiting(Lock) : u \in Threads
    BY LockIsSem DEF Waiting, IntqTypeOK
  <2>2. \A u \in Waiting(Lock)' : pc'[u] = "lock"
    BY <1>1, <1>4, <2>1 DEF QueuedExact, IntqTypeOK
  <2> QED
    BY <1>1, <1>4, <2>2 DEF QueuedExact, OnceEach
<1>8. NoMissedWakeup'
  BY <1>1, RingKept DEF NoMissedWakeup
<1>9. BlockedExact'
  <2>1. \A c \in Conditions : waiter[c] # None => waiter[c] \in Threads /\ waiter[c] # t
    BY <1>1 DEF BlockedExact, IntqTypeOK
  <2>2. \A c \in Conditions : waiter'[c] # None =>
          pc'[waiter'[c]] = "wait" /\ holder'[Lock] = waiter'[c]
    BY <1>1, <2>1 DEF BlockedExact, IntqTypeOK
  <2>3. ASSUME NEW u \in Threads
        PROVE  u \in blocked' <=> waiter'[Needs(u)] = u \/ u \in Waiting(Lock)'
    BY <1>1, <1>4 DEF BlockedExact
  <2> QED
    BY <1>1, <2>2, <2>3 DEF BlockedExact
<1> QED
  BY <1>5, <1>6, <1>7, <1>8, <1>9

\* lock_release by a thread in wait(): the first thread in lock_acquire is let
\* in, and it is another one.
LEMMA HandsOver ==
  ASSUME IntqInv, NEW t \in Threads, pc[t] = "wait", t \notin blocked,
         waiters' = Popped(Lock)
  PROVE  /\ waiters' \in [Sems -> Seq(Threads)]
         /\ Waiting(Lock)' = Waiting(Lock) \ LetGo(Lock)
         /\ LetGo(Lock) \subseteq Waiting(Lock) /\ Waiting(Lock) \subseteq Threads
         /\ OnceEach(Lock)'
         /\ t \notin Waiting(Lock)
         /\ holder[Lock] = t /\ value[Lock] = 0
         /\ \A c \in Conditions : waiter[c] = None
<1> USE DEF IntqInv
<1>1. OnceEach(Lock)
  BY DEF QueuedExact, OnceEach
<1>2. holder[Lock] = t /\ value[Lock] = 0
  BY LockIsSem DEF LockExact
<1>3. t \notin Waiting(Lock)
  BY DEF BlockedExact
<1>4. \A c \in Conditions : waiter[c] = None
  BY NobodyWaits
<1> QED
  BY <1>1, <1>2, <1>3, <1>4, LockIsSem, IntqTypedSync, Leaves

LEMMA CompleteInv == ASSUME IntqInv, NEW t \in Threads, Complete(t) PROVE IntqInv'
<1> USE DEF IntqInv
<1>1. /\ pc[t] = "wait" /\ t \notin blocked /\ waiters' = Popped(Lock)
      /\ Get \/ Put
      /\ value' = [value EXCEPT ![Lock] = @ + 1]
      /\ holder' = [holder EXCEPT ![Lock] = None]
      /\ blocked' = (blocked \ LetGo(Lock)) \ Signalled(Brings(t))
      /\ waiter' = Reset(Brings(t))
      /\ pc' = [pc EXCEPT ![t] = "out"]
  BY DEF Complete, GetOrPut, Goto
<1>2. /\ waiters' \in [Sems -> Seq(Threads)]
      /\ Waiting(Lock)' = Waiting(Lock) \ LetGo(Lock)
      /\ LetGo(Lock) \subseteq Waiting(Lock) /\ Waiting(Lock) \subseteq Threads
      /\ OnceEach(Lock)'
      /\ t \notin Waiting(Lock)
      /\ holder[Lock] = t /\ value[Lock] = 0
      /\ \A c \in Conditions : waiter[c] = None
  BY <1>1, HandsOver
<1>3. /\ waiter' \in [Conditions -> Threads \cup {None}]
      /\ \A c \in Conditions : waiter'[c] = None
  BY <1>1, <1>2 DEF Reset, IntqTypeOK
<1>4. blocked' = blocked \ LetGo(Lock)
  <2>1. Signalled(Brings(t)) = {None}
    BY <1>2, LockIsSem DEF Signalled
  <2> QED
    BY <1>1, <2>1, LockIsSem DEF IntqTypeOK
<1>5. value'[Lock] = 1 /\ holder'[Lock] = None
  BY <1>1, <1>2, LockIsSem DEF IntqTypeOK
<1>6. IntqTypeOK'
  <2>1. RingTyped'
    BY <1>1, RingStaysTyped
  <2>2. /\ value' \in [Sems -> Nat] /\ holder' \in [Locks -> Threads \cup {None}]
        /\ pc' \in [Threads -> {"out", "lock", "wait", "panic"}]
    BY <1>1, LockIsSem DEF IntqTypeOK
  <2> QED
    BY <1>2, <1>3, <1>4, <2>1, <2>2 DEF IntqTypeOK, RingTyped
<1>7. LockExact'
  BY <1>1, <1>2, <1>5, LockIsSem DEF LockExact, IntqTypeOK
<1>8. QueuedExact'
  <2>1. \A u \in Waiting(Lock)' : pc'[u] = "lock"
    BY <1>1, <1>2 DEF QueuedExact, IntqTypeOK
  <2> QED
    BY <1>2, <1>3, <2>1 DEF QueuedExact, OnceEach
<1>9. NoMissedWakeup'
  BY <1>3 DEF NoMissedWakeup
<1>10. BlockedExact'
  <2>1. ASSUME NEW u \in Threads
        PROVE  u \in blocked' <=> waiter'[Needs(u)] = u \/ u \in Waiting(Lock)'
    BY <1>2, <1>3, <1>4, LockIsSem DEF BlockedExact
  <2>2. ASSUME waiters'[Lock] # <<>>
        PROVE  \E u \in Threads : pc'[u] = "lock" /\ u \notin blocked'
    <3>1. waiters[Lock] # <<>>
      BY <1>1, <2>2, LockIsSem DEF Popped, IntqTypeOK
    <3>2. FirstWaiter(Lock) \in LetGo(Lock)
      BY <3>1 DEF LetGo
    <3>3. /\ FirstWaiter(Lock) \in Threads /\ FirstWaiter(Lock) \in Waiting(Lock)
          /\ FirstWaiter(Lock) # t /\ FirstWaiter(Lock) \notin blocked'
      BY <1>2, <1>4, <3>2
    <3>4. pc'[FirstWaiter(Lock)] = "lock"
      BY <1>1, <3>3 DEF QueuedExact, IntqTypeOK
    <3> QED
      BY <3>3, <3>4
  <2> QED
    BY <1>3, <2>1, <2>2 DEF BlockedExact
<1> QED
  BY <1>6, <1>7, <1>8, <1>9, <1>10

LEMMA WaitAgainInv == ASSUME IntqInv, NEW t \in Threads, WaitAgain(t) PROVE IntqInv'
<1> USE DEF IntqInv
<1>1. /\ pc[t] = "wait" /\ t \notin blocked /\ waiters' = Popped(Lock)
      /\ ~Holds(Needs(t))
      /\ blocked' = (blocked \ LetGo(Lock)) \cup {t}
      /\ waiter' = [waiter EXCEPT ![Needs(t)] = t]
      /\ UNCHANGED <<value, holder, pc>> /\ UNCHANGED ringVars
  BY DEF WaitAgain
<1>2. /\ waiters' \in [Sems -> Seq(Threads)]
      /\ Waiting(Lock)' = Waiting(Lock) \ LetGo(Lock)
      /\ LetGo(Lock) \subseteq Waiting(Lock) /\ Waiting(Lock) \subseteq Threads
      /\ OnceEach(Lock)'
      /\ t \notin Waiting(Lock)
      /\ holder[Lock] = t /\ value[Lock] = 0
      /\ \A c \in Conditions : waiter[c] = None
  BY <1>1, HandsOver
<1>3. /\ waiter' \in [Conditions -> Threads \cup {None}]
      /\ \A c \in Conditions : waiter'[c] = IF c = Needs(t) THEN t ELSE None
  BY <1>1, <1>2 DEF IntqTypeOK
<1>4. IntqTypeOK'
  <2>1. RingTyped'
    BY <1>1, RingStaysTyped
  <2> QED
    BY <1>1, <1>2, <1>3, <2>1 DEF IntqTypeOK, RingTyped
<1>5. LockExact'
  BY <1>1 DEF LockExact
<1>6. QueuedExact'
  BY <1>1, <1>2, <1>3 DEF QueuedExact, OnceEach
<1>7. NoMissedWakeup'
  BY <1>1, <1>3, RingKept DEF NoMissedWakeup
<1>8. BlockedExact'
  <2>1. ASSUME NEW u \in Threads
        PROVE  u \in blocked' <=> waiter'[Needs(u)] = u \/ u \in Waiting(Lock)'
    BY <1>1, <1>2, <1>3, LockIsSem DEF BlockedExact
  <2>2. \A c \in Conditions : waiter'[c] # None =>
          pc'[waiter'[c]] = "wait" /\ holder'[Lock] = waiter'[c]
    BY <1>1, <1>2, <1>3
  <2> QED
    BY <1>1, <1>2, <2>1, <2>2 DEF BlockedExact
<1> QED
  BY <1>4, <1>5, <1>6, <1>7, <1>8

LEMMA NextIntqInv == IntqInv /\ [IntqNext]_intqVars => IntqInv'
<1> SUFFICES ASSUME IntqInv, [IntqNext]_intqVars PROVE IntqInv'
  OBVIOUS
<1>1. ASSUME NEW t \in Threads, Begin(t) \/ Resume(t) PROVE IntqInv'
  BY <1>1, AtOnceInv, AcquireInv, AwaitLockInv, CompleteInv, WaitAgainInv
     DEF Begin, Resume
<1>2. CASE Interrupt
  BY <1>2, InterruptInv
<1>3. CASE UNCHANGED intqVars
  BY <1>3 DEF intqVars, ringVars, syncVars, IntqInv, IntqTypeOK, LockExact, QueuedExact,
     BlockedExact, NoMissedWakeup, Waiting, Holds, intq_empty, intq_full, next
<1> QED
  BY <1>1, <1>2, <1>3 DEF IntqNext

\* The inductive invariant of intq_getc, intq_putc and the handlers that call them.
THEOREM IntqInvariant == IntqSpec => []IntqInv
<1> QED
  BY InitIntqInv, NextIntqInv, PTL DEF IntqSpec

\* BlockedExact: the thread in *waiter is blocked in wait() and has the lock, every
\* other blocked thread is queued for the lock, and somebody is about to take a
\* free lock that others wait for; thread_unblock's assertion holds.
THEOREM BlockedAlwaysExact == IntqSpec => []BlockedExact
<1> QED
  BY IntqInvariant, PTL DEF IntqInv

\* NoMissedWakeup: no thread stays in wait() once its condition holds.
THEOREM WakeupNeverMissed == IntqSpec => []NoMissedWakeup
<1> QED
  BY IntqInvariant, PTL DEF IntqInv
-----------------------------------------------------------------------------
(* The interrupt queue implements QueueAbs. *)

\* The number of bytes in the buffer, and where the i-th is.
Size == IF head >= tail THEN head - tail ELSE head - tail + BUFSIZE
Slot(i) == IF tail + i - 1 < BUFSIZE THEN tail + i - 1 ELSE tail + i - 1 - BUFSIZE

ContentExact ==
  /\ Size \in 0 .. BUFSIZE - 1
  /\ \A i \in 1 .. Size : Slot(i) \in 0 .. BUFSIZE - 1 /\ Slot(i) # head
  /\ Content \in Seq(Bytes) /\ Len(Content) = Size
  /\ \A i \in 1 .. Size : Content[i] = buf[Slot(i)]

LEMMA ContentIs == RingTyped => ContentExact
<1> SUFFICES ASSUME RingTyped PROVE ContentExact
  OBVIOUS
<1>1. Size \in 0 .. BUFSIZE - 1 /\ (head - tail) % BUFSIZE = Size
  BY IntqConstants DEF RingTyped, Size
<1>2. ASSUME NEW i \in 1 .. Size
      PROVE  /\ Slot(i) \in 0 .. BUFSIZE - 1 /\ Slot(i) # head
             /\ (tail + i - 1) % BUFSIZE = Slot(i)
  BY IntqConstants DEF RingTyped, Size, Slot
<1>3. Content = [i \in 1 .. Size |-> buf[Slot(i)]]
  BY <1>1, <1>2 DEF Content
<1>4. \A i \in 1 .. Size : buf[Slot(i)] \in Bytes
  BY <1>2 DEF RingTyped
<1>5. Content \in Seq(Bytes) /\ Len(Content) = Size
  BY <1>1, <1>3, <1>4
<1> QED
  BY <1>1, <1>2, <1>3, <1>5 DEF ContentExact

LEMMA ContentStays == RingTyped' => ContentExact'
BY ContentIs, PTL

\* intq_getc takes the oldest byte ...
LEMMA GetMaps ==
  ASSUME IntqInv, Get, Holds("not_empty")
  PROVE  QA!Get
<1>1. RingTyped /\ RingTyped'
  BY RingStaysTyped DEF IntqInv, IntqTypeOK, RingTyped
<1>2. /\ last' = buf[tail] /\ tail' = next(tail) /\ UNCHANGED <<buf, head, given>>
      /\ head # tail
  BY DEF Get, Holds, intq_empty
<1>3. tail' = IF tail + 1 = BUFSIZE THEN 0 ELSE tail + 1
  BY <1>1, <1>2, NextPosition DEF RingTyped
<1>4. Size > 0 /\ Size' = Size - 1 /\ Slot(1) = tail
  BY <1>1, <1>2, <1>3, IntqConstants DEF RingTyped, Size, Slot
<1>5. \A i \in 1 .. Size - 1 : Slot(i)' = Slot(i + 1)
  BY <1>1, <1>2, <1>3, IntqConstants DEF RingTyped, Size, Slot
<1>6. /\ \A i \in 1 .. Size : Content[i] = buf[Slot(i)]
      /\ Size \in Nat
      /\ Content \in Seq(Bytes) /\ Len(Content) = Size
  BY <1>1, ContentIs DEF ContentExact
<1>7. /\ Content' \in Seq(Bytes) /\ Len(Content') = Size - 1
      /\ \A i \in 1 .. Size - 1 : Content'[i] = Content[i + 1]
  <2>1. /\ Content' \in Seq(Bytes) /\ Len(Content') = Size'
        /\ \A i \in 1 .. Size' : Content'[i] = buf'[Slot(i)']
    BY <1>1, ContentStays DEF ContentExact
  <2>2. \A i \in 1 .. Size - 1 : i \in 1 .. Size' /\ i + 1 \in 1 .. Size
    BY <1>4, <1>6
  <2> QED
    BY <1>2, <1>4, <1>5, <1>6, <2>1, <2>2
<1>8. Content # <<>> /\ Head(Content) = buf[tail]
  BY <1>4, <1>6
<1>9. Content' = Tail(Content)
  BY <1>4, <1>6, <1>7
<1> QED
  BY <1>2, <1>8, <1>9 DEF QA!Get

\* ... and intq_putc adds its byte as the youngest.
LEMMA PutMaps ==
  ASSUME IntqInv, Put, Holds("not_full")
  PROVE  QA!Put
<1>1. RingTyped /\ RingTyped'
  BY RingStaysTyped DEF IntqInv, IntqTypeOK, RingTyped
<1>2. /\ head' = next(head) /\ UNCHANGED <<tail, last>> /\ given' \in Bytes
      /\ buf' = [buf EXCEPT ![head] = given']
      /\ next(head) # tail
  BY PutTyped DEF Holds, intq_full
<1>3. head' = IF head + 1 = BUFSIZE THEN 0 ELSE head + 1
  BY <1>1, <1>2, NextPosition DEF RingTyped
<1>4. Size < BUFSIZE - 1 /\ Size' = Size + 1 /\ Slot(Size + 1) = head
  BY <1>1, <1>2, <1>3, IntqConstants DEF RingTyped, Size, Slot
<1>5. \A i : Slot(i)' = Slot(i)
  BY <1>2 DEF Slot
<1>6. /\ \A i \in 1 .. Size : Content[i] = buf[Slot(i)]
      /\ Size \in Nat
      /\ Content \in Seq(Bytes) /\ Len(Content) = Size
      /\ \A i \in 1 .. Size : Slot(i) \in 0 .. BUFSIZE - 1 /\ Slot(i) # head
  BY <1>1, ContentIs DEF ContentExact
<1>7. /\ Content' \in Seq(Bytes) /\ Len(Content') = Size + 1
      /\ \A i \in 1 .. Size + 1 : Content'[i] = buf'[Slot(i)]
  <2>1. /\ Content' \in Seq(Bytes) /\ Len(Content') = Size'
        /\ \A i \in 1 .. Size' : Content'[i] = buf'[Slot(i)']
    BY <1>1, ContentStays DEF ContentExact
  <2> QED
    BY <1>4, <1>5, <2>1
<1>8. \A i \in 1 .. Size : buf'[Slot(i)] = Content[i]
  BY <1>1, <1>2, <1>6 DEF RingTyped
<1>9. buf'[Slot(Size + 1)] = given'
  BY <1>1, <1>2, <1>4 DEF RingTyped
<1>10. Content' = Append(Content, given')
  BY <1>6, <1>7, <1>8, <1>9
<1> QED
  BY <1>2, <1>4, <1>6, <1>10 DEF QA!Put

\* The other steps leave the buffer alone.
LEMMA RingStutters ==
  ASSUME UNCHANGED ringVars
  PROVE  UNCHANGED <<Content, given, last>>
BY DEF ringVars, Content

\* RefinesQueue: bytes come out in the order they were put in, none lost and none
\* twice, whoever waits and whatever interrupts.
THEOREM IntqRefines == IntqSpec => RefinesQueue
<1>1. IntqInit => QA!AbsInit
  <2> SUFFICES ASSUME IntqInit PROVE QA!AbsInit
    OBVIOUS
  <2>1. RingTyped
    BY InitIntqInv DEF IntqInv, IntqTypeOK, RingTyped
  <2>2. Size = 0
    BY DEF IntqInit, Size
  <2>3. Content = <<>>
    BY <2>1, <2>2, ContentIs DEF ContentExact
  <2> QED
    BY <2>3 DEF IntqInit, QA!AbsInit
<1>2. IntqInv /\ [IntqNext]_intqVars => [QA!Put \/ QA!Get]_<<Content, given, last>>
  <2> SUFFICES ASSUME IntqInv, [IntqNext]_intqVars
               PROVE  QA!Put \/ QA!Get \/ UNCHANGED <<Content, given, last>>
    OBVIOUS
  <2>1. ASSUME NEW t \in Threads, AtOnce(t) \/ Complete(t) PROVE QA!Put \/ QA!Get
    BY <2>1, GetMaps, PutMaps DEF AtOnce, Complete, GetOrPut, Needs
  <2>2. ASSUME NEW t \in Threads, Acquire(t) \/ AwaitLock(t) \/ WaitAgain(t)
        PROVE  UNCHANGED <<Content, given, last>>
    BY <2>2, RingStutters DEF Acquire, AwaitLock, WaitAgain
  <2>3. CASE Interrupt
    <3>1. CASE Receive
      BY <3>1, PutMaps DEF Receive, Holds
    <3>2. CASE Transmit
      BY <3>2, GetMaps DEF Transmit, Holds
    <3> QED
      BY <2>3, <3>1, <3>2 DEF Interrupt
  <2>4. CASE UNCHANGED intqVars
    BY <2>4, RingStutters DEF intqVars
  <2> QED
    BY <2>1, <2>2, <2>3, <2>4 DEF IntqNext, Begin, Resume
<1> QED
  BY <1>1, <1>2, IntqInvariant, PTL DEF IntqSpec, RefinesQueue, QA!AbsSpec
=============================================================================
