------------------------------- MODULE RwLock -------------------------------
(***************************************************************************)
(* The writer-preferring readers-writers lock of Pintos, threads/synch.c:  *)
(* four counters under a guard lock and two Mesa-style condition           *)
(* variables, used by threads that lock and unlock it over and over.       *)
(*                                                                         *)
(* pc[t] is where thread t is in rw_lock_acquire or rw_lock_release and in *)
(* the lock and condition functions they call.  What a thread does to the  *)
(* counters and queues in one stretch while it holds the guard is one      *)
(* step: nobody else looks at them (GuardHeld).                            *)
(***************************************************************************)
EXTENDS PintosSync

CONSTANT
    Guard           \* rw_lock->lock

ASSUME RwConstants == Locks = {Guard}

VARIABLES
    wants,          \* the argument of the call: "read" or "write"
    active,         \* AR and AW
    queued,         \* WR and WW
    conds           \* waiters of rw_lock->read and rw_lock->write

vars == <<syncVars, pc, wants, active, queued, conds>>
rwVars == <<wants, active, queued, conds>>

Kinds == {"read", "write"}

\* Calls of sema_down: the semaphore they wait for and where they lead.
GuardDown == [acq_down |-> "acq_hold", again_down |-> "again_hold",
              rel_down |-> "rel_hold"]
\* A plausible slip: a thread back from cond_wait is not counted out.
StillCounted == [acq_hold |-> "test", again_hold |-> "test", rel_hold |-> "leave"]

\* lock_acquire sets lock->holder.
Hold == [acq_hold |-> "test", again_hold |-> "woken", rel_hold |-> "leave"]

\* lock_release clears lock->holder, and then calls sema_up.
Clear == [wait_clear |-> "wait_up", acq_clear |-> "acq_up",
          rel_clear |-> "rel_up"]
GuardUp == [wait_up |-> "wait_down", acq_up |-> "in", rel_up |-> "out"]

\* Between lock_acquire and lock_release of the guard.
HoldingPCs == {"test", "woken", "leave", "bcast"} \cup DOMAIN Clear

Init == /\ SyncInit
        /\ wants = [t \in Threads |-> "read"]
        /\ active = [k \in Kinds |-> 0]
        /\ queued = [k \in Kinds |-> 0]
        /\ conds = [k \in Kinds |-> <<>>]

-----------------------------------------------------------------------------
\* Plausible slips, for the sensitivity checks.
IgnoreReaders(k) == active["write"] + (IF k = "read" THEN queued["write"] ELSE 0) > 0
IgnoreWaitingWriters(k) ==
    active["write"] + (IF k = "read" THEN 0 ELSE active["read"]) > 0
NotTheLastReader(k) == k = "write" /\ queued["read"] > 1

\* The loop conditions of rw_lock_acquire.
MustWait(k) == IF k = "read" THEN active["write"] + queued["write"] > 0
               ELSE active["read"] + active["write"] > 0

\* A thread calls rw_lock_acquire.
Call(t) == /\ pc[t] = "out"
           /\ \E k \in Kinds : wants' = [wants EXCEPT ![t] = k]
           /\ Goto(t, "acq_down")
           /\ UNCHANGED <<syncVars, active, queued, conds>>

\* sema_down of the guard.
TakeGuard(t) == /\ pc[t] \in DOMAIN GuardDown
                /\ \/ Pass(t, Guard) /\ Goto(t, GuardDown[pc[t]])
                   \/ Sleep(t, Guard) /\ UNCHANGED pc
                /\ UNCHANGED <<holder, rwVars>>

SetHolder(t) == /\ pc[t] \in DOMAIN Hold
                /\ holder' = [holder EXCEPT ![Guard] = t]
                /\ Goto(t, Hold[pc[t]])
                /\ UNCHANGED <<value, waiters, blocked, rwVars>>

ClearHolder(t) == /\ pc[t] \in DOMAIN Clear
                  /\ holder' = [holder EXCEPT ![Guard] = None]
                  /\ Goto(t, Clear[pc[t]])
                  /\ UNCHANGED <<value, waiters, blocked, rwVars>>

UpGuard(t) == /\ pc[t] \in DOMAIN GuardUp
              /\ Up(Guard)
              /\ Goto(t, GuardUp[pc[t]])
              /\ UNCHANGED <<holder, rwVars>>

\* The loop of rw_lock_acquire is done.
Enter(t) == /\ pc[t] = "test"
            /\ ~MustWait(wants[t])
            /\ active' = [active EXCEPT ![wants[t]] = @ + 1]
            /\ Goto(t, "acq_clear")
            /\ UNCHANGED <<syncVars, wants, queued, conds>>

\* The list of a condition when t has joined it.
Joined(t, k) == Append(conds[k], t)

\* The loop goes on: count, and cond_wait up to its lock_release.
Wait(t) == /\ pc[t] = "test"
           /\ MustWait(wants[t])
           /\ queued' = [queued EXCEPT ![wants[t]] = @ + 1]
           /\ value' = [value EXCEPT ![t] = 0]
           /\ conds' = [conds EXCEPT ![wants[t]] = Joined(t, wants[t])]
           /\ Goto(t, "wait_clear")
           /\ UNCHANGED <<waiters, blocked, holder, wants, active>>

\* sema_down of the semaphore on the stack of cond_wait.
AwaitSignal(t) == /\ pc[t] = "wait_down"
                  /\ \/ Pass(t, t) /\ Goto(t, "again_down")
                     \/ Sleep(t, t) /\ UNCHANGED pc
                  /\ UNCHANGED <<holder, rwVars>>

\* cond_wait has returned.
CountOut(t) == /\ pc[t] = "woken"
               /\ queued' = [queued EXCEPT ![wants[t]] = @ - 1]
               /\ Goto(t, "test")
               /\ UNCHANGED <<syncVars, wants, active, conds>>

\* The thread has the readers-writers lock, and then calls rw_lock_release.
Release(t) == /\ pc[t] = "in"
              /\ Goto(t, "rel_down")
              /\ UNCHANGED <<syncVars, rwVars>>

\* cond_signal.
Signal(k) == IF conds[k] = <<>>
             THEN UNCHANGED <<value, waiters, blocked, conds>>
             ELSE /\ Up(Head(conds[k]))
                  /\ conds' = [conds EXCEPT ![k] = Tail(@)]

\* When rw_lock_release signals a writer, n being AR and AW after its "--".
SignalsWriter(k, n) == /\ queued["write"] > 0
                       /\ k = "read" => n["read"] = 0

\* When it wakes the readers instead.
WakesReaders(k) == k = "write" /\ queued["read"] > 0

\* rw_lock_release under the guard, up to a cond_broadcast.
Leave(t) ==
    /\ pc[t] = "leave"
    /\ active' = [active EXCEPT ![wants[t]] = @ - 1]
    /\ IF SignalsWriter(wants[t], active')
       THEN Signal("write") /\ Goto(t, "rel_clear")
       ELSE /\ Goto(t, IF WakesReaders(wants[t]) THEN "bcast" ELSE "rel_clear")
            /\ UNCHANGED <<value, waiters, blocked, conds>>
    /\ UNCHANGED <<holder, wants, queued>>

\* The loop of cond_broadcast.
Broadcast(t) == /\ pc[t] = "bcast"
                /\ Signal("read")
                /\ Goto(t, IF Len(conds["read"]) > 1 THEN "bcast" ELSE "rel_clear")
                /\ UNCHANGED <<holder, wants, active, queued>>

Step(t) == \/ TakeGuard(t) \/ SetHolder(t) \/ ClearHolder(t) \/ UpGuard(t)
           \/ Enter(t) \/ Wait(t) \/ AwaitSignal(t) \/ CountOut(t)
           \/ Release(t) \/ Leave(t) \/ Broadcast(t)

Next == \E t \in Threads : Call(t) \/ Step(t)

\* A thread that is not blocked runs on: the ready list is first-in first-out
\* and the timer preempts whoever runs.  Inside the lock a thread goes on to
\* release it; nobody has to call rw_lock_acquire.
Spec == Init /\ [][Next]_vars /\ \A t \in Threads : WF_vars(Step(t))

-----------------------------------------------------------------------------
\* The assertions of lock_release, cond_wait and cond_signal: whoever works on
\* the counters holds the guard, and nobody else.
GuardHeld == \A t \in Threads :
    /\ pc[t] \in HoldingPCs <=> holder[Guard] = t
    /\ pc[t] \in HoldingPCs => value[Guard] = 0

\* The threads inside, as a reader or as a writer.
InsidePCs == {"acq_clear", "acq_up", "in", "rel_down", "rel_hold", "leave"}
Inside(k) == {t \in Threads : pc[t] \in InsidePCs /\ wants[t] = k}

WaitPCs == {"wait_clear", "wait_up", "wait_down", "again_down", "again_hold",
            "woken"}

\* AR, AW, WR and WW count the threads inside and the threads in cond_wait.
CountersExact == \A k \in Kinds :
    /\ active[k] = Cardinality(Inside(k))
    /\ queued[k] = Cardinality({t \in Threads : pc[t] \in WaitPCs /\ wants[t] = k})

\* What the lock rests on: nobody looks at a counter that another is changing,
\* no count is stale, and a wakeup finds its thread on the one list it sleeps on.
LockSound == GuardHeld /\ CountersExact /\ WaitersBlocked

RA == INSTANCE RwAbs WITH readers <- Inside("read"), writers <- Inside("write")
\* Readers and writers exclude each other and writers each other, however the
\* signals, the reacquisitions of the guard and newcomers overtake one another.
RefinesRw == RA!AbsSpec

\* "Writer-centric": once a writer waits, a writer is next to get in, readers
\* that keep coming notwithstanding.
WritersNext == queued["write"] > 0 ~> active["write"] > 0

\* No deadlock and no lost signal: once no new calls are made, those that have
\* been made return.
NoMoreCalls == <>[][\A t \in Threads : ~Call(t)]_vars
CallsReturn == NoMoreCalls => <>[](\A t \in Threads : pc[t] = "out")
-----------------------------------------------------------------------------
PCs == DOMAIN GuardDown \cup DOMAIN Hold \cup DOMAIN Clear \cup DOMAIN GuardUp
       \cup {"out", "in", "test", "woken", "leave", "bcast", "wait_down"}
TypeOK == /\ value \in [Sems -> Nat]
          /\ waiters \in [Sems -> Seq(Threads)]
          /\ blocked \subseteq Threads
          /\ holder \in [Locks -> Threads \cup {None}]
          /\ pc \in [Threads -> PCs]
          /\ wants \in [Threads -> Kinds]
          /\ active \in [Kinds -> Int]
          /\ queued \in [Kinds -> Int]
          /\ conds \in [Kinds -> Seq(Threads)]

\* Who has the guard's unit: longer than lock->holder says, on both sides.  There
\* is one unit, and one such thread, however often the guard is handed over.
UnitPCs == HoldingPCs \cup DOMAIN Hold \cup DOMAIN GuardUp
OneUnit == /\ value[Guard] <= 1
           /\ \A t \in Threads : pc[t] \in UnitPCs => value[Guard] = 0
           /\ \A t, u \in Threads : pc[t] \in UnitPCs /\ pc[u] \in UnitPCs => t = u

\* The inductive strengthening of LockSound.
RwInv == TypeOK /\ OneUnit /\ LockSound
=============================================================================
