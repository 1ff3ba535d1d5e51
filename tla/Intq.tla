-------------------------------- MODULE Intq --------------------------------
(***************************************************************************)
(* The interrupt queue of Pintos, devices/intq.c: a ring buffer shared by  *)
(* kernel threads and interrupt handlers.  A thread in intq_getc or        *)
(* intq_putc runs with interrupts off: others come in only where it        *)
(* blocks, in sema_down of the queue's lock and in wait().  What it does   *)
(* from one such place to the next is one step.                            *)
(***************************************************************************)
EXTENDS PintosSync

CONSTANTS
    Getters,        \* threads that call intq_getc
    Putters,        \* threads that call intq_putc
    Lock,           \* q->lock
    Bytes,
    BUFSIZE         \* INTQ_BUFSIZE

ASSUME IntqConstants == /\ Locks = {Lock}
                        /\ Threads = Getters \cup Putters
                        /\ Getters \cap Putters = {}
                        /\ BUFSIZE \in Nat \ {0, 1}

VARIABLES
    buf, head, tail,
    waiter,         \* q->not_empty and q->not_full
    given,          \* the byte that intq_putc was called with last
    last            \* the byte that intq_getc returned last

\* pc[t] is "out", or where t is blocked or has been: "lock" or "wait"; "panic"
\* after a failed assertion.

ringVars == <<buf, head, tail, given, last>>
intqVars == <<syncVars, ringVars, waiter, pc>>

next(pos) == (pos + 1) % BUFSIZE
intq_empty == head = tail
intq_full == next(head) = tail

Conditions == {"not_empty", "not_full"}
Holds(c) == IF c = "not_empty" THEN ~intq_empty ELSE ~intq_full

\* The condition that a thread waits for, and the one that it brings about.
Needs(t) == IF t \in Getters THEN "not_empty" ELSE "not_full"
SignalsItsOwn(t) == Needs(t)    \* a plausible slip
Brings(t) == IF t \in Getters THEN "not_full" ELSE "not_empty"

\* A failed assertion stops the machine.
Panicked == \E t \in Threads : pc[t] = "panic"

IntqInit == /\ SyncInit
        /\ buf \in [0 .. BUFSIZE - 1 -> Bytes]
        /\ head = 0 /\ tail = 0
        /\ given \in Bytes /\ last \in Bytes
        /\ waiter = [c \in Conditions |-> None]

-----------------------------------------------------------------------------
\* Plausible slips, for the sensitivity checks.
NotReset(c) == waiter
WrittenAhead(b) == [buf EXCEPT ![next(head)] = b]

\* signal(): the thread that waits for c is unblocked, and *waiter reset.
Signalled(c) == {waiter[c]}
Reset(c) == [waiter EXCEPT ![c] = None]

\* The buffer with b stored in it.
Written(b) == [buf EXCEPT ![head] = b]

\* intq_getc and intq_putc behind their loop, without the signal.
Get == /\ last' = buf[tail]
       /\ tail' = next(tail)
       /\ UNCHANGED <<buf, head, given>>

Put == /\ given' \in Bytes
       /\ buf' = Written(given')
       /\ head' = next(head)
       /\ UNCHANGED <<tail, last>>

GetOrPut(t) == IF t \in Getters THEN Get ELSE Put

\* A call that need not wait.
AtOnce(t) == /\ pc[t] = "out"
             /\ Holds(Needs(t))
             /\ GetOrPut(t)
             /\ blocked' = blocked \ Signalled(Brings(t))
             /\ waiter' = Reset(Brings(t))
             /\ UNCHANGED <<value, waiters, holder, pc>>

\* wait(), entered with the lock just taken: it asserts that the condition does
\* not hold, and blocks.
EnterWait(t) ==
    /\ holder' = [holder EXCEPT ![Lock] = t]
    /\ IF Holds(Needs(t))
       THEN Goto(t, "panic") /\ UNCHANGED <<blocked, waiter>>
       ELSE /\ Goto(t, "wait")
            /\ blocked' = blocked \cup {t}
            /\ waiter' = [waiter EXCEPT ![Needs(t)] = t]
    /\ value' = [value EXCEPT ![Lock] = 0]

\* lock_acquire, by a thread that has found its condition not to hold, or that
\* has been unblocked inside it: on to wait(), or ...
Acquire(t) == /\ \/ pc[t] = "out" /\ ~Holds(Needs(t))
                 \/ pc[t] = "lock" /\ t \notin blocked
              /\ CanPass(Lock)
              /\ EnterWait(t)
              /\ UNCHANGED <<waiters, ringVars>>

\* ... to sleep, for the first time or again.
AwaitLock(t) == /\ \/ pc[t] = "out" /\ ~Holds(Needs(t))
                   \/ pc[t] = "lock"
                /\ Sleep(t, Lock)
                /\ Goto(t, "lock")
                /\ UNCHANGED <<holder, ringVars, waiter>>

\* wait() returns, lock_release lets in the next thread, and the condition
\* holds: the call completes.
Complete(t) ==
    /\ pc[t] = "wait" /\ t \notin blocked
    /\ Holds(Needs(t))
    /\ GetOrPut(t)
    /\ value' = [value EXCEPT ![Lock] = @ + 1]
    /\ waiters' = Popped(Lock)
    /\ holder' = [holder EXCEPT ![Lock] = None]
    /\ blocked' = (blocked \ LetGo(Lock)) \ Signalled(Brings(t))
    /\ waiter' = Reset(Brings(t))
    /\ Goto(t, "out")

\* It does not hold, somebody else having been faster: lock_acquire and wait()
\* again, before the thread just let in can run.
WaitAgain(t) ==
    /\ pc[t] = "wait" /\ t \notin blocked
    /\ ~Holds(Needs(t))
    /\ waiters' = Popped(Lock)
    /\ blocked' = (blocked \ LetGo(Lock)) \cup {t}
    /\ waiter' = [waiter EXCEPT ![Needs(t)] = t]
    /\ UNCHANGED <<value, holder, ringVars, pc>>

\* serial_interrupt receives a byte, or transmits one; input_putc and
\* intq_getc are called only if there is room, or a byte.
Receive == /\ Getters # {}
           /\ ~intq_full
           /\ Put
           /\ blocked' = blocked \ Signalled("not_empty")
           /\ waiter' = Reset("not_empty")
           /\ UNCHANGED <<value, waiters, holder, pc>>

Transmit == /\ Putters # {}
            /\ ~intq_empty
            /\ Get
            /\ blocked' = blocked \ Signalled("not_full")
            /\ waiter' = Reset("not_full")
            /\ UNCHANGED <<value, waiters, holder, pc>>

\* A thread that has been unblocked goes on.
Resume(t) == pc[t] # "out" /\ ~Panicked
             /\ (Acquire(t) \/ AwaitLock(t) \/ Complete(t) \/ WaitAgain(t))

Begin(t) == pc[t] = "out" /\ ~Panicked
           /\ (AtOnce(t) \/ Acquire(t) \/ AwaitLock(t))

Interrupt == ~Panicked /\ (Receive \/ Transmit)

IntqNext == Interrupt \/ \E t \in Threads : Begin(t) \/ Resume(t)

\* Threads that are not blocked run; nobody has to call, and nothing has to be
\* typed.
IntqSpec == IntqInit /\ [][IntqNext]_intqVars /\ \A t \in Threads : WF_intqVars(Resume(t))

-----------------------------------------------------------------------------
\* "Only one thread may wait at once", and thread_unblock's assertion: the
\* thread in *waiter is blocked in wait() with the lock, every other blocked
\* thread is queued for the lock, and nobody is queued for a free lock that no
\* unblocked thread is about to take.
BlockedExact ==
    /\ \A c \in Conditions : waiter[c] # None =>
          pc[waiter[c]] = "wait" /\ holder[Lock] = waiter[c]
    /\ \A t \in Threads : t \in blocked <=>
          waiter[Needs(t)] = t \/ t \in Waiting(Lock)
    /\ value[Lock] > 0 /\ waiters[Lock] # <<>> =>
          \E t \in Threads : pc[t] = "lock" /\ t \notin blocked

\* No lost wakeup: a thread sleeps in wait() only while its condition fails.
NoMissedWakeup == \A c \in Conditions : waiter[c] # None => ~Holds(c)

\* The bytes in the buffer, oldest first.
Content == [i \in 1 .. (head - tail) % BUFSIZE |->
                buf[(tail + i - 1) % BUFSIZE]]

QA == INSTANCE QueueAbs WITH content <- Content, Capacity <- BUFSIZE - 1
\* Bytes come out in the order they were put in, none lost and none twice,
\* whoever puts and gets them and whatever waits and interrupts.
RefinesQueue == QA!AbsSpec

\* wait() asserts that the condition does not hold.
WaitAsserts == ~Panicked
-----------------------------------------------------------------------------
IntqTypeOK ==
    /\ value \in [Sems -> Nat]
    /\ waiters \in [Sems -> Seq(Threads)]
    /\ blocked \subseteq Threads
    /\ holder \in [Locks -> Threads \cup {None}]
    /\ buf \in [0 .. BUFSIZE - 1 -> Bytes]
    /\ head \in 0 .. BUFSIZE - 1 /\ tail \in 0 .. BUFSIZE - 1
    /\ waiter \in [Conditions -> Threads \cup {None}]
    /\ given \in Bytes /\ last \in Bytes
    /\ pc \in [Threads -> {"out", "lock", "wait", "panic"}]

\* The lock has one unit, which the thread that is or was in wait() has, and
\* lock->holder names it.
LockExact ==
    /\ \A t \in Threads : pc[t] \in {"wait", "panic"} <=> holder[Lock] = t
    /\ value[Lock] = IF holder[Lock] = None THEN 1 ELSE 0

\* The threads queued for the lock are in lock_acquire, each once; the thread in
\* *waiter waits for that condition.
QueuedExact ==
    /\ \A i, j \in DOMAIN waiters[Lock] :
          waiters[Lock][i] = waiters[Lock][j] => i = j
    /\ \A t \in Waiting(Lock) : pc[t] = "lock"
    /\ \A c \in Conditions : waiter[c] # None => Needs(waiter[c]) = c

\* The inductive strengthening of BlockedExact and NoMissedWakeup.
IntqInv == /\ IntqTypeOK /\ LockExact /\ QueuedExact
           /\ BlockedExact /\ NoMissedWakeup
=============================================================================
