--------------------------- MODULE PintosThreads ----------------------------
(***************************************************************************)
(* Threads of Pintos, threads/thread.c, under preemption by the timer:     *)
(* how they are created, block, yield and exit, how the idle thread comes  *)
(* up, and who gets the processor.                                         *)
(*                                                                         *)
(* Everything that schedules runs with interrupts off, from the change of  *)
(* status to the end of thread_switch_tail in the next thread; such a      *)
(* stretch is one step.  Between two steps interrupts are on.              *)
(***************************************************************************)
EXTENDS Naturals, Sequences

CONSTANTS
    Main,           \* initial_thread
    Idle,           \* the thread that thread_start creates
    Pages,          \* what palloc can give to further threads
    None,           \* no thread
    TIME_SLICE

Threads == {Main, Idle} \cup Pages

ASSUME ThreadConstants == /\ Main # Idle
                          /\ Main \notin Pages /\ Idle \notin Pages
                          /\ None \notin Threads
                          /\ TIME_SLICE \in Nat \ {0}

VARIABLES
    current,        \* the running thread; None once an assertion has failed
    status,         \* "blocked", "ready", "running", "dying", or "free" for a
                    \* page that holds no thread
    ready,          \* fifo_ready_list
    all_list,
    idle_thread,
    thread_ticks,
    idle_started,   \* the value of the semaphore of thread_start
    creates,        \* the thread that a thread is creating
    pc              \* "run": ordinary code; "create": in thread_create, between
                    \* init_thread and thread_unblock; "new": not run yet;
                    \* "boot", "start": in thread_start; the others: in idle()

vars == <<current, status, ready, all_list, idle_thread, thread_ticks,
          idle_started, creates, pc>>

Goto(t, label) == pc' = [pc EXCEPT ![t] = label]

Init == /\ current = Main
        /\ status = [t \in Threads |-> IF t = Main THEN "running" ELSE "free"]
        /\ ready = <<>>
        /\ all_list = {Main}
        /\ idle_thread = None
        /\ thread_ticks = 0
        /\ idle_started = 0
        /\ creates = [t \in Threads |-> None]
        /\ pc = [t \in Threads |-> IF t = Main THEN "boot" ELSE "new"]

-----------------------------------------------------------------------------
\* Plausible slips, for the sensitivity checks.
EnqueuedAlways(t) == Append(ready, t)
EnqueuedInFront(t) == <<t>> \o ready
AnyBlocked(t) == status[t] = "blocked" /\ t # idle_thread
StillHalted == pc

\* thread_enqueue, and its use by thread_yield.
Enqueued(t) == Append(ready, t)
Yielded(t) == IF t # idle_thread THEN Enqueued(t) ELSE ready

\* What becomes of a thread that leaves the processor with status s: the next
\* one frees its page if it is dying, unless it is the initial thread.
Left(t, s) == IF s = "dying" /\ t # Main THEN "free" ELSE s

\* schedule and thread_switch_tail, called by t with status s and ready list q.
Schedule(t, s, q) ==
    LET next == IF q = <<>> THEN idle_thread ELSE Head(q)
        left == [status EXCEPT ![t] = Left(t, s)]
    IN /\ current' = next
       /\ ready' = IF q = <<>> THEN q ELSE Tail(q)
       /\ status' = IF next = None THEN left
                    ELSE [left EXCEPT ![next] = "running"]
       /\ thread_ticks' = 0

\* thread_unblock, behind its assertion.
Unblock(t) == /\ ready' = Enqueued(t)
              /\ status' = [status EXCEPT ![t] = "ready"]

-----------------------------------------------------------------------------
\* thread_start, up to the point where it waits for the idle thread.
Start == /\ current = Main /\ pc[Main] = "boot"
         /\ Unblock(Idle)
         /\ all_list' = all_list \cup {Idle}
         /\ pc' = [pc EXCEPT ![Main] = "start", ![Idle] = "idle"]
         /\ UNCHANGED <<current, idle_thread, thread_ticks, idle_started, creates>>

\* Its sema_down.
AwaitIdle == /\ current = Main /\ pc[Main] = "start"
             /\ IF idle_started = 0
                THEN /\ Schedule(Main, "blocked", ready)
                     /\ UNCHANGED <<idle_started, pc>>
                ELSE /\ idle_started' = idle_started - 1
                     /\ Goto(Main, "run")
                     /\ UNCHANGED <<current, status, ready, thread_ticks>>
             /\ UNCHANGED <<all_list, idle_thread, creates>>

\* idle(): the thread makes itself known, ...
IdleInit == /\ current = Idle /\ pc[Idle] = "idle"
            /\ idle_thread' = Idle
            /\ Goto(Idle, "up")
            /\ UNCHANGED <<current, status, ready, all_list, thread_ticks,
                           idle_started, creates>>

\* ... tells thread_start, ...
IdleUps == /\ idle_started' = idle_started + 1
           /\ IF status[Main] = "blocked" THEN Unblock(Main)
              ELSE UNCHANGED <<ready, status>>
IdleUp == /\ current = Idle /\ pc[Idle] = "up"
          /\ IdleUps
          /\ Goto(Idle, "loop")
          /\ UNCHANGED <<current, all_list, idle_thread, thread_ticks, creates>>

\* ... and blocks, over and over; once it has the processor back it halts.
IdleBlock == /\ current = Idle /\ pc[Idle] = "loop"
             /\ Schedule(Idle, "blocked", ready)
             /\ Goto(Idle, "halt")
             /\ UNCHANGED <<all_list, idle_thread, idle_started, creates>>

\* thread_create, up to allocate_tid, which may block.
Create(t) == /\ current = t /\ pc[t] = "run"
             /\ \E u \in Pages :
                   /\ status[u] = "free"
                   /\ status' = [status EXCEPT ![u] = "blocked"]
                   /\ all_list' = all_list \cup {u}
                   /\ creates' = [creates EXCEPT ![t] = u]
                   /\ pc' = [pc EXCEPT ![t] = "create", ![u] = "new"]
             /\ UNCHANGED <<current, ready, idle_thread, thread_ticks, idle_started>>

\* Its thread_unblock.
Launch(t) == /\ current = t /\ pc[t] = "create"
             /\ Unblock(creates[t])
             /\ creates' = [creates EXCEPT ![t] = None]
             /\ pc' = [pc EXCEPT ![t] = "run", ![creates[t]] = "run"]
             /\ UNCHANGED <<current, all_list, idle_thread, thread_ticks, idle_started>>

Block(t) == /\ current = t /\ pc[t] \in {"run", "create"}
            /\ Schedule(t, "blocked", ready)
            /\ UNCHANGED <<all_list, idle_thread, idle_started, creates, pc>>

thread_yield(t) == /\ Schedule(t, "ready", Yielded(t))
                   /\ UNCHANGED <<all_list, idle_thread, idle_started, creates>>

Yield(t) == current = t /\ pc[t] = "run" /\ thread_yield(t) /\ UNCHANGED pc

thread_exit(t) == /\ current = t /\ pc[t] = "run"
                  /\ all_list' = all_list \ {t}
                  /\ Schedule(t, "dying", ready)
                  /\ UNCHANGED <<idle_thread, idle_started, creates, pc>>

\* An interrupt gets the processor out of "hlt".
Resumed == [pc EXCEPT ![Idle] = IF current = Idle /\ @ = "halt" THEN "loop" ELSE @]

\* Interrupts are on.
InterruptsOn == current # None /\ pc[Main] # "boot"

\* Threads on the wait list of something: the running thread, or an interrupt
\* handler, may unblock them.
Waits(t) == status[t] = "blocked" /\ pc[t] \in {"run", "create"}

Signal(t) == /\ InterruptsOn
             /\ Waits(t)
             /\ Unblock(t)
             /\ pc' = Resumed
             /\ UNCHANGED <<current, all_list, idle_thread, thread_ticks,
                            idle_started, creates>>

\* timer_interrupt and thread_tick; the slice may be over.
SliceOver(n) == n >= TIME_SLICE

Tick == /\ InterruptsOn
        /\ pc' = Resumed
        /\ IF SliceOver(thread_ticks + 1)
           THEN thread_yield(current)
           ELSE /\ thread_ticks' = thread_ticks + 1
                /\ UNCHANGED <<current, status, ready, all_list, idle_thread,
                               idle_started, creates>>

IdleStep == IdleInit \/ IdleUp \/ IdleBlock

Next == \/ Start \/ AwaitIdle \/ IdleStep \/ Tick
        \/ \E t \in Threads : \/ Create(t) \/ Launch(t) \/ Block(t) \/ Yield(t)
                              \/ thread_exit(t) \/ Signal(t)

\* The clock ticks.  The start-up runs on whenever it has the processor.  All
\* other code may loop for ever.
Spec == /\ Init /\ [][Next]_vars
        /\ WF_vars(Tick)
        /\ WF_vars(Start) /\ SF_vars(AwaitIdle) /\ SF_vars(IdleStep)

-----------------------------------------------------------------------------
InReady == {ready[i] : i \in DOMAIN ready}

\* The ready list holds each ready thread once and nobody else; only the idle
\* thread, once it is known, is never on it ("the idle thread never appears in
\* the ready list").  Who runs has status running, as thread_current asserts.
ReadyExact == /\ \A t \in Threads : status[t] = "running" <=> current = t
              /\ \A i, j \in DOMAIN ready : ready[i] = ready[j] => i = j
              /\ InReady = {t \in Threads : status[t] = "ready" /\ t # idle_thread}

\* The page of a thread that has exited is not used any more: it is neither
\* ready nor current nor listed, nor half-way through a thread_create.  The
\* initial thread has no page that could be freed.  And thread_create finds its
\* thread blocked, as thread_unblock asserts: nobody else can reach it yet.
PagesSafe ==
    /\ \A t \in Threads :
          /\ status[t] \in {"free", "dying"} <=> t \notin all_list
          /\ t \notin all_list => t \notin InReady /\ t # current
    /\ status[Main] # "free"
    /\ \A t, u \in Threads : creates[t] = u =>
          /\ u \in all_list /\ status[u] = "blocked" /\ pc[u] = "new"
          /\ \A v \in Threads : creates[v] = u => v = t

\* The assertion of schedule that there is a thread to run, whatever blocks or
\* exits while the idle thread is starting up; and thread_start returns to a
\* kernel that has an idle thread.
IdleReady == /\ current # None
             /\ pc[Main] \notin {"boot", "start"} => idle_thread = Idle

\* "sti; hlt" is atomic: the processor never halts with a thread ready.
NeverHaltsBusy == current = Idle /\ pc[Idle] = "halt" => ready = <<>>

\* There is always a thread to run, and the processor halts only when there is
\* no other.
IdleSound == IdleReady /\ NeverHaltsBusy

\* Nobody starves on the ready list, whatever the others do.
ReadyRuns == \A t \in Threads \ {Idle} : status[t] = "ready" ~> current = t

-----------------------------------------------------------------------------
Statuses == {"blocked", "ready", "running", "dying", "free"}
PCs == {"boot", "start", "run", "create", "new", "idle", "up", "loop", "halt"}
TypeOK == /\ current \in Threads \cup {None}
          /\ status \in [Threads -> Statuses]
          /\ ready \in Seq(Threads)
          /\ all_list \subseteq Threads
          /\ idle_thread \in {None, Idle}
          /\ thread_ticks \in Nat
          /\ idle_started \in Nat
          /\ creates \in [Threads -> Pages \cup {None}]
          /\ pc \in [Threads -> PCs]

\* Who may be where: only initial_thread is in thread_start and only the idle
\* thread in idle(); a thread in thread_create has one to create, and one that
\* has exited was in no such place.
Places ==
    /\ pc[Main] \in {"boot", "start", "run", "create"}
    /\ pc[Idle] \in {"new", "idle", "up", "loop", "halt"}
    /\ \A t \in Pages : pc[t] \in {"run", "create", "new"}
    /\ \A t \in Threads : /\ pc[t] = "create" <=> creates[t] # None
                          /\ status[t] \in {"free", "dying"} => pc[t] # "create"

\* The stages of the start-up.  Until the idle thread is known it is on its way:
\* ready or running.
StartUp ==
    /\ pc[Main] = "boot" <=> pc[Idle] = "new"
    /\ pc[Main] = "boot" => /\ current = Main
                            /\ \A t \in Threads \ {Main} : status[t] = "free"
    /\ pc[Idle] \in {"new", "idle"} <=> idle_thread = None
    /\ pc[Idle] = "idle" => status[Idle] \in {"ready", "running"}
    /\ pc[Idle] # "new" => status[Idle] \notin {"free", "dying"}
    /\ pc[Idle] \in {"new", "idle", "up"} => idle_started = 0

\* The inductive strengthening of ReadyExact, PagesSafe and IdleSound.
ThreadInv == /\ TypeOK /\ ReadyExact /\ PagesSafe /\ IdleSound
             /\ Places /\ StartUp
=============================================================================
