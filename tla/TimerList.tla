----------------------------- MODULE TimerList ------------------------------
(***************************************************************************)
(* The timers of kern/schedule/sched.c: timer_list is a delta list, where  *)
(* the expires field of a timer counts from the expiry of its predecessor. *)
(* add_timer, del_timer and run_timer_list run with interrupts off, so     *)
(* nothing interleaves with them; run_timer_list is split into its steps   *)
(* (the tick, one iteration of its loop, its end) but lets nothing in.     *)
(***************************************************************************)
EXTENDS Integers, SequencesExt

CONSTANTS
    Timers,         \* the timer_t of each process that may sleep
    Times           \* times do_sleep is called with

ASSUME TimesPositive == Times \subseteq Nat \ {0}

VARIABLES
    list,           \* timer_list
    expires,        \* timer->expires
    running         \* run_timer_list is in its loop

timerVars == <<list, expires, running>>

Unarmed == -1
Armed == {list[i] : i \in DOMAIN list}

TimerInit == /\ list = <<>>
             /\ expires = [t \in Timers |-> 0]
             /\ running = FALSE

-----------------------------------------------------------------------------
\* Plausible slips, for the sensitivity checks.
NotRelative(e, i) == e
WholeListDown == [t \in Timers |-> IF t \in Armed /\ expires[t] > 0
                                   THEN expires[t] - 1 ELSE expires[t]]

\* add_timer, with n ticks to go: what is left of n behind the i-th timer.
Behind(n) ==
    LET left[i \in 0 .. Len(list)] ==
            IF i = 0 THEN n ELSE left[i - 1] - expires[list[i]]
    IN  left

\* add_timer goes past a timer unless it expires strictly later.
PassedBy(n) == Cardinality({i \in 1 .. Len(list) : Behind(n)[i] >= 0})

\* What the timer behind a new one keeps of its e ticks, i of them before it.
Relative(e, i) == e - i

\* add_timer(t) with the argument of do_sleep.
Arm(t, n) ==
    /\ ~running
    /\ t \notin Armed
    /\ LET k == PassedBy(n)
           rest == Behind(n)[k]
       IN  /\ list' = InsertAt(list, k + 1, t)
           /\ expires' = [u \in Timers |->
                CASE u = t -> rest
                  [] u # t /\ k < Len(list) /\ u = list[k + 1] ->
                        Relative(expires[u], rest)
                  [] OTHER -> expires[u]]
    /\ UNCHANGED running

\* Where t is linked.
Place(t) == CHOOSE i \in DOMAIN list : list[i] = t

\* expires, once the successor of t has been given what t had left.
HandedOn(t) ==
    [u \in Timers |->
        IF \E i \in 2 .. Len(list) : list[i] = u /\ list[i - 1] = t
        THEN expires[u] + expires[t] ELSE expires[u]]

\* del_timer(t) of a timer still on the list: do_sleep calls it when the
\* process has been woken before its time.
Cancel(t) == /\ ~running
             /\ t \in Armed
             /\ expires' = HandedOn(t)
             /\ list' = RemoveAt(list, Place(t))
             /\ UNCHANGED running

\* "timer->expires --" for the first timer, hence for all.
Advanced == IF list = <<>> THEN expires
            ELSE [expires EXCEPT ![Head(list)] = @ - 1]

\* run_timer_list is called by the timer interrupt.
Tick == /\ ~running
        /\ expires' = Advanced
        /\ running' = TRUE
        /\ UNCHANGED list

\* One iteration of its loop: the first timer is due; its process is woken and
\* the timer taken off the list.
Fire == /\ running
        /\ list # <<>>
        /\ expires[Head(list)] = 0
        /\ list' = Tail(list)
        /\ UNCHANGED <<expires, running>>

\* The loop ends at the list head or at a timer that is not due.
Done == /\ running
        /\ list # <<>> => expires[Head(list)] # 0
        /\ running' = FALSE
        /\ UNCHANGED <<list, expires>>

TimerNext ==
    \/ Tick \/ Fire \/ Done
    \/ \E t \in Timers : Cancel(t) \/ \E n \in Times : Arm(t, n)

\* The clock goes on, and the handler runs to its end.
TimerSpec == /\ TimerInit /\ [][TimerNext]_timerVars
             /\ WF_timerVars(Tick) /\ WF_timerVars(Fire \/ Done)

-----------------------------------------------------------------------------
\* The ticks until the i-th timer expires: the sum of the deltas up to it.
Due[i \in 0 .. Len(list)] ==
    IF i = 0 THEN 0 ELSE Due[i - 1] + expires[list[i]]

Left == [t \in Timers |-> IF t \in Armed THEN Due[Place(t)] ELSE Unarmed]

TA == INSTANCE TimerAbs WITH left <- Left, firing <- running
\* The delta list implements independent countdowns: arming or deleting one
\* timer changes the time of no other.
RefinesTimers == TA!AbsSpec

\* Every armed timer fires or is deleted: a sleeper is always woken.
TimerFires == \A t \in Timers : t \in Armed ~> t \notin Armed
-----------------------------------------------------------------------------
TimerTypeOK == /\ list \in Seq(Timers)
               /\ expires \in [Timers -> Int]
               /\ running \in BOOLEAN

\* A timer is linked once; no delta is negative; a timer that is due fires in
\* the interrupt that made it due.
DeltasSound ==
    /\ \A i, j \in DOMAIN list : list[i] = list[j] => i = j
    /\ \A i \in DOMAIN list : expires[list[i]] >= 0
    /\ ~running /\ list # <<>> => expires[Head(list)] > 0

\* What the refinement needs.
DeltaInv == TimerTypeOK /\ DeltasSound
=============================================================================
