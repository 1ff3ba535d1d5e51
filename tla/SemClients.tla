----------------------------- MODULE SemClients -----------------------------
(***************************************************************************)
(* Any kernel code over the semaphores of Sem: every process may call up,  *)
(* down, try_down and do_sleep in any order, be preempted on its way back  *)
(* to user mode, and be killed.                                            *)
(***************************************************************************)
EXTENDS Sem

CONSTANTS
    InitValue,      \* sem_init's value of each semaphore
    MaxValue        \* bound on value, for TLC's sake

ASSUME ClientConstants == InitValue \in [Sems -> Nat] /\ IsFiniteSet(Users)

clientVars == <<schedVars, semVars>>

Threads == Procs \ {Idle}

ClientInit ==
    /\ current = Idle
    /\ state = [p \in Procs |-> "RUNNABLE"]
    /\ waitState = [p \in Procs |-> "0"]
    /\ needResched = [p \in Procs |-> p = Idle]
    /\ slice = [p \in Procs |-> IF p = Idle THEN 0 ELSE MaxSlice]
    /\ runq \in [1 .. Cardinality(Threads) -> Threads]
    /\ RunqExact
    /\ value = InitValue
    /\ waitq = [s \in Sems |-> <<>>]
    /\ waitOn = [p \in Procs |-> NoSem]
    /\ flags = [p \in Procs |-> "KSEM"]
    /\ phase = [p \in Procs |-> "run"]

\* down(), or a try_down() that succeeds (one that fails changes nothing).
DownCall(p, s) ==
    /\ Runs(p)
    /\ \/ /\ Take(s)
          /\ UNCHANGED <<schedVars, waitq, waitOn, flags, phase>>
       \/ /\ Block(p, s)
          /\ UNCHANGED <<current, needResched, slice, runq, value>>

UpCall(p, s) == /\ Runs(p)
                /\ value[s] < MaxValue
                /\ Up(s)
                /\ UNCHANGED <<current, needResched, waitOn, phase>>

Sleep(p) == /\ Runs(p)
            /\ Doze(p)
            /\ UNCHANGED <<current, needResched, slice, runq, value, waitq,
                           waitOn, flags>>

\* p returns to user mode and its slice is over (trap()).
Preempt(p) == Runs(p) /\ needResched[p] /\ Schedule /\ UNCHANGED semVars

Return(p) == \/ DownReturns(p) /\ UNCHANGED <<schedVars, value, flags>>
             \/ DozeReturns(p) /\ UNCHANGED <<schedVars, value, waitq, waitOn,
                                              flags>>

ClientNext == \/ Tick \/ IdleYields
        \/ \E p \in Threads : \/ Sleep(p) \/ Preempt(p) \/ Return(p)
                              \/ Leave(p) \/ Awaken(p)
                              \/ \E s \in Sems : DownCall(p, s) \/ UpCall(p, s)

ClientSpec == ClientInit /\ [][ClientNext]_clientVars

-----------------------------------------------------------------------------
SA == INSTANCE SemAbs WITH
        avail <- [s \in Sems |-> value[s] + Cardinality(Granted(s))]
\* The queues, flags and wakeups implement counting semaphores: no unit is lost
\* and none is taken twice, whatever is killed, preempted or woken meanwhile.
RefinesSem == SA!AbsSpec

\* p waits, and q does not or waits behind p.
Ahead(s, p, q) == \E i \in DOMAIN waitq[s] :
                     /\ waitq[s][i] = p
                     /\ \A j \in 1 .. i : waitq[s][j] # q

\* First come, first served: nobody overtakes a process that waits, neither by
\* queueing in front of it nor by being given a unit before it.
Fifo == [][\A s \in Sems : \A p, q \in Procs :
              Ahead(s, p, q) /\ p \notin Granted(s)' =>
                  /\ Ahead(s, p, q)'
                  /\ q \in Granted(s)' => q \in Granted(s)]_clientVars
=============================================================================
