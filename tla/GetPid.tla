------------------------------- MODULE GetPid -------------------------------
(***************************************************************************)
(* get_pid() of kern/process/proc.c, step by step.  get_pid keeps two      *)
(* static integers between calls: last_pid, the pid handed out last, and   *)
(* next_safe, below which every pid above last_pid is believed free.  As   *)
(* long as ++last_pid stays below next_safe no scan is made: the belief is *)
(* a cached fact that forks and exits between two calls must not make      *)
(* stale.  Otherwise proc_list is scanned, last_pid advances past the pids *)
(* it meets and the scan restarts whenever it runs into next_safe.         *)
(*                                                                         *)
(* do_fork runs get_pid with interrupts off, so nothing interleaves with a *)
(* scan; forks and reaps (do_wait) happen between calls.  The processes of *)
(* proc_list are represented by the set of their pids, and a scan visits   *)
(* them in any order.                                                      *)
(***************************************************************************)
EXTENDS Naturals, FiniteSets

CONSTANTS
    MAX_PID,        \* one more than the largest pid
    MAX_PROCESS     \* bound on nr_process, idleproc included

\* The static_assert at the head of get_pid; idleproc is always counted.
ASSUME PidBounds == /\ MAX_PROCESS \in Nat \ {0}
                    /\ MAX_PID \in Nat
                    /\ MAX_PID > MAX_PROCESS

VARIABLES
    live,           \* pids of the processes on proc_list
    last_pid,       \* static int last_pid
    next_safe,      \* static int next_safe
    visited,        \* pids the running scan has passed
    pc              \* "idle", "scan" (in the while loop) or "ret"

vars == <<live, last_pid, next_safe, visited, pc>>

nr_process == Cardinality(live) + 1

Init == /\ live = {}
        /\ last_pid = MAX_PID
        /\ next_safe = MAX_PID
        /\ visited = {}
        /\ pc = "idle"

-----------------------------------------------------------------------------
\* Plausible slips in the operators below, for the sensitivity checks.
HitOffByOne(p) == p < MAX_PID /\ p <= next_safe
ForkUnchecked == TRUE
ForkOffByOne == nr_process <= MAX_PROCESS

\* "if (last_pid >= MAX_PID) last_pid = 1"
Wrap(p) == IF p >= MAX_PID THEN 1 ELSE p

\* ++last_pid did not wrap and is below the cached bound: no scan is needed.
CacheHit(p) == p < MAX_PID /\ p < next_safe

\* next_safe after the scan has met a process with the pid p # last_pid.
Narrow(p) == IF p > last_pid /\ next_safe > p THEN p ELSE next_safe

\* do_fork's first test.
MayFork == nr_process < MAX_PROCESS

\* do_fork passes its check and get_pid is entered: ++last_pid, then either
\* the cached answer or the beginning of a scan.
Enter ==
    /\ pc = "idle"
    /\ MayFork
    /\ last_pid' = Wrap(last_pid + 1)
    /\ \/ CacheHit(last_pid + 1) /\ pc' = "ret" /\ UNCHANGED next_safe
       \/ ~CacheHit(last_pid + 1) /\ pc' = "scan" /\ next_safe' = MAX_PID
    /\ UNCHANGED <<live, visited>>

\* The scan meets the process that holds last_pid: try the next pid, and
\* start over with an open window once it reaches next_safe ("goto repeat").
MeetTaken ==
    /\ pc = "scan"
    /\ last_pid \in live \ visited
    /\ \/ /\ last_pid + 1 >= next_safe
          /\ last_pid' = Wrap(last_pid + 1)
          /\ next_safe' = MAX_PID
          /\ visited' = {}
       \/ /\ last_pid + 1 < next_safe
          /\ last_pid' = last_pid + 1
          /\ visited' = visited \cup {last_pid}
          /\ UNCHANGED next_safe
    /\ UNCHANGED <<live, pc>>

\* The scan meets a process with another pid: it may lower next_safe.
MeetOther ==
    /\ pc = "scan"
    /\ \E p \in live \ visited :
          /\ p # last_pid
          /\ next_safe' = Narrow(p)
          /\ visited' = visited \cup {p}
    /\ UNCHANGED <<live, last_pid, pc>>

\* The scan comes back to the list head.
ScanEnd == /\ pc = "scan"
           /\ visited = live
           /\ pc' = "ret"
           /\ UNCHANGED <<live, last_pid, next_safe, visited>>

\* get_pid returns: do_fork gives the pid to the child and set_links puts it
\* on proc_list.
Return == /\ pc = "ret"
          /\ live' = live \cup {last_pid}
          /\ visited' = {}
          /\ pc' = "idle"
          /\ UNCHANGED <<last_pid, next_safe>>

\* do_wait reaps a zombie: remove_links takes it off proc_list.
Reap == /\ pc = "idle"
        /\ \E p \in live : live' = live \ {p}
        /\ UNCHANGED <<last_pid, next_safe, visited, pc>>

Next == Enter \/ MeetTaken \/ MeetOther \/ ScanEnd \/ Return \/ Reap

\* get_pid is straight-line code run with interrupts off: it does not stop.
Spec == Init /\ [][Next]_vars
             /\ WF_vars(MeetTaken \/ MeetOther \/ ScanEnd \/ Return)

-----------------------------------------------------------------------------
TypeOK == /\ live \subseteq 1 .. MAX_PID - 1
          /\ IsFiniteSet(live)
          /\ last_pid \in 1 .. MAX_PID
          /\ next_safe \in 1 .. MAX_PID
          /\ visited \subseteq live
          /\ pc = "idle" => visited = {}
          /\ pc \in {"idle", "scan", "ret"}

\* The pid get_pid returns is a legal one that no process of proc_list holds,
\* whether it was scanned for or taken from the cached window.
PidFresh == pc = "ret" => last_pid \in (1 .. MAX_PID - 1) \ live

\* The cached fact: between calls, no process holds a pid strictly between
\* last_pid and next_safe, whatever forks and exits happened since the scan.
SafeWindow == pc = "idle" => \A p \in live : ~(last_pid < p /\ p < next_safe)

\* What get_pid answers is right now, and what it remembers will be.
PidSound == PidFresh /\ SafeWindow

\* Within a call: no process already passed (after the scan: no process at all)
\* holds last_pid or a pid of the window above it.  This is what makes the
\* restarts and the shortcut correct.
Passed == IF pc = "ret" THEN live ELSE visited
CallWindow == pc # "idle" => /\ last_pid < next_safe
                             /\ \A p \in Passed : p < last_pid \/ p >= next_safe

\* do_fork's nr_process check still holds when get_pid returns.
RoomInCall == pc # "idle" => nr_process < MAX_PROCESS

\* The inductive strengthening of PidFresh and SafeWindow.
PidInv == TypeOK /\ SafeWindow /\ CallWindow /\ RoomInCall

\* The static_assert MAX_PID > MAX_PROCESS is there for this: every scan ends,
\* its restarts and wrap-arounds included, so do_fork always gets an answer.
ScanTerminates == pc = "scan" ~> pc = "idle"

PA == INSTANCE PidAlloc WITH MaxListed <- MAX_PROCESS - 1
\* do_fork's use of get_pid implements the abstract allocator.
RefinesPidAlloc == PA!AbsSpec
=============================================================================
