--------------------------- MODULE ProcTree_proofs ---------------------------
(***************************************************************************)
(* Proofs about GetPid and ProcTree for every MAX_PROCESS and MAX_PID.     *)
(* GetPid: a pid is never given to two listed processes, and get_pid as    *)
(* do_fork and do_wait use it implements the abstract allocator PidAlloc.  *)
(* ProcTree: the family links always agree, and do_wait, which walks them, *)
(* sees every child.  LinksAgree is stated between two critical sections;  *)
(* the invariant below also says what holds inside the loop of do_exit,    *)
(* where the head of the list that is being given away still points to the *)
(* child before it.                                                        *)
(* TimerList, the third list of the kernel that is kept up by hand: the    *)
(* delta list of timers implements independent countdowns, TimerAbs.       *)
(***************************************************************************)
EXTENDS ProcTree, TimerList, TLAPS, FiniteSetTheorems, WellFoundedInduction

\* Initially nothing is listed and both static integers are MAX_PID.
LEMMA InitPidInv == Init => PidInv
  BY PidBounds, FS_EmptySet DEF Init, PidInv, TypeOK, SafeWindow, CallWindow, RoomInCall, Passed

\* Every step of get_pid, every fork and every reap preserve the cached fact.
LEMMA NextPidInv == PidInv /\ [Next]_vars => PidInv'
<1> SUFFICES ASSUME PidInv, [Next]_vars PROVE PidInv'
  OBVIOUS
<1> USE DEF PidInv, TypeOK, SafeWindow, CallWindow, RoomInCall, nr_process, Passed
<1>1. CASE Enter
  BY PidBounds, <1>1 DEF Enter, MayFork, Wrap, CacheHit
<1>2. CASE MeetTaken
  <2>1. CASE last_pid + 1 >= next_safe
    <3>1. /\ last_pid' \in 1 .. MAX_PID
          /\ last_pid' < MAX_PID
          /\ next_safe' = MAX_PID
          /\ visited' = {}
          /\ pc = "scan"
          /\ UNCHANGED <<live, pc>>
      BY PidBounds, <1>2, <2>1 DEF MeetTaken, Wrap
    <3> QED
      BY PidBounds, <3>1
  <2>2. CASE last_pid + 1 < next_safe
    <3>1. /\ last_pid' = last_pid + 1
          /\ next_safe' = next_safe
          /\ visited' = visited \cup {last_pid}
          /\ last_pid \in live
          /\ pc = "scan"
          /\ UNCHANGED <<live, pc>>
      BY <1>2, <2>2 DEF MeetTaken, Wrap
    <3> QED
      BY PidBounds, <2>2, <3>1
  <2> QED
    BY <2>1, <2>2
<1>3. CASE MeetOther
  BY PidBounds, <1>3 DEF MeetOther, Narrow
<1>4. CASE ScanEnd
  BY <1>4 DEF ScanEnd
<1>5. CASE Return
  <2>1. IsFiniteSet(live \cup {last_pid})
    BY FS_AddElement
  <2> QED
    BY PidBounds, <1>5, <2>1 DEF Return
<1>6. CASE Reap
  <2>1. PICK p \in live : live' = live \ {p}
    BY <1>6 DEF Reap
  <2>2. IsFiniteSet(live')
    BY <2>1, FS_RemoveElement
  <2> QED
    BY <1>6, <2>1, <2>2 DEF Reap
<1>7. CASE UNCHANGED vars
  BY <1>7 DEF vars
<1> QED
  BY <1>1, <1>2, <1>3, <1>4, <1>5, <1>6, <1>7 DEF Next

\* PidInv is an invariant of every behaviour of get_pid with its callers.
THEOREM PidInvariant == Spec => []PidInv
  BY InitPidInv, NextPidInv, PTL DEF Spec

\* get_pid never returns a pid that a process of proc_list holds, and what it
\* returns is in 1 .. MAX_PID-1 ("alloc a unique pid for process").
THEOREM PidIsFresh == Spec => []PidFresh
<1>1. PidInv => PidFresh
  BY PidBounds DEF PidInv, TypeOK, CallWindow, Passed, PidFresh
<1> QED
  BY <1>1, PidInvariant, PTL

\* Forks and reaps between two calls never make the cached window stale.
THEOREM WindowIsSafe == Spec => []SafeWindow
<1>1. PidInv => SafeWindow
  BY DEF PidInv
<1> QED
  BY <1>1, PidInvariant, PTL

\* An entry, a scan step and a return of get_pid, and a reap, each map to an
\* allocation, a release or nothing at all of the abstract allocator.
LEMMA StepRefines == PidInv /\ [Next]_vars => [PA!AbsNext]_live
<1> SUFFICES ASSUME PidInv, Next, live' # live PROVE PA!AbsNext
  BY DEF vars
<1>1. CASE Return
  <2>1. /\ live' = live \cup {last_pid}
        /\ last_pid \in (1 .. MAX_PID - 1) \ live
        /\ Cardinality(live) + 1 < MAX_PROCESS
    BY <1>1, PidBounds
    DEF Return, PidInv, TypeOK, CallWindow, RoomInCall, nr_process, Passed
  <2>2. Cardinality(live) \in Nat
    BY FS_CardinalityType DEF PidInv, TypeOK
  <2>3. Cardinality(live) < MAX_PROCESS - 1
    BY <2>1, <2>2, PidBounds
  <2> QED
    BY <2>1, <2>3 DEF PA!AbsNext, PA!Alloc, PA!Cardinality, Cardinality
<1>2. CASE Reap
  BY <1>2 DEF Reap, PA!AbsNext, PA!Release
<1>3. CASE Enter \/ MeetTaken \/ MeetOther \/ ScanEnd
  BY <1>3 DEF Enter, MeetTaken, MeetOther, ScanEnd
<1> QED
  BY <1>1, <1>2, <1>3 DEF Next

\* get_pid with its two static integers implements the allocator that simply
\* picks an unused pid.
THEOREM GetPidRefines == Spec => RefinesPidAlloc
<1>1. Init => PA!AbsInit
  BY DEF Init, PA!AbsInit
<1> QED
  BY <1>1, StepRefines, PidInvariant, PTL DEF Spec, PA!AbsSpec, RefinesPidAlloc

-----------------------------------------------------------------------------
Listed == {IdlePid} \cup live

LinkType == /\ parent \in [Pids -> Pids \cup {Null}]
            /\ cptr \in [Pids -> Pids \cup {Null}]
            /\ yptr \in [Pids -> Pids \cup {Null}]
            /\ optr \in [Pids -> Pids \cup {Null}]
            /\ zombies \subseteq live \ {InitPid}
            /\ dying \in zombies \cup {Null}

\* The first fork, of initproc, gets the pid 1, and initproc stays.
InitFirst == /\ live = {} => IF pc = "idle" THEN last_pid = MAX_PID
                             ELSE last_pid = InitPid
             /\ live # {} => InitPid \in live
             /\ pc # "idle" => dying = Null

\* A pid that is not in use has no links.
Unlinked == \A p \in Pids \ Listed : cptr[p] = Null

\* The youngest child of p is a child of p that nobody is younger than; only
\* in the loop of do_exit may its yptr say otherwise.
Heads == \A p \in Listed : cptr[p] # Null =>
            /\ cptr[p] \in live
            /\ parent[cptr[p]] = p
            /\ p # dying => yptr[cptr[p]] = Null
            /\ \A d \in live : optr[d] # cptr[p]

\* The parent of a process lives, or is giving its children away.
Parents == \A c \in live : /\ parent[c] \in Running \cup {dying}
                           /\ parent[c] \in Listed

Youngers == \A c \in live :
               /\ yptr[c] = Null => cptr[parent[c]] = c
               /\ yptr[c] # Null /\ (parent[c] = dying => c # cptr[dying]) =>
                     /\ yptr[c] \in live
                     /\ parent[yptr[c]] = parent[c]
                     /\ optr[yptr[c]] = c

Olders == \A c \in live : optr[c] # Null =>
             /\ optr[c] \in live
             /\ parent[optr[c]] = parent[c]
             /\ yptr[optr[c]] = c

\* The lists have no cycle: along them the processes can be numbered.
Ranked(B, rank) == /\ rank \in [Pids -> 0 .. B]
                   /\ \A c \in live : optr[c] # Null => rank[optr[c]] < rank[c]
Acyclic == \E B \in Nat : \E rank \in [Pids -> 0 .. B] : Ranked(B, rank)

LinkInv == /\ LinkType /\ InitFirst /\ Unlinked
           /\ Heads /\ Parents /\ Youngers /\ Olders
TreeInv == PidInv /\ LinkInv /\ Acyclic
-----------------------------------------------------------------------------
\* The family links leave get_pid and its callers what they are in GetPid.
LEMMA TreeStepIsStep == [TreeNext]_treeVars => [Next]_vars
  BY DEF TreeNext, treeVars, PidStep, ForkReturn, Exit, AdoptChild, ExitDone,
         WaitReap, Next

\* No process, no link.
LEMMA InitTree == TreeInit => TreeInv
<1> SUFFICES ASSUME TreeInit PROVE TreeInv
  OBVIOUS
<1>1. PidInv
  BY InitPidInv DEF TreeInit
<1>2. LinkInv
  BY PidBounds DEF TreeInit, Init, LinkInv, LinkType, InitFirst, Unlinked, Heads,
     Parents, Youngers, Olders, Pids, Null, IdlePid, InitPid, Listed
<1>3. Ranked(0, [p \in Pids |-> 0])
  BY DEF TreeInit, Init, Ranked
<1> QED
  BY <1>1, <1>2, <1>3 DEF TreeInv, Acyclic, Ranked

\* Processes are among the pids, and Null is none of them.
LEMMA PidsListed == ASSUME live \subseteq 1 .. MAX_PID - 1
                    PROVE  live \subseteq Pids /\ Listed \subseteq Pids
                                               /\ Null \notin Listed
                                               /\ Null \notin Pids
  BY PidBounds DEF Pids, Listed, Null, IdlePid

\* A fork puts its child at the head of its parent's list.
LEMMA ForkKeepsLinks == TreeInv /\ ForkReturn => LinkInv' /\ Acyclic'
<1> SUFFICES ASSUME TreeInv, ForkReturn PROVE LinkInv' /\ Acyclic'
  OBVIOUS
<1> USE DEF TreeInv, LinkInv, LinkType, IdlePid, InitPid, Pids, Null
<1> DEFINE c == last_pid
<1>1. PICK p \in Forkers : SetLinks(c, p)
  BY DEF ForkReturn
<1>2. /\ c \in 1 .. MAX_PID - 1 /\ c \notin live
      /\ live \subseteq 1 .. MAX_PID - 1
      /\ live' = live \cup {c}
      /\ pc = "ret" /\ pc' = "idle" /\ last_pid' = last_pid
      /\ zombies' = zombies /\ dying' = dying /\ dying = Null
  BY DEF ForkReturn, Return, PidInv, TypeOK, CallWindow, Passed, InitFirst
<1>3. p \in Pids /\ p \in Listed /\ p \in Running /\ p # c
  BY <1>2 DEF Forkers, Running, Listed
<1>4. /\ cptr[p] # c
      /\ cptr' = [cptr EXCEPT ![p] = c]
      /\ parent' = [parent EXCEPT ![c] = p]
      /\ optr' = [optr EXCEPT ![c] = cptr[p]]
      /\ \A x \in Pids : yptr'[x] = IF x = cptr[p] THEN c
                                    ELSE IF x = c THEN Null ELSE yptr[x]
      /\ yptr' \in [Pids -> Pids \cup {Null}]
      /\ cptr[p] # Null => cptr[p] \in live /\ parent[cptr[p]] = p
                                            /\ yptr[cptr[p]] = Null
                                            /\ \A d \in live : optr[d] # cptr[p]
  BY <1>1, <1>2, <1>3 DEF SetLinks, SetYounger, Heads
<1>5. LinkType' /\ InitFirst' /\ Unlinked'
  BY <1>2, <1>3, <1>4 DEF InitFirst, Unlinked, Listed
<1>6. Heads'
  <2> SUFFICES ASSUME NEW q \in Listed', cptr'[q] # Null
               PROVE /\ cptr'[q] \in live'
                     /\ parent'[cptr'[q]] = q
                     /\ yptr'[cptr'[q]] = Null
                     /\ \A d \in live' : optr'[d] # cptr'[q]
    BY DEF Heads
  <2>1. CASE q = p
    <3>1. \A d \in live : optr[d] # c
      BY <1>2 DEF Olders
    <3> QED
      BY <2>1, <3>1, <1>2, <1>3, <1>4
  <2>2. CASE q # p
    <3>1. q \in Listed /\ cptr'[q] = cptr[q] /\ q # c
      BY <2>2, <1>2, <1>3, <1>4 DEF Listed, Unlinked
    <3>2. /\ cptr[q] \in live /\ parent[cptr[q]] = q /\ yptr[cptr[q]] = Null
          /\ \A d \in live : optr[d] # cptr[q]
      BY <3>1, <1>2 DEF Heads, Listed
    <3>3. cptr[q] # c /\ cptr[q] # cptr[p]
      BY <2>2, <3>2, <1>2, <1>4
    <3>4. \A d \in live' : optr'[d] # cptr[q]
      BY <3>2, <3>3, <1>2, <1>3, <1>4
    <3>5. cptr[q] \in Pids
      BY <3>2, <1>2, PidsListed
    <3>6. parent'[cptr[q]] = q /\ yptr'[cptr[q]] = Null
      BY <3>2, <3>3, <3>5, <1>4
    <3>7. cptr[q] \in live'
      BY <3>2, <1>2
    <3> QED
      BY <3>1, <3>4, <3>6, <3>7
  <2> QED
    BY <2>1, <2>2
<1>7. Parents'
  BY <1>2, <1>3, <1>4 DEF Parents, Running, Listed
<1>8. Youngers'
  <2> SUFFICES ASSUME NEW x \in live'
               PROVE /\ yptr'[x] = Null => cptr'[parent'[x]] = x
                     /\ yptr'[x] # Null => /\ yptr'[x] \in live'
                                           /\ parent'[yptr'[x]] = parent'[x]
                                           /\ optr'[yptr'[x]] = x
    BY <1>2 DEF Youngers
  <2>1. CASE x = c
    BY <2>1, <1>2, <1>3, <1>4
  <2>2. CASE x = cptr[p] /\ x # c
    BY <2>2, <1>2, <1>3, <1>4
  <2>3. CASE x # c /\ x # cptr[p]
    <3>1. /\ x \in live /\ yptr'[x] = yptr[x] /\ parent'[x] = parent[x]
          /\ parent[x] \in Listed
      BY <2>3, <1>2, <1>4 DEF Parents
    <3>2. yptr[x] = Null => parent[x] # p
      BY <2>3, <3>1 DEF Youngers
    <3>3. yptr[x] # Null => /\ yptr[x] \in live /\ parent[yptr[x]] = parent[x]
                            /\ optr[yptr[x]] = x
      BY <3>1, <1>2 DEF Youngers, Listed
    <3>4. yptr[x] = Null => cptr[parent[x]] = x
      BY <3>1 DEF Youngers
    <3> QED
      BY <2>3, <3>1, <3>2, <3>3, <3>4, <1>2, <1>3, <1>4
  <2> QED
    BY <2>1, <2>2, <2>3
<1>9. Olders'
  <2> SUFFICES ASSUME NEW x \in live', optr'[x] # Null
               PROVE /\ optr'[x] \in live' /\ parent'[optr'[x]] = parent'[x]
                     /\ yptr'[optr'[x]] = x
    BY DEF Olders
  <2>1. CASE x = c
    BY <2>1, <1>2, <1>3, <1>4
  <2>2. CASE x # c
    <3>1. /\ x \in live /\ optr'[x] = optr[x] /\ optr[x] \in live
          /\ parent[optr[x]] = parent[x] /\ yptr[optr[x]] = x
          /\ optr[x] # cptr[p]
      BY <2>2, <1>2, <1>4 DEF Olders
    <3> QED
      BY <2>2, <3>1, <1>2, <1>3, <1>4
  <2> QED
    BY <2>1, <2>2
<1>10. Acyclic'
  <2>0. PICK B \in Nat : \E rank \in [Pids -> 0 .. B] : Ranked(B, rank)
    BY DEF Acyclic
  <2>1. PICK rank \in [Pids -> 0 .. B] : Ranked(B, rank)
    BY <2>0
  <2> DEFINE r == [rank EXCEPT ![c] = B + 1]
  <2>2. r \in [Pids -> 0 .. B + 1] /\ B + 1 \in Nat
    BY <2>1, <1>2
  <2>3. \A x \in live : optr[x] # Null => optr[x] # c
    BY <1>2 DEF Olders
  <2>4. ASSUME NEW x \in live', optr'[x] # Null PROVE r[optr'[x]] < r[x]
    <3>1. CASE x = c
      BY <2>1, <2>4, <3>1, <1>2, <1>3, <1>4
    <3>2. CASE x # c
      <4>1. /\ x \in live /\ optr'[x] = optr[x] /\ optr[x] \in Pids
            /\ optr[x] # c
        BY <2>3, <2>4, <3>2, <1>2, <1>4
      <4> QED
        BY <2>1, <2>4, <3>2, <4>1, <1>2 DEF Ranked
    <3> QED
      BY <3>1, <3>2
  <2> QED
    BY <2>2, <2>4 DEF Acyclic, Ranked
<1> QED
  BY <1>5, <1>6, <1>7, <1>8, <1>9, <1>10

\* What do_exit does to the links until it starts giving children away: none.
LEMMA ExitKeepsLinks == TreeInv /\ Exit => LinkInv' /\ Acyclic'
<1> SUFFICES ASSUME TreeInv, Exit PROVE LinkInv' /\ Acyclic'
  OBVIOUS
<1> USE DEF TreeInv, LinkInv, LinkType, IdlePid, InitPid
<1>1. /\ dying = Null /\ dying' \in live \ zombies /\ dying' # InitPid
      /\ zombies' = zombies \cup {dying'} /\ pc = "idle"
      /\ UNCHANGED <<pc, live, last_pid, parent, cptr, yptr, optr>>
      /\ live \subseteq 1 .. MAX_PID - 1
  BY DEF Exit, Running, links, vars, PidInv, TypeOK
<1>2. LinkType' /\ InitFirst' /\ Unlinked' /\ Olders'
  BY <1>1 DEF InitFirst, Unlinked, Olders, Listed
<1>3. Heads' /\ Youngers'
  BY <1>1, PidBounds DEF Heads, Youngers, Listed, Parents, Null
<1>4. Parents'
  BY <1>1, PidBounds DEF Parents, Running, Listed, Null
<1>5. Acyclic'
  BY <1>1 DEF Acyclic, Ranked
<1> QED
  BY <1>2, <1>3, <1>4, <1>5

\* A smaller number, as the well-founded order of the library has it.
LEMMA LessIsBelow == ASSUME NEW m \in Nat, NEW n \in Nat, m < n
                     PROVE  <<m, n>> \in OpToRel(<, Nat)
  BY DEF OpToRel

\* A set of processes that has the youngest child of p and, with each child,
\* its older sibling, has all the children of p.  Otherwise let x be, of those
\* it lacks, the one numbered highest; its younger sibling is not lacking.
LEMMA ListCovers ==
  ASSUME TreeInv, NEW p \in Listed, NEW S \in SUBSET live,
         cptr[p] \in S \cup {Null},
         \A d \in S : optr[d] \in S \cup {Null}
  PROVE  Children(p) \subseteq S
<1> USE DEF TreeInv, LinkInv, LinkType
<1>1. PICK B \in Nat : \E rank \in [Pids -> 0 .. B] : Ranked(B, rank)
  BY DEF Acyclic
<1>2. PICK rank \in [Pids -> 0 .. B] : Ranked(B, rank)
  BY <1>1
<1>3. live \subseteq Pids /\ Null \notin live
  BY PidBounds DEF PidInv, TypeOK, Pids, Null
<1> SUFFICES ASSUME Children(p) \ S # {} PROVE FALSE
  OBVIOUS
<1> DEFINE T == {B - rank[x] : x \in Children(p) \ S}
<1>4. T \subseteq Nat /\ T # {}
  BY <1>2, <1>3 DEF Children
<1>5. PICK t \in T : \A u \in T : ~(<<u, t>> \in OpToRel(<, Nat))
  <2> HIDE DEF T
  <2> QED
    BY <1>4, NatLessThanWellFounded, WFMin
<1>6. PICK x \in Children(p) \ S : t = B - rank[x]
  BY <1>5
<1>7. /\ x \in live /\ parent[x] = p /\ x \in Pids
      /\ cptr[p] # x
  BY <1>3, <1>6 DEF Children
<1>8. /\ yptr[x] \in live /\ parent[yptr[x]] = p /\ optr[yptr[x]] = x
  BY <1>7 DEF Youngers
<1>9. yptr[x] \in Children(p) \ S
  BY <1>3, <1>6, <1>7, <1>8 DEF Children
<1>10. rank[x] < rank[yptr[x]]
  BY <1>2, <1>3, <1>7, <1>8 DEF Ranked
<1>11. B - rank[yptr[x]] \in T /\ B - rank[yptr[x]] < t
  BY <1>2, <1>3, <1>6, <1>7, <1>8, <1>9, <1>10
<1>12. <<B - rank[yptr[x]], t>> \in OpToRel(<, Nat)
  BY <1>4, <1>5, <1>11, LessIsBelow
<1> QED
  BY <1>5, <1>11, <1>12

\* The end of the loop: the dying process has no child left.
LEMMA ExitDoneKeepsLinks == TreeInv /\ ExitDone => LinkInv' /\ Acyclic'
<1> SUFFICES ASSUME TreeInv, ExitDone PROVE LinkInv' /\ Acyclic'
  OBVIOUS
<1> USE DEF TreeInv, LinkInv, LinkType, IdlePid, InitPid
<1>1. /\ dying \in zombies /\ cptr[dying] = Null /\ dying' = Null
      /\ UNCHANGED <<pc, live, last_pid, parent, cptr, yptr, optr, zombies>>
      /\ live \subseteq 1 .. MAX_PID - 1
  BY DEF ExitDone, links, vars, PidInv, TypeOK
<1>2. \A x \in live : parent[x] # dying
  <2>1. dying \in Listed /\ {} \in SUBSET live
    BY <1>1 DEF Listed
  <2>2. cptr[dying] \in {} \cup {Null} /\ \A d \in {} : optr[d] \in {} \cup {Null}
    BY <1>1
  <2>3. Children(dying) \subseteq {}
    BY ONLY TreeInv, <2>1, <2>2, ListCovers
  <2> QED
    BY <2>3 DEF Children
<1>3. LinkType' /\ InitFirst' /\ Unlinked' /\ Olders'
  BY <1>1 DEF InitFirst, Unlinked, Olders, Listed
<1>4. Heads' /\ Youngers'
  BY <1>1, <1>2, PidBounds DEF Heads, Youngers, Parents, Listed, Null
<1>5. Parents'
  BY <1>1, <1>2, PidBounds DEF Parents, Running, Listed, Null
<1>6. Acyclic'
  BY <1>1 DEF Acyclic, Ranked
<1> QED
  BY <1>3, <1>4, <1>5, <1>6

\* initproc adopts the youngest child of the dying process.
LEMMA AdoptKeepsLinks == TreeInv /\ AdoptChild => LinkInv' /\ Acyclic'
<1> SUFFICES ASSUME TreeInv, AdoptChild PROVE LinkInv' /\ Acyclic'
  OBVIOUS
<1> USE DEF TreeInv, LinkInv, LinkType
<1> DEFINE k == dying
           c == cptr[k]
           h == cptr[InitPid]
           o == optr[c]
<1>1. /\ k \in zombies /\ k \in live /\ k # InitPid /\ k \in Listed
      /\ InitPid \in live /\ InitPid \in Listed
      /\ c # Null /\ pc = "idle"
      /\ UNCHANGED <<pc, live, last_pid, zombies, dying>>
      /\ live \subseteq 1 .. MAX_PID - 1
  BY DEF AdoptChild, vars, PidInv, TypeOK, InitFirst, Listed
<1>2. live \subseteq Pids /\ Listed \subseteq Pids /\ Null \notin Listed
      /\ Null \notin live /\ Null \notin Pids
  BY <1>1, PidsListed DEF Listed
<1>3. /\ c \in live /\ parent[c] = k /\ \A d \in live : optr[d] # c
      /\ h # Null => /\ h \in live /\ parent[h] = InitPid /\ yptr[h] = Null
                      /\ \A d \in live : optr[d] # h
      /\ h # c
  BY <1>1 DEF Heads
<1>4. o # Null => o \in live /\ parent[o] = k /\ yptr[o] = c /\ o # c /\ o # h
  BY <1>1, <1>3 DEF Olders
<1>5. /\ cptr' = [cptr EXCEPT ![k] = o, ![InitPid] = c]
      /\ optr' = [optr EXCEPT ![c] = h]
      /\ parent' = [parent EXCEPT ![c] = InitPid]
      /\ yptr' = SetYounger([yptr EXCEPT ![c] = Null], h, c)
  BY DEF AdoptChild
<1>6. k = dying /\ c = cptr[k] /\ h = cptr[InitPid] /\ o = optr[c]
  OBVIOUS
<1> HIDE DEF k, c, h, o, TreeInv, LinkInv
<1>7. /\ yptr' \in [Pids -> Pids \cup {Null}]
      /\ parent' \in [Pids -> Pids \cup {Null}]
      /\ cptr' \in [Pids -> Pids \cup {Null}]
      /\ optr' \in [Pids -> Pids \cup {Null}]
      /\ \A x \in Pids : /\ yptr'[x] = IF x = h THEN c ELSE IF x = c THEN Null
                                        ELSE yptr[x]
                         /\ optr'[x] = IF x = c THEN h ELSE optr[x]
                         /\ parent'[x] = IF x = c THEN InitPid ELSE parent[x]
                         /\ cptr'[x] = IF x = InitPid THEN c ELSE IF x = k THEN o
                                        ELSE cptr[x]
  <2>1. /\ c \in Pids /\ k \in Pids /\ InitPid \in Pids
        /\ h \in Pids \cup {Null} /\ o \in Pids \cup {Null} /\ h # c
    BY <1>1, <1>2, <1>3, <1>4
  <2>2. LinkType
    BY DEF TreeInv, LinkInv
  <2>3. parent' \in [Pids -> Pids \cup {Null}] /\ optr' \in [Pids -> Pids \cup {Null}]
    BY <2>1, <2>2, <1>5
  <2>4. cptr' \in [Pids -> Pids \cup {Null}]
    BY <2>1, <2>2, <1>5
  <2>5. yptr' = IF h # Null THEN [yptr EXCEPT ![c] = Null, ![h] = c]
                ELSE [yptr EXCEPT ![c] = Null]
    BY <1>5 DEF SetYounger
  <2>6. yptr' \in [Pids -> Pids \cup {Null}]
    BY <2>1, <2>2, <2>5
  <2>7. ASSUME NEW x \in Pids
        PROVE yptr'[x] = IF x = h THEN c ELSE IF x = c THEN Null ELSE yptr[x]
    BY <2>1, <2>2, <2>5, <1>2
  <2>8. ASSUME NEW x \in Pids
        PROVE /\ optr'[x] = IF x = c THEN h ELSE optr[x]
              /\ parent'[x] = IF x = c THEN InitPid ELSE parent[x]
    BY <2>1, <2>2, <1>5
  <2>9. ASSUME NEW x \in Pids
        PROVE cptr'[x] = IF x = InitPid THEN c ELSE IF x = k THEN o ELSE cptr[x]
    BY <2>1, <2>2, <1>5
  <2> QED
    BY <2>3, <2>4, <2>6, <2>7, <2>8, <2>9
<1> HIDE DEF LinkType
<1>0. LinkType /\ InitFirst /\ Unlinked /\ Heads /\ Parents /\ Youngers /\ Olders
      /\ Acyclic
  BY DEF TreeInv, LinkInv
<1>8. LinkType' /\ InitFirst' /\ Unlinked'
  BY <1>0, <1>1, <1>2, <1>7 DEF LinkType, InitFirst, Unlinked, Listed, Pids, Null
<1>9. Heads'
  <2> SUFFICES ASSUME NEW q \in Listed, cptr'[q] # Null
               PROVE /\ cptr'[q] \in live
                     /\ parent'[cptr'[q]] = q
                     /\ q # k => yptr'[cptr'[q]] = Null
                     /\ \A d \in live : optr'[d] # cptr'[q]
    BY <1>0, <1>1, <1>6 DEF Heads, Listed, Null
  <2>1. CASE q = InitPid
    BY <2>1, <1>1, <1>2, <1>3, <1>7
  <2>2. CASE q = k
    <3>1. cptr'[q] = o /\ o # Null
      BY <2>2, <1>1, <1>2, <1>7
    <3>2. \A d \in live : optr'[d] # o
      BY <1>0, <3>1, <1>2, <1>4, <1>7 DEF Olders
    <3>3. parent'[o] = k
      BY <3>1, <1>2, <1>4, <1>7
    <3> QED
      BY <2>2, <3>1, <3>2, <3>3, <1>4
  <2>3. CASE q # InitPid /\ q # k
    <3>1. cptr'[q] = cptr[q] /\ cptr[q] # Null
      BY <2>3, <1>2, <1>7
    <3>2. /\ cptr[q] \in live /\ parent[cptr[q]] = q /\ yptr[cptr[q]] = Null
          /\ \A d \in live : optr[d] # cptr[q]
      BY <1>0, <2>3, <3>1, <1>6 DEF Heads
    <3>3. cptr[q] # c /\ cptr[q] # h
      BY <2>3, <3>2, <1>1, <1>2, <1>3
    <3> QED
      BY <3>1, <3>2, <3>3, <1>2, <1>7
  <2> QED
    BY <2>1, <2>2, <2>3
<1>10. Parents'
  BY <1>0, <1>1, <1>2, <1>7 DEF LinkType, Parents, Running, Listed
<1>11. Youngers'
  <2> SUFFICES ASSUME NEW x \in live
               PROVE /\ yptr'[x] = Null => cptr'[parent'[x]] = x
                     /\ yptr'[x] # Null /\ (parent'[x] = k => x # cptr'[k]) =>
                           /\ yptr'[x] \in live
                           /\ parent'[yptr'[x]] = parent'[x]
                           /\ optr'[yptr'[x]] = x
    BY <1>0, <1>1, <1>6 DEF Youngers, Null
  <2>1. CASE x = c
    BY <2>1, <1>1, <1>2, <1>3, <1>7
  <2>2. CASE x = h
    BY <2>2, <1>1, <1>2, <1>3, <1>7
  <2>3. CASE x = o
    BY <2>3, <1>1, <1>2, <1>3, <1>4, <1>7
  <2>4. CASE x # c /\ x # h /\ x # o
    <3>1. yptr'[x] = yptr[x] /\ parent'[x] = parent[x] /\ optr'[x] = optr[x]
      BY <2>4, <1>2, <1>7
    <3>2. CASE yptr[x] = Null
      <4>1. cptr[parent[x]] = x /\ parent[x] \in Listed
        BY <1>0, <3>2 DEF Youngers, Parents
      <4>2. parent[x] # k /\ parent[x] # InitPid
        BY <2>4, <4>1, <1>6
      <4> QED
        BY <3>1, <3>2, <4>1, <4>2, <1>2, <1>7
    <3>3. CASE yptr[x] # Null
      <4>1. /\ yptr[x] \in live /\ parent[yptr[x]] = parent[x]
            /\ optr[yptr[x]] = x
        BY <1>0, <2>4, <3>3, <1>6 DEF Youngers
      <4>2. yptr[x] # c
        BY <2>4, <4>1, <1>6
      <4> QED
        BY <3>1, <3>3, <4>1, <4>2, <1>2, <1>7
    <3> QED
      BY <3>2, <3>3
  <2> QED
    BY <2>1, <2>2, <2>3, <2>4
<1>12. Olders'
  <2> SUFFICES ASSUME NEW x \in live, optr'[x] # Null
               PROVE /\ optr'[x] \in live /\ parent'[optr'[x]] = parent'[x]
                     /\ yptr'[optr'[x]] = x
    BY <1>0, <1>1 DEF Olders, Null
  <2>1. CASE x = c
    BY <2>1, <1>1, <1>2, <1>3, <1>7
  <2>2. CASE x # c
    <3>1. /\ optr'[x] = optr[x] /\ parent'[x] = parent[x]
      BY <2>2, <1>2, <1>7
    <3>2. /\ optr[x] \in live /\ parent[optr[x]] = parent[x]
          /\ yptr[optr[x]] = x /\ optr[x] # c /\ optr[x] # h
      BY <1>0, <3>1, <1>3 DEF Olders
    <3> QED
      BY <3>1, <3>2, <1>2, <1>7
  <2> QED
    BY <2>1, <2>2
<1>13. Acyclic'
  <2>1. PICK B \in Nat : \E rank \in [Pids -> 0 .. B] : Ranked(B, rank)
    BY <1>0 DEF Acyclic
  <2>2. PICK rank \in [Pids -> 0 .. B] : Ranked(B, rank)
    BY <2>1
  <2> DEFINE r == [rank EXCEPT ![c] = B + 1]
  <2>3. r \in [Pids -> 0 .. B + 1] /\ B + 1 \in Nat
    <3>1. \A x \in Pids : rank[x] \in 0 .. B + 1
      OBVIOUS
    <3>2. \A x \in Pids : r[x] \in 0 .. B + 1
      BY <3>1
    <3>3. r = [x \in Pids |-> r[x]]
      OBVIOUS
    <3>4. B + 1 \in Nat
      OBVIOUS
    <3> HIDE DEF r
    <3> QED
      BY <3>2, <3>3, <3>4
  <2>4. ASSUME NEW x \in live, optr'[x] # Null PROVE r[optr'[x]] < r[x]
    <3>1. CASE x = c
      BY <2>2, <2>4, <3>1, <1>2, <1>3, <1>7
    <3>2. CASE x # c
      <4>1. optr'[x] = optr[x] /\ optr[x] \in live /\ optr[x] # c
        BY <1>0, <2>4, <3>2, <1>2, <1>3, <1>7 DEF Olders
      <4> QED
        BY <1>0, <2>2, <2>4, <3>2, <4>1, <1>2 DEF Ranked
    <3> QED
      BY <3>1, <3>2
  <2> QED
    BY <2>3, <2>4, <1>1 DEF Acyclic, Ranked, Pids, Null
<1> QED
  BY <1>8, <1>9, <1>10, <1>11, <1>12, <1>13 DEF LinkInv

\* do_wait takes a zombie out of the list it is in.
LEMMA ReapKeepsLinks == TreeInv /\ WaitReap => LinkInv' /\ Acyclic'
<1> SUFFICES ASSUME TreeInv, WaitReap PROVE LinkInv' /\ Acyclic'
  OBVIOUS
<1>0. /\ LinkType /\ InitFirst /\ Unlinked /\ Heads /\ Parents /\ Youngers
      /\ Olders /\ Acyclic
  BY DEF TreeInv, LinkInv
<1>1. PICK z \in zombies : /\ Reap /\ live' = live \ {z}
                          /\ RemoveLinks(z)
                          /\ zombies' = zombies \ {z}
  BY DEF WaitReap
<1>2. /\ dying = Null /\ dying' = Null /\ z \in live /\ z # InitPid /\ pc = "idle"
      /\ UNCHANGED <<pc, last_pid>> /\ live \subseteq 1 .. MAX_PID - 1
      /\ InitPid \in live'
  BY <1>0, <1>1 DEF WaitReap, Reap, TreeInv, PidInv, TypeOK, InitFirst, LinkType
<1>3. /\ live \subseteq Pids /\ Listed \subseteq Pids /\ Null \notin Listed
      /\ Null \notin live /\ Null \notin Pids /\ z \in Pids
  BY <1>2, PidsListed DEF Listed
<1> DEFINE p == parent[z]
           y == yptr[z]
           o == optr[z]
<1>4. p \in Running /\ p \in Listed /\ p # z
  BY <1>0, <1>1, <1>2, <1>3 DEF Parents, Running
<1>5. PICK B \in Nat : \E rank \in [Pids -> 0 .. B] : Ranked(B, rank)
  BY <1>0 DEF Acyclic
<1>6. PICK rank \in [Pids -> 0 .. B] : Ranked(B, rank)
  BY <1>5
<1>7. /\ y = Null => cptr[p] = z
      /\ y # Null => y \in live /\ parent[y] = p /\ optr[y] = z
      /\ o # Null => o \in live /\ parent[o] = p /\ yptr[o] = z
  BY <1>0, <1>2, <1>3, <1>4 DEF Youngers, Olders
<1>8. /\ y # Null => rank[z] < rank[y]
      /\ o # Null => rank[o] < rank[z]
  BY <1>2, <1>3, <1>6, <1>7 DEF Ranked
<1>9. y # z /\ o # z /\ (y # Null => y # o)
  BY <1>3, <1>6, <1>7, <1>8
<1>10. /\ yptr' = [SetYounger(yptr, o, y) EXCEPT ![z] = Null]
       /\ optr' = [SetOlder(optr, y, o) EXCEPT ![z] = Null]
       /\ cptr' = IF y = Null THEN [cptr EXCEPT ![p] = o] ELSE cptr
       /\ parent' = [parent EXCEPT ![z] = Null]
  BY <1>1 DEF RemoveLinks
<1>11. p = parent[z] /\ y = yptr[z] /\ o = optr[z]
  OBVIOUS
<1>12. y \in Pids \cup {Null} /\ o \in Pids \cup {Null} /\ p \in Pids
  BY <1>0, <1>3, <1>4 DEF LinkType
<1> HIDE DEF p, y, o
<1>13. /\ yptr' \in [Pids -> Pids \cup {Null}]
       /\ optr' \in [Pids -> Pids \cup {Null}]
       /\ cptr' \in [Pids -> Pids \cup {Null}]
       /\ parent' \in [Pids -> Pids \cup {Null}]
  BY <1>0, <1>10, <1>12 DEF LinkType, SetYounger, SetOlder
<1>14. ASSUME NEW x \in Pids
       PROVE  /\ yptr'[x] = IF x = z THEN Null ELSE IF x = o THEN y ELSE yptr[x]
              /\ optr'[x] = IF x = z THEN Null ELSE IF x = y THEN o ELSE optr[x]
              /\ parent'[x] = IF x = z THEN Null ELSE parent[x]
              /\ cptr'[x] = IF y = Null /\ x = p THEN o ELSE cptr[x]
  BY <1>0, <1>3, <1>9, <1>10, <1>12 DEF LinkType, SetYounger, SetOlder
<1>15. cptr[z] = Null
  <2>1. \A x \in live : parent[x] # z
    BY <1>0, <1>1, <1>2, <1>3 DEF Parents, Running
  <2> QED
    BY <1>0, <1>2, <2>1 DEF Heads, Listed
<1>16. LinkType' /\ InitFirst'
  BY <1>0, <1>1, <1>2, <1>13 DEF LinkType, InitFirst, Pids, Null
<1>17. Unlinked'
  <2> SUFFICES ASSUME NEW x \in Pids, x \notin Listed' PROVE cptr'[x] = Null
    BY DEF Unlinked, Pids, Null
  <2>1. x = z \/ x \notin Listed
    BY <1>1 DEF Listed
  <2>2. x # p
    BY <2>1, <1>4
  <2> QED
    BY <2>1, <2>2, <1>0, <1>14, <1>15 DEF Unlinked
<1>18. Heads'
  <2> SUFFICES ASSUME NEW q \in Listed', cptr'[q] # Null
               PROVE /\ cptr'[q] \in live'
                     /\ parent'[cptr'[q]] = q
                     /\ yptr'[cptr'[q]] = Null
                     /\ \A d \in live' : optr'[d] # cptr'[q]
    BY DEF Heads, Null
  <2>1. q \in Listed /\ q \in Pids /\ q # z
    BY <1>1, <1>2, <1>3 DEF Listed, IdlePid
  <2>2. CASE y = Null /\ q = p
    <3>1. cptr'[q] = o /\ o # Null
      BY <2>1, <2>2, <1>14
    <3>2. ASSUME NEW d \in live' PROVE optr'[d] # o
      <4>1. d \in live /\ d # z /\ d \in Pids /\ d # y
        BY <2>2, <1>1, <1>3
      <4>2. optr'[d] = optr[d]
        BY <4>1, <1>14
      <4> QED
        BY <4>1, <4>2, <3>1, <1>0, <1>7 DEF Olders
    <3>3. o \in live /\ o # z /\ parent[o] = p
      BY <3>1, <1>7, <1>9
    <3> QED
      BY <2>2, <3>1, <3>2, <3>3, <1>1, <1>3, <1>14
  <2>3. CASE ~(y = Null /\ q = p)
    <3>1. cptr'[q] = cptr[q] /\ cptr[q] # Null
      BY <2>1, <2>3, <1>14
    <3>2. /\ cptr[q] \in live /\ parent[cptr[q]] = q /\ yptr[cptr[q]] = Null
          /\ \A d \in live : optr[d] # cptr[q]
      BY <2>1, <3>1, <1>0, <1>2, <1>3 DEF Heads
    <3>3. cptr[q] # z /\ (o # Null => cptr[q] # o)
      BY <2>3, <3>2, <1>3, <1>7, <1>11
    <3>4. ASSUME NEW d \in live' PROVE optr'[d] # cptr[q]
      BY <3>1, <3>2, <3>3, <1>1, <1>3, <1>14
    <3> QED
      BY <3>1, <3>2, <3>3, <3>4, <1>1, <1>3, <1>14
  <2> QED
    BY <2>2, <2>3
<1>19. Parents'
  <2> SUFFICES ASSUME NEW x \in live' PROVE parent'[x] \in Running' /\ parent'[x] \in Listed'
    BY DEF Parents
  <2>1. x \in live /\ x # z /\ parent'[x] = parent[x]
    BY <1>1, <1>3, <1>14
  <2>2. parent[x] \in Running /\ parent[x] \in Listed
    BY <2>1, <1>0, <1>2, <1>3 DEF Parents
  <2> QED
    BY <2>1, <2>2, <1>1 DEF Running, Listed, IdlePid
<1>20. Youngers'
  <2> SUFFICES ASSUME NEW x \in live'
               PROVE /\ yptr'[x] = Null => cptr'[parent'[x]] = x
                     /\ yptr'[x] # Null => /\ yptr'[x] \in live'
                                           /\ parent'[yptr'[x]] = parent'[x]
                                           /\ optr'[yptr'[x]] = x
    BY DEF Youngers, Null
  <2>1. x \in live /\ x # z /\ x \in Pids /\ parent'[x] = parent[x]
        /\ parent[x] \in Pids
    BY <1>0, <1>1, <1>3, <1>14 DEF Parents
  <2>2. CASE x = o
    <3>1. yptr'[x] = y /\ parent[x] = p
      BY <2>1, <2>2, <1>3, <1>7, <1>14
    <3>2. y # Null => y \in live' /\ y \in Pids /\ parent'[y] = p /\ optr'[y] = o
      BY <1>1, <1>3, <1>7, <1>9, <1>14
    <3> QED
      BY <2>1, <2>2, <3>1, <3>2, <1>12, <1>14
  <2>3. CASE x # o
    <3>1. yptr'[x] = yptr[x]
      BY <2>1, <2>3, <1>14
    <3>2. CASE yptr[x] = Null
      <4>1. cptr[parent[x]] = x
        BY <2>1, <3>2, <1>0 DEF Youngers
      <4>2. ~(y = Null /\ parent[x] = p)
        BY <2>1, <4>1, <1>7
      <4> QED
        BY <2>1, <3>1, <3>2, <4>1, <4>2, <1>14
    <3>3. CASE yptr[x] # Null
      <4>1. /\ yptr[x] \in live /\ parent[yptr[x]] = parent[x]
            /\ optr[yptr[x]] = x
        BY <2>1, <3>3, <1>0, <1>2, <1>3 DEF Youngers, Parents
      <4>2. yptr[x] # z /\ yptr[x] # y
        BY <2>1, <2>3, <4>1, <1>3, <1>7, <1>11
      <4> QED
        BY <2>1, <3>1, <3>3, <4>1, <4>2, <1>1, <1>3, <1>14
    <3> QED
      BY <3>2, <3>3
  <2> QED
    BY <2>2, <2>3
<1>21. Olders'
  <2> SUFFICES ASSUME NEW x \in live', optr'[x] # Null
               PROVE /\ optr'[x] \in live' /\ parent'[optr'[x]] = parent'[x]
                     /\ yptr'[optr'[x]] = x
    BY DEF Olders, Null
  <2>1. x \in live /\ x # z /\ x \in Pids /\ parent'[x] = parent[x]
    BY <1>1, <1>3, <1>14
  <2>2. CASE x = y
    <3>1. optr'[x] = o /\ o # Null /\ parent[x] = p
      BY <2>1, <2>2, <1>3, <1>7, <1>14
    <3>2. o \in live /\ o # z /\ parent[o] = p /\ o \in Pids
      BY <3>1, <1>3, <1>7, <1>9
    <3> QED
      BY <2>1, <2>2, <3>1, <3>2, <1>1, <1>14
  <2>3. CASE x # y
    <3>1. optr'[x] = optr[x]
      BY <2>1, <2>3, <1>14
    <3>2. optr[x] \in live /\ parent[optr[x]] = parent[x] /\ yptr[optr[x]] = x
      BY <2>1, <3>1, <1>0 DEF Olders
    <3>3. optr[x] # z /\ optr[x] # o
      BY <2>1, <2>3, <3>2, <1>3, <1>7, <1>11
    <3> QED
      BY <2>1, <3>1, <3>2, <3>3, <1>1, <1>3, <1>14
  <2> QED
    BY <2>2, <2>3
<1>22. Acyclic'
  <2>1. ASSUME NEW x \in live', optr'[x] # Null PROVE rank[optr'[x]] < rank[x]
    <3>1. x \in live /\ x # z /\ x \in Pids
      BY <1>1, <1>3
    <3>2. CASE x = y
      <4>1. optr'[x] = o /\ o # Null /\ o \in Pids /\ y \in Pids
        BY <2>1, <3>1, <3>2, <1>12, <1>14
      <4> QED
        BY <3>2, <4>1, <1>3, <1>6, <1>8
    <3>3. CASE x # y
      BY <2>1, <3>1, <3>3, <1>6, <1>14 DEF Ranked
    <3> QED
      BY <3>2, <3>3
  <2> QED
    BY <2>1, <1>6 DEF Acyclic, Ranked, Pids, Null
<1> QED
  BY <1>16, <1>17, <1>18, <1>19, <1>20, <1>21, <1>22 DEF LinkInv

\* A step of get_pid changes no link.
LEMMA PidStepKeepsLinks == TreeInv /\ PidStep => LinkInv' /\ Acyclic'
<1> SUFFICES ASSUME TreeInv, PidStep PROVE LinkInv' /\ Acyclic'
  OBVIOUS
<1> USE DEF TreeInv, LinkInv
<1>1. UNCHANGED <<live, parent, cptr, yptr, optr, zombies, dying>>
  BY DEF PidStep, links, Enter, MeetTaken, MeetOther, ScanEnd
<1>2. InitFirst'
  <2>1. live # {} => InitPid \in live'
    BY <1>1 DEF InitFirst
  <2>2. pc' # "idle" => dying' = Null
    BY <1>1 DEF PidStep, InitFirst, Enter, MeetTaken, MeetOther, ScanEnd, Null
  <2>3. live = {} => pc' # "idle" /\ last_pid' = InitPid
    BY PidBounds DEF PidStep, InitFirst, Enter, MeetTaken, MeetOther, ScanEnd, Wrap,
                     InitPid
  <2> QED
    BY <1>1, <2>1, <2>2, <2>3 DEF InitFirst, InitPid, Null
<1>3. LinkType' /\ Unlinked' /\ Heads' /\ Parents' /\ Youngers' /\ Olders'
  BY <1>1 DEF LinkType, Unlinked, Heads, Parents, Youngers, Olders, Running, Listed,
              Pids, Null, IdlePid, InitPid
<1>4. Acyclic'
  BY <1>1 DEF Acyclic, Ranked, Pids, Null
<1> QED
  BY <1>2, <1>3, <1>4

\* Neither does a step of somebody else.
LEMMA StutterKeepsLinks == TreeInv /\ UNCHANGED treeVars => LinkInv' /\ Acyclic'
<1> SUFFICES ASSUME TreeInv, UNCHANGED treeVars PROVE LinkInv' /\ Acyclic'
  OBVIOUS
<1> USE DEF TreeInv, LinkInv, treeVars, vars, links
<1>1. LinkInv'
  BY DEF LinkType, InitFirst, Unlinked, Heads, Parents, Youngers, Olders, Running,
         Listed, Pids, Null, IdlePid, InitPid
<1>2. Acyclic'
  BY DEF Acyclic, Ranked, Pids, Null
<1> QED
  BY <1>1, <1>2

\* TreeInv is inductive.
LEMMA NextTree == TreeInv /\ [TreeNext]_treeVars => TreeInv'
<1> SUFFICES ASSUME TreeInv, [TreeNext]_treeVars PROVE TreeInv'
  OBVIOUS
<1>1. PidInv'
  BY TreeStepIsStep, NextPidInv DEF TreeInv
<1>2. LinkInv' /\ Acyclic'
  BY PidStepKeepsLinks, ForkKeepsLinks, ExitKeepsLinks, AdoptKeepsLinks,
     ExitDoneKeepsLinks, ReapKeepsLinks, StutterKeepsLinks DEF TreeNext
<1> QED
  BY <1>1, <1>2 DEF TreeInv

\* TreeInv is an invariant of every behaviour of fork, exit and wait.
THEOREM TreeInvariant == TreeSpec => []TreeInv
  BY InitTree, NextTree, PTL DEF TreeSpec

\* The links of set_links, remove_links and do_exit agree whenever no process
\* is in the middle of do_fork or do_exit, and none of them dangles.
THEOREM LinksAlwaysAgree == TreeSpec => []LinksAgree
<1>1. TreeInv => LinksAgree
  <2> SUFFICES ASSUME TreeInv, dying = Null PROVE LinksAgree
    BY DEF LinksAgree
  <2> USE DEF TreeInv, LinkInv
  <2>1. live \subseteq Pids /\ Null \notin Listed
    BY PidsListed DEF PidInv, TypeOK
  <2>2. ASSUME NEW p \in {IdlePid} \cup live, cptr[p] # Null
        PROVE  cptr[p] \in Children(p) /\ yptr[cptr[p]] = Null
    BY <2>1, <2>2 DEF Heads, Children, Listed
  <2>3. ASSUME NEW c \in live
        PROVE  /\ parent[c] \in Running
               /\ yptr[c] = Null => cptr[parent[c]] = c
               /\ yptr[c] # Null => /\ yptr[c] \in Children(parent[c])
                                    /\ optr[yptr[c]] = c
               /\ optr[c] # Null => /\ optr[c] \in Children(parent[c])
                                    /\ yptr[optr[c]] = c
    BY <2>1, <2>3 DEF Parents, Youngers, Olders, Children, Listed
  <2> QED
    BY <2>2, <2>3 DEF LinksAgree
<1> QED
  BY <1>1, TreeInvariant, PTL

\* The loop of do_wait over cptr and optr meets every child of the caller, and
\* nothing but its children.
THEOREM WaitSeesChildren == TreeSpec => []ChildrenReached
<1>1. TreeInv => ChildrenReached
  <2> SUFFICES ASSUME TreeInv, dying = Null, NEW p \in Listed
               PROVE  Reached(p) = Children(p)
    BY DEF ChildrenReached, Listed
  <2>1. Null \notin Listed
    BY PidsListed DEF TreeInv, PidInv, TypeOK
  <2>2. Children(p) \subseteq Reached(p)
    BY ListCovers DEF Reached, Children
  <2>3. Reached(p) \subseteq Children(p)
    <3>1. Children(p) \in SUBSET live
      BY DEF Children
    <3>2. cptr[p] \in Children(p) \cup {Null}
      BY <2>1 DEF TreeInv, LinkInv, Heads, Children
    <3>3. \A d \in Children(p) : optr[d] \in Children(p) \cup {Null}
      BY DEF TreeInv, LinkInv, Olders, Children
    <3> HIDE DEF Children
    <3> QED
      BY <3>1, <3>2, <3>3 DEF Reached
  <2> QED
    BY <2>2, <2>3
<1> QED
  BY <1>1, TreeInvariant, PTL

\* get_pid gives no pid twice, whoever forks, exits and waits for whom, and its
\* cached window is never stale.
THEOREM TreePidsSound == TreeSpec => []PidSound
<1>1. TreeInv => PidSound
  BY PidBounds
  DEF TreeInv, PidInv, TypeOK, CallWindow, Passed, PidFresh, SafeWindow, PidSound
<1> QED
  BY <1>1, TreeInvariant, PTL

\* With the families around it, get_pid still implements the allocator that
\* picks an unused pid.
THEOREM TreeRefines == TreeSpec => RefinesPidAlloc
<1>1. TreeInit => PA!AbsInit
  BY DEF TreeInit, Init, PA!AbsInit
<1>2. TreeInv /\ [TreeNext]_treeVars => [PA!AbsNext]_live
  BY TreeStepIsStep, StepRefines DEF TreeInv
<1> QED
  BY <1>1, <1>2, TreeInvariant, PTL DEF TreeSpec, PA!AbsSpec, RefinesPidAlloc

-----------------------------------------------------------------------------
(* Sums along a sequence. *)

\* Every nonempty set of numbers has a least one.
LEMMA Least ==
  ASSUME NEW T, T \subseteq Nat, T # {}
  PROVE  \E m \in T : \A n \in T : m <= n
<1>1. PICK m \in T : \A n \in T : ~ (<<n, m>> \in OpToRel(<, Nat))
  BY NatLessThanWellFounded, WFMin
<1>2. ASSUME NEW n \in T, n < m PROVE FALSE
  <2>1. <<n, m>> \in OpToRel(<, Nat)
    BY <1>2, LessIsBelow
  <2> QED BY <1>1, <2>1
<1>3. \A n \in T : n \in Nat /\ m \in Nat
  OBVIOUS
<1> QED BY <1>2, <1>3

\* f adds up the numbers d[1], d[2], ... from a on.
Adds(f, m, d, a) ==
    /\ f[0] = a
    /\ \A i \in 1 .. m : f[i] = f[i - 1] + d[i]

\* Two functions that add up the same are the same.
LEMMA SumUnique ==
  ASSUME NEW m \in Nat, NEW f, NEW g, NEW d, NEW a, Adds(f, m, d, a), Adds(g, m, d, a)
  PROVE  \A i \in 0 .. m : f[i] = g[i]
<1> SUFFICES ASSUME NEW x \in 0 .. m, f[x] # g[x] PROVE FALSE
  OBVIOUS
<1> DEFINE T == {i \in 0 .. m : f[i] # g[i]}
<1>1. PICK k \in T : \A i \in T : k <= i
  <2> T \subseteq Nat /\ T # {}
    OBVIOUS
  <2> QED BY Least
<1>2. k # 0 /\ k \in 1 .. m
  BY DEF Adds
<1>3. k - 1 \in 0 .. m /\ k - 1 \notin T
  BY <1>1, <1>2
<1> QED BY <1>2, <1>3 DEF Adds

\* There is such a function.
LEMMA SumExists ==
  ASSUME NEW m \in Nat, NEW d \in [1 .. m -> Int], NEW a \in Int
  PROVE  \E f \in [0 .. m -> Int] : Adds(f, m, d, a)
<1> DEFINE T == {n \in 0 .. m : ~ \E f \in [0 .. n -> Int] : Adds(f, n, d, a)}
<1> SUFFICES ASSUME T # {} PROVE FALSE
  OBVIOUS
<1>1. PICK k \in T : \A i \in T : k <= i
  <2> T \subseteq Nat /\ T # {}
    OBVIOUS
  <2> QED BY Least
<1>2. k # 0
  <2>1. Adds([i \in 0 .. 0 |-> a], 0, d, a)
    BY DEF Adds
  <2> QED BY <2>1
<1>3. k - 1 \in 0 .. m /\ k - 1 \notin T
  BY <1>1, <1>2
<1>4. PICK f \in [0 .. k - 1 -> Int] : Adds(f, k - 1, d, a)
  BY <1>3
<1> DEFINE g == [i \in 0 .. k |-> IF i = k THEN f[k - 1] + d[k] ELSE f[i]]
<1>5. g \in [0 .. k -> Int]
  BY <1>2, <1>4
<1>6. Adds(g, k, d, a)
  <2>1. k \in Nat \ {0} /\ k \in 0 .. m
    BY <1>2
  <2>2. g[0] = a
    BY <2>1, <1>4 DEF Adds
  <2>3. ASSUME NEW i \in 1 .. k PROVE g[i] = g[i - 1] + d[i]
    <3>1. CASE i = k
      BY <2>1, <3>1
    <3>2. CASE i # k
      BY <2>1, <3>2, <1>4 DEF Adds
    <3> QED BY <3>1, <3>2
  <2> QED BY <2>2, <2>3 DEF Adds
<1> QED BY <1>5, <1>6

\* What never falls from one to the next never falls.
LEMMA Monotone ==
  ASSUME NEW m \in Nat, NEW f \in [0 .. m -> Int], NEW i \in 0 .. m,
         \A j \in i + 1 .. m : f[j - 1] <= f[j]
  PROVE  \A j \in i .. m : f[i] <= f[j]
<1> SUFFICES ASSUME NEW x \in i .. m, ~ (f[i] <= f[x]) PROVE FALSE
  OBVIOUS
<1> DEFINE T == {j \in i .. m : ~ (f[i] <= f[j])}
<1>1. PICK k \in T : \A j \in T : k <= j
  <2> x \in T /\ T \subseteq Nat
    OBVIOUS
  <2> QED BY Least
<1>2. k \in i + 1 .. m
  BY <1>1
<1>3. k - 1 \in i .. m /\ k - 1 \notin T
  BY <1>1, <1>2
<1> QED BY <1>2, <1>3

Deltas == [i \in 1 .. Len(list) |-> expires[list[i]]]

\* Due is the sum that its recursion says.
LEMMA DueAdds ==
  TimerTypeOK => Due \in [0 .. Len(list) -> Int] /\ Adds(Due, Len(list), Deltas, 0)
<1> SUFFICES ASSUME TimerTypeOK
             PROVE  Due \in [0 .. Len(list) -> Int] /\ Adds(Due, Len(list), Deltas, 0)
  OBVIOUS
<1>1. Len(list) \in Nat /\ Deltas \in [1 .. Len(list) -> Int]
  BY DEF TimerTypeOK, Deltas
<1>2. PICK f \in [0 .. Len(list) -> Int] : Adds(f, Len(list), Deltas, 0)
  BY <1>1, SumExists
<1>3. f = [i \in 0 .. Len(list) |-> IF i = 0 THEN 0 ELSE f[i - 1] + expires[list[i]]]
  BY <1>1, <1>2 DEF Adds, Deltas
<1>4. Due = [i \in 0 .. Len(list) |-> IF i = 0 THEN 0 ELSE Due[i - 1] + expires[list[i]]]
  BY <1>3 DEF Due
<1>5. Adds(Due, Len(list), Deltas, 0)
  BY <1>1, <1>4 DEF Adds, Deltas
<1>6. ASSUME NEW i \in 0 .. Len(list) PROVE Due[i] = f[i]
  BY ONLY <1>1, <1>2, <1>5, <1>6, SumUnique
<1> QED
  BY <1>4, <1>5, <1>6

\* The i-th timer has g[i] ticks left, timers that are not linked none.
LeftAre(g) == /\ Left = [t \in Timers |-> Left[t]]
              /\ \A i \in 1 .. Len(list) : Left[list[i]] = g[i]
              /\ \A t \in Timers \ Armed : Left[t] = Unarmed

\* What is known in any state: the i-th timer has Due[i] ticks left, no less
\* than those before it.
DueSound == /\ Len(list) \in Nat /\ DOMAIN list = 1 .. Len(list)
            /\ \A i \in 1 .. Len(list) : list[i] \in Timers
            /\ Due \in [0 .. Len(list) -> Int]
            /\ Adds(Due, Len(list), Deltas, 0)
            /\ Due[0] = 0
            /\ \A i \in 1 .. Len(list) :
                  /\ Due[i] \in Int /\ Due[i - 1] \in Int
                  /\ Due[i] = Due[i - 1] + expires[list[i]]
            /\ LeftAre(Due)
            /\ \A i \in 1 .. Len(list) : Due[i] >= Due[1] /\ Due[i] >= 0
            /\ \A i \in 1 .. Len(list) : Due[i - 1] <= Due[i]

LEMMA LeftIs == DeltaInv => DueSound
<1> SUFFICES ASSUME DeltaInv PROVE DueSound
  OBVIOUS
<1>1. /\ Len(list) \in Nat /\ DOMAIN list = 1 .. Len(list)
      /\ \A i \in 1 .. Len(list) : list[i] \in Timers
  BY DEF DeltaInv, TimerTypeOK
<1>2. Due \in [0 .. Len(list) -> Int] /\ Adds(Due, Len(list), Deltas, 0)
  BY DueAdds DEF DeltaInv
<1>3. Left = [t \in Timers |-> Left[t]]
  BY DEF Left
<1>4. \A t \in Timers \ Armed : Left[t] = Unarmed
  BY DEF Left
<1>5. ASSUME NEW i \in 1 .. Len(list) PROVE Left[list[i]] = Due[i]
  <2>1. Place(list[i]) = i
    BY <1>1 DEF Place, DeltaInv, DeltasSound
  <2>2. list[i] \in Armed /\ list[i] \in Timers
    BY <1>1 DEF Armed
  <2> QED BY <2>1, <2>2 DEF Left
<1>6. ASSUME NEW i \in 1 .. Len(list) PROVE Due[i - 1] <= Due[i]
  <2>1. expires[list[i]] >= 0 /\ expires[list[i]] \in Int
    BY <1>1 DEF DeltaInv, DeltasSound, TimerTypeOK
  <2>2. Due[i] = Due[i - 1] + expires[list[i]] /\ Due[i - 1] \in Int
    BY <1>1, <1>2 DEF Adds, Deltas
  <2> QED BY <2>1, <2>2
<1>7. \A i \in 0 .. Len(list) : Due[0] <= Due[i]
  <2>1. 0 \in 0 .. Len(list) /\ \A j \in 0 + 1 .. Len(list) : Due[j - 1] <= Due[j]
    BY <1>1, <1>6
  <2> QED BY <1>1, <1>2, <2>1, Monotone
<1>8. ASSUME NEW i \in 1 .. Len(list) PROVE Due[1] <= Due[i]
  <2>1. 1 \in 0 .. Len(list) /\ \A j \in 1 + 1 .. Len(list) : Due[j - 1] <= Due[j]
    BY <1>1, <1>6
  <2> QED BY <1>1, <1>2, <2>1, Monotone
<1>9. \A i \in 1 .. Len(list) : Due[i] >= Due[1] /\ Due[i] >= 0
  BY <1>1, <1>2, <1>7, <1>8 DEF Adds
<1>10. ASSUME NEW i \in 1 .. Len(list)
       PROVE  /\ Due[i] \in Int /\ Due[i - 1] \in Int
              /\ Due[i] = Due[i - 1] + expires[list[i]]
  <2>1. i \in 0 .. Len(list) /\ i - 1 \in 0 .. Len(list)
    BY <1>1
  <2> QED BY <1>2, <2>1 DEF Adds, Deltas
<1>11. Due[0] = 0
  BY <1>2 DEF Adds
<1> QED BY <1>1, <1>2, <1>3, <1>4, <1>5, <1>6, <1>9, <1>10, <1>11 DEF DueSound, LeftAre

\* After a step: any function that adds up the new deltas tells what is left.
LEMMA LeftNext ==
  ASSUME DeltaInv', NEW g, Adds(g, Len(list'), Deltas', 0)
  PROVE  LeftAre(g)'
<1>1. DueSound'
  BY LeftIs, PTL
<1>2. ASSUME NEW i \in 1 .. Len(list') PROVE Due'[i] = g[i]
  <2>1. Len(list') \in Nat /\ Adds(Due', Len(list'), Deltas', 0) /\ i \in 0 .. Len(list')
    BY <1>1, <1>2 DEF DueSound
  <2> QED BY ONLY <2>1, Adds(g, Len(list'), Deltas', 0), SumUnique
<1> QED BY <1>1, <1>2 DEF DueSound, LeftAre

-----------------------------------------------------------------------------
(* Elements of a sequence that one is taken out of or put into. *)

\* One sequence behind another.
LEMMA Joined ==
  ASSUME NEW S, NEW a \in Seq(S), NEW b \in Seq(S), NEW r, r = a \o b
  PROVE  /\ r \in Seq(S) /\ Len(r) = Len(a) + Len(b)
         /\ \A i \in 1 .. Len(a) : r[i] = a[i]
         /\ \A i \in 1 .. Len(b) : r[Len(a) + i] = b[i]
<1>1. r \in Seq(S) /\ Len(r) = Len(a) + Len(b)
  OBVIOUS
<1>2. \A i \in 1 .. Len(a) : r[i] = a[i]
  OBVIOUS
<1>3. \A i \in 1 .. Len(b) : r[Len(a) + i] = b[i]
  OBVIOUS
<1> QED BY <1>1, <1>2, <1>3

\* The first k elements.
LEMMA FrontPart ==
  ASSUME NEW S, NEW s \in Seq(S), NEW k \in 0 .. Len(s), NEW a, a = SubSeq(s, 1, k)
  PROVE  a \in Seq(S) /\ Len(a) = k /\ \A m \in 1 .. k : a[m] = s[m]
OBVIOUS

\* b is the elements of s from the j-th on.
Rear(S, s, j, b) == /\ b \in Seq(S) /\ Len(b) = Len(s) - j + 1
                    /\ \A m \in j .. Len(s) : b[m - j + 1] = s[m]

LEMMA RearPart ==
  ASSUME NEW S, NEW s \in Seq(S), NEW j \in 1 .. Len(s) + 1,
         NEW b, b = SubSeq(s, j, Len(s))
  PROVE  Rear(S, s, j, b)
<1>1. Len(s) \in Nat
  OBVIOUS
<1>2. b \in Seq(S) /\ Len(b) = Len(s) - j + 1
  BY <1>1
<1>3. ASSUME NEW m \in j .. Len(s) PROVE b[m - j + 1] = s[m]
  <2>1. m - j + 1 \in 1 .. Len(s) - j + 1 /\ j + (m - j + 1) - 1 = m
    BY <1>1
  <2> QED BY <1>1, <2>1
<1> QED BY <1>2, <1>3 DEF Rear

\* RemoveAt closes the gap: r is s without its p-th element.
Closed(S, s, p, r) ==
  /\ r \in Seq(S) /\ Len(r) = Len(s) - 1 /\ DOMAIN r = 1 .. Len(s) - 1
  /\ \A i \in 1 .. Len(s) - 1 : r[i] = IF i < p THEN s[i] ELSE s[i + 1]

LEMMA Removed ==
  ASSUME NEW S, NEW s \in Seq(S), NEW p \in 1 .. Len(s), NEW r, r = RemoveAt(s, p)
  PROVE  Closed(S, s, p, r)
<1>1. Len(s) \in Nat
  OBVIOUS
<1>2. PICK a : a = SubSeq(s, 1, p - 1)
  OBVIOUS
<1>3. PICK j : j = p + 1
  OBVIOUS
<1>0. PICK b : b = SubSeq(s, j, Len(s))
  OBVIOUS
<1>4. r = a \o b
  BY <1>0, <1>2, <1>3 DEF RemoveAt
<1>5. /\ a \in Seq(S) /\ Len(a) = p - 1 /\ \A m \in 1 .. p - 1 : a[m] = s[m]
      /\ b \in Seq(S) /\ Len(b) = Len(s) - (p + 1) + 1
      /\ \A m \in p + 1 .. Len(s) : b[m - (p + 1) + 1] = s[m]
  <2>1. p - 1 \in 0 .. Len(s) /\ p + 1 \in 1 .. Len(s) + 1
    BY <1>1
  <2>2. a \in Seq(S) /\ Len(a) = p - 1 /\ \A m \in 1 .. p - 1 : a[m] = s[m]
    BY <1>2, <2>1, FrontPart
  <2>3. j \in 1 .. Len(s) + 1
    BY <1>3, <2>1
  <2>4. Rear(S, s, j, b)
    BY <1>0, <2>3, RearPart
  <2>5. Len(b) = Len(s) - (p + 1) + 1 /\ b \in Seq(S)
    BY ONLY <1>3, <2>4 DEF Rear
  <2>6. ASSUME NEW m \in p + 1 .. Len(s) PROVE b[m - (p + 1) + 1] = s[m]
    BY ONLY <1>3, <2>4 DEF Rear
  <2> QED BY ONLY <2>2, <2>5, <2>6
<1>6. /\ r \in Seq(S) /\ Len(r) = Len(a) + Len(b)
      /\ \A i \in 1 .. Len(a) : r[i] = a[i]
      /\ \A i \in 1 .. Len(b) : r[Len(a) + i] = b[i]
  <2>1. a \in Seq(S) /\ b \in Seq(S)
    BY <1>5
  <2> QED BY ONLY <1>4, <2>1, Joined
<1>7. ASSUME NEW i \in 1 .. Len(s) - 1, ~ (i < p) PROVE r[i] = s[i + 1]
  <2>1. i - p + 1 \in 1 .. Len(b) /\ Len(a) + (i - p + 1) = i
    BY <1>1, <1>5, <1>7
  <2>2. i + 1 \in p + 1 .. Len(s) /\ i + 1 - (p + 1) + 1 = i - p + 1
    BY <1>1, <1>7
  <2>3. r[i] = b[i - p + 1]
    BY <1>6, <2>1
  <2> QED BY <1>5, <2>2, <2>3
<1>8. ASSUME NEW i \in 1 .. Len(s) - 1, i < p PROVE r[i] = s[i]
  BY <1>5, <1>6, <1>8
<1>9. DOMAIN r = 1 .. Len(s) - 1
  BY <1>1, <1>5, <1>6
<1> QED BY <1>1, <1>5, <1>6, <1>7, <1>8, <1>9 DEF Closed

\* InsertAt makes room: r is s with e at place j.
Opened(S, s, j, e, r) ==
  /\ r \in Seq(S) /\ Len(r) = Len(s) + 1 /\ DOMAIN r = 1 .. Len(s) + 1
  /\ \A i \in 1 .. Len(s) + 1 :
        r[i] = IF i < j THEN s[i] ELSE IF i = j THEN e ELSE s[i - 1]

LEMMA Inserted ==
  ASSUME NEW S, NEW s \in Seq(S), NEW j \in 1 .. Len(s) + 1, NEW e \in S, NEW r,
         r = InsertAt(s, j, e)
  PROVE  Opened(S, s, j, e, r)
<1>1. Len(s) \in Nat
  OBVIOUS
<1>2. PICK a : a = SubSeq(s, 1, j - 1)
  OBVIOUS
<1>3. PICK b : b = SubSeq(s, j, Len(s))
  OBVIOUS
<1>4. PICK c : c = a \o <<e>>
  OBVIOUS
<1>5. r = c \o b
  BY <1>2, <1>3, <1>4 DEF InsertAt
<1>6. /\ a \in Seq(S) /\ Len(a) = j - 1 /\ \A m \in 1 .. j - 1 : a[m] = s[m]
      /\ b \in Seq(S) /\ Len(b) = Len(s) - j + 1
      /\ \A m \in j .. Len(s) : b[m - j + 1] = s[m]
  <2>1. j - 1 \in 0 .. Len(s)
    BY <1>1
  <2>2. a \in Seq(S) /\ Len(a) = j - 1 /\ \A m \in 1 .. j - 1 : a[m] = s[m]
    BY <1>2, <2>1, FrontPart
  <2>3. Rear(S, s, j, b)
    BY <1>3, RearPart
  <2> QED BY <2>2, <2>3 DEF Rear
<1>7. c \in Seq(S) /\ Len(c) = j /\ c[j] = e /\ \A i \in 1 .. j - 1 : c[i] = a[i]
  <2>1. <<e>> \in Seq(S) /\ Len(<<e>>) = 1 /\ <<e>>[1] = e /\ 1 \in 1 .. 1
    OBVIOUS
  <2>2. /\ c \in Seq(S) /\ Len(c) = Len(a) + 1
        /\ \A i \in 1 .. Len(a) : c[i] = a[i]
        /\ c[Len(a) + 1] = e
    BY <1>4, <1>6, <2>1, Joined
  <2> QED BY <1>6, <2>2
<1>8. /\ r \in Seq(S) /\ Len(r) = Len(c) + Len(b)
      /\ \A i \in 1 .. Len(c) : r[i] = c[i]
      /\ \A i \in 1 .. Len(b) : r[Len(c) + i] = b[i]
  <2>1. c \in Seq(S) /\ b \in Seq(S)
    BY <1>6, <1>7
  <2> QED BY ONLY <1>5, <2>1, Joined
<1>9. ASSUME NEW i \in 1 .. Len(s) + 1, i <= j
      PROVE  r[i] = IF i < j THEN s[i] ELSE e
  BY <1>6, <1>7, <1>8, <1>9
<1>10. ASSUME NEW i \in 1 .. Len(s) + 1, i > j PROVE r[i] = s[i - 1]
  <2>1. i - j \in 1 .. Len(b) /\ Len(c) + (i - j) = i
    BY <1>1, <1>6, <1>7, <1>10
  <2>2. i - 1 \in j .. Len(s) /\ i - 1 - j + 1 = i - j
    BY <1>1, <1>10
  <2>3. r[i] = b[i - j]
    BY <1>8, <2>1
  <2> QED BY <1>6, <2>2, <2>3
<1>11. Len(r) = Len(s) + 1 /\ DOMAIN r = 1 .. Len(s) + 1
  BY <1>1, <1>6, <1>7, <1>8
<1>12. ASSUME NEW i \in 1 .. Len(s) + 1
       PROVE  r[i] = IF i < j THEN s[i] ELSE IF i = j THEN e ELSE s[i - 1]
  BY <1>1, <1>9, <1>10
<1> QED BY <1>8, <1>11, <1>12 DEF Opened

-----------------------------------------------------------------------------
(* The steps. *)

\* The empty list is no timer armed.
LEMMA InitTimers == TimerInit => DeltaInv /\ TA!AbsInit
<1> SUFFICES ASSUME TimerInit PROVE DeltaInv /\ TA!AbsInit
  OBVIOUS
<1>1. DeltaInv
  <2>1. list \in Seq(Timers) /\ DOMAIN list = {} /\ list = <<>>
    BY DEF TimerInit
  <2>2. TimerTypeOK
    <3>1. expires = [t \in Timers |-> 0] /\ running = FALSE
      BY DEF TimerInit
    <3>2. expires \in [Timers -> Int]
      BY <3>1
    <3>3. running \in BOOLEAN
      BY <3>1
    <3> QED BY ONLY <2>1, <3>2, <3>3 DEF TimerTypeOK
  <2>3. DeltasSound
    BY ONLY <2>1 DEF DeltasSound
  <2> QED BY <2>2, <2>3 DEF DeltaInv
<1>2. Armed = {}
  BY DEF TimerInit, Armed
<1>3. Left = [t \in Timers |-> Unarmed]
  BY <1>2 DEF Left
<1> QED BY <1>1, <1>3 DEF TimerInit, TA!AbsInit, Unarmed, TA!Unarmed

\* One tick off the first delta is one tick off every timer.
LEMMA TickTimers ==
  ASSUME DeltaInv, Tick PROVE DeltaInv' /\ TA!Tick
<1>1. DueSound
  BY LeftIs
<1>0. PICK g : g = [i \in 0 .. Len(list) |-> IF i = 0 THEN 0 ELSE Due[i] - 1]
  OBVIOUS
<1>2. CASE list = <<>>
  <2>1. expires' = expires /\ list' = list /\ running' = TRUE /\ ~running
    BY <1>2 DEF Tick, Advanced
  <2>2. DeltaInv'
    BY <2>1 DEF DeltaInv, TimerTypeOK, DeltasSound
  <2>3. Armed = {} /\ Armed' = {}
    BY <1>2, <2>1 DEF Armed
  <2>4. Left = [t \in Timers |-> Unarmed] /\ Left' = [t \in Timers |-> Unarmed]
    BY <2>3 DEF Left
  <2> QED BY <2>1, <2>2, <2>4 DEF TA!Tick, Unarmed, TA!Unarmed
<1>3. CASE list # <<>>
  <2>1. /\ list' = list /\ running' = TRUE /\ ~running
        /\ expires' = [expires EXCEPT ![list[1]] = @ - 1]
        /\ 1 \in 1 .. Len(list) /\ Head(list) = list[1]
    BY <1>1, <1>3 DEF DueSound, Tick, Advanced, DeltaInv, TimerTypeOK
  <2>2. \A i \in 1 .. Len(list) :
          expires'[list[i]] = IF i = 1 THEN expires[list[i]] - 1 ELSE expires[list[i]]
    BY <1>1, <2>1 DEF DueSound, DeltaInv, DeltasSound, TimerTypeOK
  <2>3. expires' \in [Timers -> Int]
    BY <1>1, <2>1 DEF DueSound, DeltaInv, TimerTypeOK
  <2>4. \A i \in 1 .. Len(list) : expires[list[i]] \in Int /\ expires[list[i]] >= 0
    BY <1>1 DEF DueSound, DeltaInv, DeltasSound, TimerTypeOK
  <2>5. expires[list[1]] > 0
    BY <1>3, <2>1 DEF DeltaInv, DeltasSound
  <2>6. DeltaInv'
    <3>1. \A i \in 1 .. Len(list) : expires'[list[i]] >= 0
      BY <2>2, <2>4, <2>5
    <3> QED BY <1>1, <2>1, <2>3, <3>1 DEF DueSound, DeltaInv, DeltasSound, TimerTypeOK
  <2>7. Adds(g, Len(list'), Deltas', 0)
    <3>1. ASSUME NEW i \in 1 .. Len(list) PROVE g[i] = g[i - 1] + expires'[list[i]]
      <4>1. /\ Due[i] = Due[i - 1] + expires[list[i]] /\ Due[0] = 0
            /\ Due[i - 1] \in Int /\ Due[i] \in Int
            /\ i \in 0 .. Len(list) /\ i - 1 \in 0 .. Len(list) /\ i # 0
        BY <1>1 DEF DueSound, Adds, Deltas
      <4>2. g[i] = Due[i] - 1 /\ g[i - 1] = IF i = 1 THEN 0 ELSE Due[i - 1] - 1
        BY <1>0, <4>1
      <4>3. /\ expires[list[i]] \in Int
            /\ expires'[list[i]] = IF i = 1 THEN expires[list[i]] - 1 ELSE expires[list[i]]
        BY <2>2, <2>4
      <4>4. CASE i = 1
        BY ONLY <4>1, <4>2, <4>3, <4>4
      <4>5. CASE i # 1
        BY ONLY <4>1, <4>2, <4>3, <4>5
      <4> QED BY <4>4, <4>5
    <3>2. /\ Deltas' = [i \in 1 .. Len(list) |-> expires'[list[i]]]
          /\ Len(list') = Len(list) /\ g[0] = 0
      BY <1>0, <1>1, <2>1 DEF Deltas, DueSound
    <3> QED BY <3>1, <3>2 DEF Adds
  <2>8. LeftAre(Due) /\ LeftAre(g)'
    BY <1>1, <2>6, <2>7, LeftNext DEF DueSound
  <2>9. ASSUME NEW t \in Timers
        PROVE  Left'[t] = IF Left[t] = Unarmed THEN Unarmed ELSE Left[t] - 1
    <3>1. CASE t \in Armed
      <4>1. PICK i \in 1 .. Len(list) : list[i] = t
        BY <1>1, <3>1 DEF Armed, DueSound
      <4>2. Due[i] \in Nat /\ g[i] = Due[i] - 1
        BY <1>0, <1>1 DEF DueSound
      <4>3. Left[t] = Due[i] /\ Left'[t] = g[i]
        BY <2>1, <2>8, <4>1 DEF LeftAre
      <4> QED BY <4>2, <4>3 DEF Unarmed
    <3>2. CASE t \notin Armed
      BY <2>1, <2>8, <3>2 DEF LeftAre, Armed
    <3> QED BY <3>1, <3>2
  <2>10. Left' = [t \in Timers |-> IF Left[t] = Unarmed THEN Unarmed ELSE Left[t] - 1]
    BY <2>8, <2>9 DEF LeftAre
  <2> QED BY <2>1, <2>6, <2>10 DEF TA!Tick, Unarmed, TA!Unarmed
<1> QED BY <1>2, <1>3

\* A timer is unlinked, and its successor gets what it had left.
LEMMA TimerUnlinked ==
  ASSUME DeltaInv, NEW p \in 1 .. Len(list),
         list' \in Seq(Timers), Len(list') = Len(list) - 1,
         \A i \in 1 .. Len(list) - 1 : list'[i] = IF i < p THEN list[i] ELSE list[i + 1],
         running' = running, expires' \in [Timers -> Int],
         \A i \in 1 .. Len(list) : i # p =>
            expires'[list[i]] = expires[list[i]]
                                + IF i = p + 1 THEN expires[list[p]] ELSE 0
  PROVE  DeltaInv' /\ Left' = [Left EXCEPT ![list[p]] = Unarmed]
<1> DEFINE n == Len(list)
           at(i) == IF i < p THEN i ELSE i + 1
<1>1. DueSound /\ n \in Nat /\ p \in Nat \ {0} /\ p <= n
  BY LeftIs DEF DueSound
<1>2. /\ list' \in Seq(Timers) /\ Len(list') = n - 1 /\ DOMAIN list' = 1 .. n - 1
      /\ \A i \in 1 .. n - 1 : list'[i] = list[at(i)]
  <2>1. DOMAIN list' = 1 .. Len(list')
    OBVIOUS
  <2>2. ASSUME NEW i \in 1 .. n - 1 PROVE list'[i] = list[at(i)]
    BY <1>1
  <2> QED BY <2>1, <2>2
<1>3. \A i \in 1 .. n - 1 : at(i) \in 1 .. n /\ at(i) # p
  BY <1>1
<1>4. \A i, j \in 1 .. n - 1 : at(i) = at(j) => i = j
  BY <1>1
<1>5. \A i \in 1 .. n : expires[list[i]] \in Int /\ expires[list[i]] >= 0 /\ list[i] \in Timers
  BY <1>1 DEF DueSound, DeltaInv, TimerTypeOK, DeltasSound
<1>6. \A i, j \in 1 .. n : list[i] = list[j] => i = j
  BY <1>1 DEF DueSound, DeltaInv, DeltasSound
<1>7. ASSUME NEW i \in 1 .. n - 1
      PROVE  expires'[list'[i]] = expires[list[at(i)]] + IF i = p THEN expires[list[p]] ELSE 0
  <2>1. at(i) \in 1 .. n /\ at(i) # p /\ list'[i] = list[at(i)]
    BY <1>2, <1>3
  <2>2. at(i) = p + 1 <=> i = p
    BY <1>1
  <2> HIDE DEF at
  <2> QED BY <2>1, <2>2
<1>8. DeltaInv'
  <2>1. TimerTypeOK'
    BY <1>2 DEF DeltaInv, TimerTypeOK
  <2>2. \A i, j \in 1 .. n - 1 : list'[i] = list'[j] => i = j
    <3> SUFFICES ASSUME NEW i \in 1 .. n - 1, NEW j \in 1 .. n - 1, list'[i] = list'[j]
                 PROVE  i = j
      OBVIOUS
    <3>1. list[at(i)] = list[at(j)]
      BY <1>2
    <3>2. at(i) = at(j)
      <4>1. at(i) \in 1 .. n /\ at(j) \in 1 .. n
        BY <1>3
      <4> HIDE DEF at
      <4> QED BY <1>6, <3>1, <4>1
    <3> QED BY <1>4, <3>2
  <2>3. ASSUME NEW i \in 1 .. n - 1 PROVE expires'[list'[i]] >= 0
    <3>1. /\ expires[list[at(i)]] \in Int /\ expires[list[at(i)]] >= 0
          /\ expires[list[p]] \in Int /\ expires[list[p]] >= 0
      BY <1>1, <1>3, <1>5
    <3>2. expires'[list'[i]] = expires[list[at(i)]] + IF i = p THEN expires[list[p]] ELSE 0
      BY ONLY <1>7
    <3> HIDE DEF at
    <3> QED BY ONLY <3>1, <3>2
  <2>4. ASSUME ~running', list' # <<>> PROVE expires'[Head(list')] > 0
    <3>1. 1 \in 1 .. n - 1 /\ Head(list') = list'[1] /\ list # <<>> /\ Head(list) = list[1]
      BY <1>1, <1>2, <2>4 DEF DeltaInv, TimerTypeOK
    <3>2. expires[list[1]] > 0
      BY <2>4, <3>1 DEF DeltaInv, DeltasSound
    <3>3. CASE p = 1
      BY <1>1, <1>5, <1>7, <3>1, <3>2, <3>3
    <3>4. CASE p # 1
      BY <1>1, <1>5, <1>7, <3>1, <3>2, <3>4
    <3> QED BY <3>3, <3>4
  <2> QED BY <1>2, <2>1, <2>2, <2>3, <2>4 DEF DeltaInv, DeltasSound
<1>9. PICK g : g = [i \in 0 .. n - 1 |-> IF i = 0 THEN 0 ELSE Due[at(i)]]
  OBVIOUS
<1>10. Adds(g, Len(list'), Deltas', 0)
  <2>1. \A i \in 1 .. n : /\ Due[i] \in Int /\ Due[i - 1] \in Int
                          /\ Due[i] = Due[i - 1] + expires[list[i]]
    BY <1>1 DEF DueSound
  <2>2. Due[0] = 0
    BY <1>1 DEF DueSound
  <2>3. ASSUME NEW i \in 1 .. n - 1 PROVE g[i] = g[i - 1] + expires'[list'[i]]
    <3>1. g[i] = Due[at(i)] /\ g[i - 1] = IF i = 1 THEN 0 ELSE Due[at(i - 1)]
      BY <1>1, <1>9
    <3>2. CASE i < p
      <4>1. g[i] = Due[i] /\ g[i - 1] = Due[i - 1] /\ expires'[list'[i]] = expires[list[i]]
        BY <1>1, <1>5, <1>7, <2>2, <3>1, <3>2
      <4>2. i \in 1 .. n
        BY <1>1
      <4>3. Due[i] = Due[i - 1] + expires[list[i]]
        BY ONLY <2>1, <4>2
      <4> QED BY ONLY <4>1, <4>3
    <3>3. CASE i = p
      <4>1. /\ g[i] = Due[p + 1] /\ g[i - 1] = Due[p - 1]
            /\ expires'[list'[i]] = expires[list[p + 1]] + expires[list[p]]
        BY <1>1, <1>7, <2>2, <3>1, <3>3
      <4>2. p \in 1 .. n /\ p + 1 \in 1 .. n /\ p + 1 - 1 = p
        BY <1>1, <3>3
      <4>3. /\ expires[list[p]] \in Int /\ expires[list[p + 1]] \in Int
            /\ Due[p] = Due[p - 1] + expires[list[p]] /\ Due[p - 1] \in Int
        BY <1>5, <2>1, <4>2
      <4>4. Due[p + 1] = Due[p + 1 - 1] + expires[list[p + 1]]
        BY ONLY <2>1, <4>2
      <4> QED BY ONLY <4>1, <4>2, <4>3, <4>4
    <3>4. CASE i > p
      <4>1. /\ g[i] = Due[i + 1] /\ g[i - 1] = Due[i]
            /\ expires'[list'[i]] = expires[list[i + 1]]
        BY <1>1, <1>3, <1>5, <1>7, <3>1, <3>4
      <4>2. i + 1 \in 1 .. n /\ i + 1 - 1 = i
        BY <1>1, <3>4
      <4> QED BY <2>1, <4>1, <4>2
    <3> QED BY <1>1, <3>2, <3>3, <3>4
  <2>4. /\ Deltas' = [i \in 1 .. n - 1 |-> expires'[list'[i]]]
        /\ Len(list') = n - 1 /\ g[0] = 0
    BY <1>1, <1>2, <1>9 DEF Deltas
  <2> QED BY <2>3, <2>4 DEF Adds
<1>11. LeftAre(Due) /\ LeftAre(g)'
  BY <1>1, <1>8, <1>10, LeftNext DEF DueSound
<1>12. ASSUME NEW u \in Timers
       PROVE  Left'[u] = IF u = list[p] THEN Unarmed ELSE Left[u]
  <2>1. CASE u \notin Armed \/ u = list[p]
    <3>1. u \notin Armed'
      <4>1. ASSUME NEW i \in 1 .. n - 1 PROVE list'[i] # u
        <5>1. list'[i] = list[at(i)] /\ at(i) \in 1 .. n /\ at(i) # p
          BY <1>2, <1>3
        <5> HIDE DEF at
        <5>2. list[at(i)] \in Armed
          BY <1>1, <5>1 DEF Armed, DueSound
        <5>3. list[at(i)] # list[p]
          BY <1>6, <5>1
        <5> QED BY <2>1, <5>1, <5>2, <5>3
      <4> QED BY <1>2, <4>1 DEF Armed
    <3> QED BY <1>11, <2>1, <3>1 DEF LeftAre, Unarmed
  <2>2. CASE u \in Armed /\ u # list[p]
    <3>1. PICK j \in 1 .. n : list[j] = u
      BY <1>1, <2>2 DEF Armed, DueSound
    <3>2. PICK i \in 1 .. n - 1 : at(i) = j
      <4>1. CASE j < p
        <5>1. j \in 1 .. n - 1 /\ at(j) = j
          BY <1>1, <4>1
        <5> QED BY <5>1
      <4>2. CASE j > p
        <5>1. j - 1 \in 1 .. n - 1 /\ at(j - 1) = j
          BY <1>1, <4>2
        <5> QED BY <5>1
      <4> QED BY <1>1, <2>2, <3>1, <4>1, <4>2
    <3>3. g[i] = Due[j] /\ i \in 1 .. Len(list') /\ list'[i] = u
      BY <1>1, <1>2, <1>9, <3>1, <3>2
    <3> QED BY <1>11, <2>2, <3>1, <3>3 DEF LeftAre
  <2> QED BY <2>1, <2>2
<1>13. Left' = [Left EXCEPT ![list[p]] = Unarmed]
  BY <1>11, <1>12 DEF LeftAre
<1> QED BY <1>8, <1>13

\* del_timer hands what is left on to the successor, so nobody else notices.
LEMMA CancelTimers ==
  ASSUME DeltaInv, NEW t \in Timers, Cancel(t) PROVE DeltaInv' /\ TA!Cancel(t)
<1> DEFINE n == Len(list)
<1>1. DueSound /\ list \in Seq(Timers) /\ expires \in [Timers -> Int]
  BY LeftIs DEF DeltaInv, TimerTypeOK
<1>2. \A i, j \in 1 .. n : list[i] = list[j] => i = j
  BY <1>1 DEF DueSound, DeltaInv, DeltasSound
<1>3. PICK p \in 1 .. n : list[p] = t /\ p = Place(t)
  <2>1. \E i \in 1 .. n : list[i] = t
    BY <1>1 DEF Cancel, Armed, DueSound
  <2> QED BY <1>1, <2>1 DEF Place, DueSound
<1>4. /\ ~running /\ running' = running /\ expires' = HandedOn(t)
      /\ list' = RemoveAt(list, p)
  BY <1>3 DEF Cancel
<1>5. /\ list' \in Seq(Timers) /\ Len(list') = n - 1
      /\ \A i \in 1 .. n - 1 : list'[i] = IF i < p THEN list[i] ELSE list[i + 1]
  <2>1. PICK r : r = list'
    OBVIOUS
  <2>2. PICK s : s = list
    OBVIOUS
  <2>3. r = RemoveAt(s, p) /\ s \in Seq(Timers) /\ p \in 1 .. Len(s)
    BY <1>1, <1>4, <2>1, <2>2
  <2>4. Closed(Timers, s, p, r)
    BY <2>3, Removed
  <2> QED BY <2>1, <2>2, <2>4 DEF Closed
<1>6. ASSUME NEW i \in 1 .. n, i # p
      PROVE  expires'[list[i]] = expires[list[i]] + IF i = p + 1 THEN expires[list[p]] ELSE 0
  <2>1. n \in Nat /\ list[i] \in Timers /\ expires[list[i]] \in Int
    BY <1>1 DEF DueSound
  <2>2. expires'[list[i]] = IF \E j \in 2 .. n : list[j] = list[i] /\ list[j - 1] = t
                            THEN expires[list[i]] + expires[t] ELSE expires[list[i]]
    BY <1>4, <2>1 DEF HandedOn
  <2>3. CASE i = p + 1
    <3>1. i \in 2 .. n /\ list[i - 1] = t
      BY <1>3, <2>1, <2>3
    <3> QED BY <1>3, <2>2, <2>3, <3>1
  <2>4. CASE i # p + 1
    <3>1. ASSUME NEW j \in 2 .. n, list[j] = list[i], list[j - 1] = t PROVE FALSE
      <4>1. j \in 1 .. n /\ j - 1 \in 1 .. n
        BY <2>1
      <4>2. j = i /\ j - 1 = p
        BY <1>2, <1>3, <3>1, <4>1
      <4> QED BY <2>1, <2>4, <4>2
    <3> QED BY <2>1, <2>2, <2>4, <3>1
  <2> QED BY <2>3, <2>4
<1>7. expires' \in [Timers -> Int]
  BY <1>1, <1>4 DEF HandedOn
<1>8. DeltaInv' /\ Left' = [Left EXCEPT ![list[p]] = Unarmed]
  BY <1>4, <1>5, <1>6, <1>7, TimerUnlinked
<1> QED BY <1>3, <1>4, <1>8 DEF TA!Cancel, Unarmed, TA!Unarmed

\* The timer that run_timer_list takes off the list has no tick left.
LEMMA FireTimers ==
  ASSUME DeltaInv, Fire PROVE DeltaInv' /\ \E t \in Timers : TA!Fire(t)
<1> DEFINE n == Len(list)
<1>1. DueSound /\ list \in Seq(Timers) /\ expires \in [Timers -> Int]
  BY LeftIs DEF DeltaInv, TimerTypeOK
<1>2. /\ running /\ running' = running /\ expires' = expires /\ list' = Tail(list)
      /\ 1 \in 1 .. n /\ n \in Nat /\ expires[list[1]] = 0
  BY <1>1 DEF Fire
<1>3. /\ list' \in Seq(Timers) /\ Len(list') = n - 1
      /\ \A i \in 1 .. n - 1 : list'[i] = IF i < 1 THEN list[i] ELSE list[i + 1]
  BY <1>1, <1>2
<1>4. \A i \in 1 .. n : i # 1 =>
        expires'[list[i]] = expires[list[i]] + IF i = 1 + 1 THEN expires[list[1]] ELSE 0
  BY <1>1, <1>2 DEF DueSound
<1>5. DeltaInv' /\ Left' = [Left EXCEPT ![list[1]] = Unarmed]
  BY <1>1, <1>2, <1>3, <1>4, TimerUnlinked
<1>6. Left[list[1]] = 0 /\ list[1] \in Timers
  <2>1. Left[list[1]] = Due[1] /\ Due[1] = Due[1 - 1] + expires[list[1]]
    BY <1>1, <1>2 DEF DueSound, LeftAre
  <2> QED BY <1>1, <1>2, <2>1 DEF DueSound
<1>7. TA!Fire(list[1])
  BY <1>2, <1>5, <1>6 DEF TA!Fire, Unarmed, TA!Unarmed
<1> QED BY <1>5, <1>6, <1>7

\* A timer with m ticks to go belongs behind the k-th.
Fits(k, m) == Due[k] <= m /\ (k < Len(list) => m < Due[k + 1])

\* t is linked there, and the next timer's delta becomes relative to it.
LinkedBehind(k, t, m) ==
  /\ list' \in Seq(Timers) /\ Len(list') = Len(list) + 1
  /\ \A i \in 1 .. Len(list) + 1 :
        list'[i] = IF i < k + 1 THEN list[i] ELSE IF i = k + 1 THEN t ELSE list[i - 1]
  /\ running' = running
  /\ expires' \in [Timers -> Int] /\ expires'[t] = m - Due[k]
  /\ \A i \in 1 .. Len(list) :
        expires'[list[i]] = expires[list[i]] - IF i = k + 1 THEN m - Due[k] ELSE 0

\* A timer is linked behind the k-th, between those that expire no later than
\* in m ticks and those that expire later.
LEMMA TimerLinked ==
  ASSUME DeltaInv, NEW k \in 0 .. Len(list), NEW t \in Timers \ Armed, NEW m \in Nat \ {0},
         Fits(k, m), LinkedBehind(k, t, m)
  PROVE  DeltaInv' /\ Left' = [Left EXCEPT ![t] = m]
<1> USE DEF Fits, LinkedBehind
<1> DEFINE n == Len(list)
           at(i) == IF i < k + 1 THEN i ELSE i - 1
           I == (1 .. n + 1) \ {k + 1}
<1>1. DueSound /\ n \in Nat /\ k \in Nat /\ k <= n /\ k + 1 \in 1 .. n + 1
  BY LeftIs DEF DueSound
<1>2. /\ DOMAIN list' = 1 .. n + 1 /\ list'[k + 1] = t
      /\ \A i \in I : list'[i] = list[at(i)]
  <2>1. DOMAIN list' = 1 .. Len(list')
    OBVIOUS
  <2>2. ASSUME NEW i \in I PROVE list'[i] = list[at(i)]
    BY <1>1
  <2>3. list'[k + 1] = t
    BY <1>1
  <2> QED BY <2>1, <2>2, <2>3
<1>3. \A i \in I : at(i) \in 1 .. n
  BY <1>1
<1>4. \A i, j \in I : at(i) = at(j) => i = j
  <2> SUFFICES ASSUME NEW i \in I, NEW j \in I, at(i) = at(j) PROVE i = j
    OBVIOUS
  <2>1. i \in Nat /\ i # k + 1 /\ j \in Nat /\ j # k + 1 /\ k \in Nat
    BY <1>1
  <2>2. CASE i < k + 1
    BY ONLY <2>1, <2>2, at(i) = at(j)
  <2>3. CASE ~ (i < k + 1)
    BY ONLY <2>1, <2>3, at(i) = at(j)
  <2> QED BY <2>2, <2>3
<1>0. DOMAIN list = 1 .. n
  BY <1>1 DEF DueSound
<1>5. \A i \in 1 .. n : /\ expires[list[i]] \in Int /\ expires[list[i]] >= 0
                       /\ list[i] \in Timers /\ list[i] # t
                       /\ Due[i] \in Int /\ Due[i - 1] \in Int
                       /\ Due[i] = Due[i - 1] + expires[list[i]]
  <2> SUFFICES ASSUME NEW i \in 1 .. n
               PROVE  /\ expires[list[i]] \in Int /\ expires[list[i]] >= 0
                      /\ list[i] \in Timers /\ list[i] # t
                      /\ Due[i] \in Int /\ Due[i - 1] \in Int
                      /\ Due[i] = Due[i - 1] + expires[list[i]]
    OBVIOUS
  <2>1. /\ list[i] \in Timers /\ Due[i] \in Int /\ Due[i - 1] \in Int
        /\ Due[i] = Due[i - 1] + expires[list[i]]
    BY <1>1 DEF DueSound
  <2>2. list[i] # t
    BY <1>0 DEF Armed
  <2>3. expires[list[i]] >= 0
    BY <1>0 DEF DeltaInv, DeltasSound
  <2>4. expires[list[i]] \in Int
    BY <2>1 DEF DeltaInv, TimerTypeOK
  <2> QED BY <2>1, <2>2, <2>3, <2>4
<1>6. \A i, j \in 1 .. n : list[i] = list[j] => i = j
  BY <1>0 DEF DeltaInv, DeltasSound
<1>7. ASSUME NEW i \in I
      PROVE  expires'[list'[i]] = expires[list[at(i)]] - IF i = k + 2 THEN m - Due[k] ELSE 0
  <2>1. at(i) \in 1 .. n /\ list'[i] = list[at(i)]
    BY <1>2, <1>3
  <2>2. at(i) = k + 1 <=> i = k + 2
    BY <1>1
  <2> HIDE DEF at
  <2> QED BY <2>1, <2>2
<1>8. Due[0] = 0 /\ Due[k] \in Int /\ Due[k] >= 0
  BY <1>1 DEF DueSound
<1>9. k < n => /\ Due[k + 1] = Due[k] + expires[list[k + 1]]
               /\ expires[list[k + 1]] \in Int /\ Due[k + 1] \in Int
  <2> SUFFICES ASSUME k < n
               PROVE  /\ Due[k + 1] = Due[k] + expires[list[k + 1]]
                      /\ expires[list[k + 1]] \in Int /\ Due[k + 1] \in Int
    OBVIOUS
  <2>1. k + 1 \in 1 .. n /\ k + 1 - 1 = k
    BY <1>1
  <2>2. Due[k + 1] = Due[k + 1 - 1] + expires[list[k + 1]]
    BY ONLY <1>5, <2>1
  <2>3. expires[list[k + 1]] \in Int /\ Due[k + 1] \in Int
    BY <1>5, <2>1
  <2> QED BY <2>1, <2>2, <2>3
<1>10. DeltaInv'
  <2>1. TimerTypeOK'
    BY DEF DeltaInv, TimerTypeOK
  <2>2. ASSUME NEW i \in 1 .. n + 1, NEW j \in 1 .. n + 1, list'[i] = list'[j] PROVE i = j
    <3>1. CASE i \in I /\ j \in I
      <4>1. list[at(i)] = list[at(j)] /\ at(i) \in 1 .. n /\ at(j) \in 1 .. n
        BY <1>2, <1>3, <2>2, <3>1
      <4>2. at(i) = at(j)
        <5> HIDE DEF at
        <5> QED BY <1>6, <4>1
      <4> QED BY <1>4, <3>1, <4>2
    <3>2. \A q \in I : list'[q] # t
      <4> HIDE DEF at, I
      <4> QED BY <1>2, <1>3, <1>5
    <3> QED BY <1>2, <2>2, <3>1, <3>2
  <2>3. ASSUME NEW i \in 1 .. n + 1 PROVE expires'[list'[i]] >= 0
    <3>1. CASE i = k + 1
      BY <1>2, <1>8, <3>1
    <3>2. CASE i # k + 1 /\ i # k + 2
      <4>1. i \in I /\ at(i) \in 1 .. n
        BY <1>3, <3>2
      <4>2. expires[list[at(i)]] \in Int /\ expires[list[at(i)]] >= 0
        BY <1>5, <4>1
      <4> HIDE DEF at
      <4> QED BY <1>7, <3>2, <4>1, <4>2
    <3>3. CASE i = k + 2
      <4>1. i \in I /\ at(i) = k + 1 /\ k < n
        BY <1>1, <3>3
      <4>2. expires'[list'[i]] = expires[list[k + 1]] - (m - Due[k])
        BY <1>7, <3>3, <4>1
      <4>3. /\ Due[k + 1] = Due[k] + expires[list[k + 1]] /\ m < Due[k + 1]
            /\ expires[list[k + 1]] \in Int /\ Due[k + 1] \in Int
            /\ Due[k] \in Int /\ m \in Int
        BY <1>8, <1>9, <4>1
      <4> QED BY ONLY <4>2, <4>3
    <3> QED BY <3>1, <3>2, <3>3
  <2>4. ASSUME ~running', list' # <<>> PROVE expires'[Head(list')] > 0
    <3>1. Head(list') = list'[1] /\ 1 \in 1 .. n + 1
      BY <1>1, <2>4
    <3>2. CASE k = 0
      BY <1>2, <1>8, <3>1, <3>2
    <3>3. CASE k # 0
      <4>0. list # <<>> /\ Head(list) = list[1] /\ 1 \in 1 .. n
        BY <1>1, <3>3 DEF DeltaInv, TimerTypeOK
      <4>1. 1 \in I /\ at(1) = 1 /\ 1 # k + 2
        BY <1>1, <3>3
      <4>2. expires'[list'[1]] = expires[list[1]] - 0
        BY <1>7, <4>1
      <4>3. expires[list[1]] > 0 /\ expires[list[1]] \in Int
        BY <1>5, <2>4, <4>0 DEF DeltaInv, DeltasSound
      <4> QED BY <3>1, <4>2, <4>3
    <3> QED BY <3>2, <3>3
  <2> QED BY <1>2, <2>1, <2>2, <2>3, <2>4 DEF DeltaInv, DeltasSound
<1>11. PICK g : g = [i \in 0 .. n + 1 |-> IF i < k + 1 THEN Due[i]
                                         ELSE IF i = k + 1 THEN m ELSE Due[i - 1]]
  OBVIOUS
<1>12. Adds(g, Len(list'), Deltas', 0)
  <2>1. ASSUME NEW i \in 1 .. n + 1 PROVE g[i] = g[i - 1] + expires'[list'[i]]
    <3>1. CASE i < k + 1
      <4>1. i \in 1 .. n /\ i \in I /\ at(i) = i /\ i # k + 2
        BY <1>1, <3>1
      <4>2. g[i] = Due[i] /\ g[i - 1] = Due[i - 1]
        BY <1>1, <1>11, <3>1
      <4>3. expires'[list'[i]] = expires[list[i]] - 0
        BY <1>7, <4>1
      <4>4. /\ Due[i] = Due[i - 1] + expires[list[i]]
            /\ Due[i - 1] \in Int /\ expires[list[i]] \in Int
        BY ONLY <1>5, <4>1
      <4> QED BY ONLY <4>2, <4>3, <4>4
    <3>2. CASE i = k + 1
      <4>1. g[i] = m /\ g[i - 1] = Due[k]
        BY <1>1, <1>11, <3>2
      <4> QED BY <1>2, <1>8, <3>2, <4>1
    <3>3. CASE i = k + 2
      <4>1. i \in I /\ at(i) = k + 1 /\ k < n
        BY <1>1, <3>3
      <4>2. expires'[list'[i]] = expires[list[k + 1]] - (m - Due[k])
        BY <1>7, <3>3, <4>1
      <4>3. g[i] = Due[k + 1] /\ g[i - 1] = m
        BY <1>1, <1>11, <3>3
      <4>4. /\ Due[k + 1] = Due[k] + expires[list[k + 1]]
            /\ expires[list[k + 1]] \in Int /\ Due[k + 1] \in Int
            /\ Due[k] \in Int /\ m \in Int
        BY <1>8, <1>9, <4>1
      <4> QED BY ONLY <4>2, <4>3, <4>4
    <3>4. CASE i > k + 2
      <4>1. i - 1 \in 1 .. n /\ i \in I /\ at(i) = i - 1 /\ i # k + 2
        BY <1>1, <3>4
      <4>2. g[i] = Due[i - 1] /\ g[i - 1] = Due[i - 1 - 1]
        <5>1. i \in 0 .. n + 1 /\ ~ (i < k + 1) /\ i # k + 1
          BY <1>1, <3>4
        <5>2. i - 1 \in 0 .. n + 1 /\ ~ (i - 1 < k + 1) /\ i - 1 # k + 1
          BY <1>1, <3>4
        <5> QED BY ONLY <1>11, <5>1, <5>2
      <4>3. expires'[list'[i]] = expires[list[i - 1]] - 0
        BY <1>7, <4>1
      <4>4. /\ Due[i - 1] = Due[i - 1 - 1] + expires[list[i - 1]]
            /\ Due[i - 1 - 1] \in Int /\ expires[list[i - 1]] \in Int
        BY ONLY <1>5, <4>1
      <4> QED BY ONLY <4>2, <4>3, <4>4
    <3> QED BY <1>1, <3>1, <3>2, <3>3, <3>4
  <2>2. /\ Deltas' = [i \in 1 .. n + 1 |-> expires'[list'[i]]]
        /\ Len(list') = n + 1 /\ g[0] = 0
    BY <1>1, <1>8, <1>11 DEF Deltas
  <2> QED BY <2>1, <2>2 DEF Adds
<1>13. LeftAre(Due) /\ LeftAre(g)'
  BY <1>1, <1>10, <1>12, LeftNext DEF DueSound
<1>14. ASSUME NEW u \in Timers
       PROVE  Left'[u] = IF u = t THEN m ELSE Left[u]
  <2>1. CASE u = t
    <3>1. g[k + 1] = m /\ k + 1 \in 1 .. Len(list')
      BY <1>1, <1>11
    <3> QED BY <1>2, <1>13, <2>1, <3>1 DEF LeftAre
  <2>2. CASE u # t /\ u \in Armed
    <3>1. PICK j \in 1 .. n : list[j] = u
      BY <1>1, <2>2 DEF Armed, DueSound
    <3>2. PICK i \in I : at(i) = j /\ g[i] = Due[j]
      <4>1. CASE j < k + 1
        <5>1. j \in I /\ at(j) = j /\ g[j] = Due[j]
          BY <1>1, <1>11, <4>1
        <5> QED BY <5>1
      <4>2. CASE ~ (j < k + 1)
        <5>1. j + 1 \in I /\ at(j + 1) = j /\ j + 1 - 1 = j
          BY <1>1, <4>2
        <5>2. g[j + 1] = Due[j + 1 - 1]
          <6>1. j + 1 \in 0 .. n + 1 /\ ~ (j + 1 < k + 1) /\ j + 1 # k + 1
            BY <1>1, <4>2
          <6> QED BY ONLY <1>11, <6>1
        <5> QED BY <5>1, <5>2
      <4> QED BY <4>1, <4>2
    <3>3. i \in 1 .. Len(list') /\ list'[i] = u
      <4>1. i \in 1 .. n + 1 /\ list'[i] = list[at(i)]
        BY ONLY <1>2, <3>2
      <4> QED BY <3>1, <3>2, <4>1
    <3>4. Left'[list'[i]] = g[i]
      BY <1>13, <3>3 DEF LeftAre
    <3>5. Left[list[j]] = Due[j]
      BY <1>13, <3>1 DEF LeftAre
    <3> QED BY <2>2, <3>1, <3>2, <3>3, <3>4, <3>5
  <2>3. CASE u # t /\ u \notin Armed
    <3>1. ASSUME NEW i \in 1 .. n + 1 PROVE list'[i] # u
      <4>1. CASE i = k + 1
        BY <1>2, <2>3, <4>1
      <4>2. CASE i \in I
        <5>1. at(i) \in 1 .. n /\ list'[i] = list[at(i)]
          BY <1>2, <1>3, <4>2
        <5> HIDE DEF at
        <5>2. list[at(i)] \in Armed
          BY <1>1, <5>1 DEF Armed, DueSound
        <5> QED BY <2>3, <5>1, <5>2
      <4> QED BY <4>1, <4>2
    <3>2. u \notin Armed'
      BY <1>2, <3>1 DEF Armed
    <3> QED BY <1>13, <2>3, <3>2 DEF LeftAre, Unarmed
  <2> QED BY <2>1, <2>2, <2>3
<1>15. Left' = [Left EXCEPT ![t] = m]
  BY <1>13, <1>14 DEF LeftAre
<1> QED BY <1>10, <1>15

\* The loop of add_timer: what is left of m behind the i-th timer.
LEMMA BehindIs ==
  ASSUME DeltaInv, NEW m \in Int
  PROVE  \A i \in 0 .. Len(list) : Behind(m)[i] = m - Due[i]
<1> DEFINE n == Len(list)
           d == [i \in 1 .. n |-> 0 - expires[list[i]]]
<1>1. /\ DueSound /\ n \in Nat
      /\ \A i \in 1 .. n : expires[list[i]] \in Int
  BY LeftIs DEF DueSound, DeltaInv, TimerTypeOK
<1>2. PICK f : f = [i \in 0 .. n |-> m - Due[i]]
  OBVIOUS
<1>3. f = [i \in 0 .. n |-> IF i = 0 THEN m ELSE f[i - 1] - expires[list[i]]]
  <2>1. ASSUME NEW i \in 0 .. n
        PROVE  f[i] = IF i = 0 THEN m ELSE f[i - 1] - expires[list[i]]
    <3>1. CASE i = 0
      BY <1>1, <1>2, <3>1 DEF DueSound
    <3>2. CASE i # 0
      <4>1. i \in 1 .. n /\ f[i] = m - Due[i] /\ f[i - 1] = m - Due[i - 1]
        BY <1>1, <1>2, <3>2
      <4>2. /\ Due[i] = Due[i - 1] + expires[list[i]]
            /\ Due[i - 1] \in Int /\ expires[list[i]] \in Int
        BY <1>1, <4>1 DEF DueSound
      <4> QED BY <3>2, <4>1, <4>2
    <3> QED BY <3>1, <3>2
  <2> QED BY <1>2, <2>1
<1>4. PICK b : b = Behind(m)
  OBVIOUS
<1>5. b = [i \in 0 .. n |-> IF i = 0 THEN m ELSE b[i - 1] - expires[list[i]]]
  BY <1>3, <1>4 DEF Behind
<1>6. Adds(f, n, d, m)
  <2>1. ASSUME NEW i \in 1 .. n PROVE f[i] = f[i - 1] + d[i]
    <3>1. f[i] = f[i - 1] - expires[list[i]] /\ f[i - 1] = m - Due[i - 1]
      BY <1>1, <1>2, <1>3
    <3>2. Due[i - 1] \in Int /\ expires[list[i]] \in Int
      BY <1>1 DEF DueSound
    <3> QED BY <3>1, <3>2
  <2>2. f[0] = m
    BY <1>1, <1>3
  <2> QED BY <2>1, <2>2 DEF Adds
<1>7. ASSUME NEW x \in 0 .. n, b[x] # f[x] PROVE FALSE
  <2> DEFINE T == {i \in 0 .. n : b[i] # f[i]}
  <2>1. PICK i \in T : \A j \in T : i <= j
    <3> x \in T /\ T \subseteq Nat
      BY <1>7
    <3> QED BY Least
  <2>2. i # 0 /\ i \in 0 .. n
    BY <1>1, <1>3, <1>5
  <2>3. i - 1 \in 0 .. n /\ i - 1 \notin T
    BY <2>1, <2>2
  <2> QED BY <1>3, <1>5, <2>2, <2>3
<1> QED BY <1>2, <1>4, <1>7

\* add_timer goes past just the timers that are due no later.
LEMMA PassedIs ==
  ASSUME DeltaInv, NEW m \in Nat \ {0}, NEW k, k = PassedBy(m)
  PROVE  k \in 0 .. Len(list) /\ Due[k] <= m /\ (k < Len(list) => m < Due[k + 1])
<1> DEFINE n == Len(list)
           P == {i \in 1 .. n : Behind(m)[i] >= 0}
           F == {i \in 0 .. n : i < n => m < Due[i + 1]}
<1>1. /\ DueSound /\ n \in Nat /\ Due[0] = 0
      /\ \A i \in 0 .. n : Due[i] \in Int
      /\ \A i \in 1 .. n : Due[i - 1] <= Due[i]
  BY LeftIs DEF DueSound
<1>2. P = {i \in 1 .. n : Due[i] <= m}
  <2>1. \A i \in 1 .. n : Behind(m)[i] = m - Due[i] /\ Due[i] \in Int
    BY <1>1, BehindIs
  <2> QED BY <2>1
<1>3. PICK q \in F : \A i \in F : q <= i
  <2>1. n \in F /\ F \subseteq Nat
    BY <1>1
  <2> HIDE DEF F
  <2> QED BY <2>1, Least
<1>4. q \in 0 .. n /\ (q < n => m < Due[q + 1])
  BY <1>3
<1>5. \A i \in 1 .. q : Due[i] <= m
  <2> SUFFICES ASSUME NEW i \in 1 .. q PROVE Due[i] <= m
    OBVIOUS
  <2>1. i - 1 \in 0 .. n /\ i - 1 < n /\ i - 1 < q /\ i - 1 + 1 = i /\ i \in 0 .. n
    BY <1>1, <1>4
  <2>2. ~ (m < Due[i - 1 + 1])
    BY <1>3, <2>1
  <2> QED BY <1>1, <2>1, <2>2
<1>6. \A i \in q + 1 .. n : m < Due[i]
  <2> SUFFICES ASSUME NEW i \in q + 1 .. n PROVE m < Due[i]
    OBVIOUS
  <2>1. q < n /\ q + 1 \in 0 .. n /\ i \in 0 .. n /\ \A j \in q + 1 + 1 .. n : Due[j - 1] <= Due[j]
    BY <1>1, <1>4
  <2>2. Due[q + 1] <= Due[i]
    BY <1>1, <2>1, Monotone DEF DueSound
  <2> QED BY <1>1, <1>4, <2>1, <2>2
<1>7. P = 1 .. q
  <2>1. \A i \in 1 .. n : Due[i] <= m <=> i \in 1 .. q
    BY <1>1, <1>4, <1>5, <1>6
  <2> QED BY <1>2, <1>4, <2>1
<1>8. k = q
  <2>1. k = Cardinality(P)
    BY DEF PassedBy
  <2>2. Cardinality(1 .. q) = q
    BY <1>4, FS_Interval
  <2> HIDE DEF P
  <2> QED BY <1>7, <2>1, <2>2
<1>9. Due[q] <= m
  BY <1>1, <1>4, <1>5
<1> QED BY <1>4, <1>8, <1>9

\* add_timer: the new timer has the ticks asked for, the others what they had.
LEMMA ArmTimers ==
  ASSUME DeltaInv, NEW t \in Timers, NEW m \in Times, Arm(t, m)
  PROVE  DeltaInv' /\ TA!Arm(t)
<1> DEFINE n == Len(list)
<1>1. /\ DueSound /\ list \in Seq(Timers) /\ expires \in [Timers -> Int] /\ n \in Nat
      /\ m \in Nat \ {0} /\ m \in Int
  BY LeftIs, TimesPositive DEF DeltaInv, TimerTypeOK, DueSound
<1>2. PICK k : k = PassedBy(m)
  OBVIOUS
<1>3. k \in 0 .. n /\ Due[k] <= m /\ (k < n => m < Due[k + 1])
  BY <1>1, <1>2, PassedIs
<1>4. Behind(m)[k] = m - Due[k] /\ Due[k] \in Int
  BY <1>1, <1>3, BehindIs DEF DueSound
<1>5. /\ ~running /\ running' = running /\ t \notin Armed
      /\ list' = InsertAt(list, k + 1, t)
      /\ expires' = [u \in Timers |->
                       CASE u = t -> m - Due[k]
                         [] u # t /\ k < n /\ u = list[k + 1] -> expires[u] - (m - Due[k])
                         [] OTHER -> expires[u]]
  BY <1>2, <1>4 DEF Arm, Relative
<1>6. /\ list' \in Seq(Timers) /\ Len(list') = n + 1
      /\ \A i \in 1 .. n + 1 :
            list'[i] = IF i < k + 1 THEN list[i] ELSE IF i = k + 1 THEN t ELSE list[i - 1]
  <2>1. PICK r : r = list'
    OBVIOUS
  <2>2. PICK j : j = k + 1
    OBVIOUS
  <2>3. PICK s : s = list
    OBVIOUS
  <2>4. r = InsertAt(s, j, t)
    BY <1>5, <2>1, <2>2, <2>3
  <2>5. s \in Seq(Timers) /\ j \in 1 .. Len(s) + 1 /\ t \in Timers
    BY <1>1, <1>3, <2>2, <2>3
  <2>6. Opened(Timers, s, j, t, r)
    BY <2>4, <2>5, Inserted
  <2> QED BY <2>1, <2>2, <2>3, <2>6 DEF Opened
<1>7. \A i \in 1 .. n : /\ list[i] \in Timers /\ list[i] # t /\ expires[list[i]] \in Int
  BY <1>1, <1>5 DEF DueSound, Armed
<1>8. expires' \in [Timers -> Int] /\ expires'[t] = m - Due[k]
  <2>1. expires'[t] = m - Due[k]
    BY <1>5
  <2>2. ASSUME NEW u \in Timers PROVE expires'[u] \in Int
    BY <1>1, <1>4, <1>5
  <2> QED BY <1>5, <2>1, <2>2
<1>9. ASSUME NEW i \in 1 .. n
      PROVE  expires'[list[i]] = expires[list[i]] - IF i = k + 1 THEN m - Due[k] ELSE 0
  <2>1. (k < n /\ list[i] = list[k + 1]) <=> i = k + 1
    <3>1. \A j \in 1 .. n : list[i] = list[j] => i = j
      BY <1>1 DEF DueSound, DeltaInv, DeltasSound
    <3>2. k < n => k + 1 \in 1 .. n
      BY <1>1, <1>3
    <3>3. i = k + 1 => k < n
      BY <1>1, <1>3
    <3> QED BY <3>1, <3>2, <3>3
  <2>2. CASE i = k + 1
    BY <1>4, <1>5, <1>7, <2>1, <2>2
  <2>3. CASE i # k + 1
    BY <1>4, <1>5, <1>7, <2>1, <2>3
  <2> QED BY <2>2, <2>3
<1>10. DeltaInv' /\ Left' = [Left EXCEPT ![t] = m]
  <2>1. t \in Timers \ Armed /\ running' = running /\ m \in Nat \ {0}
    BY <1>1, <1>5
  <2>2. k \in 0 .. Len(list) /\ Fits(k, m)
    BY ONLY <1>3 DEF Fits
  <2>3. LinkedBehind(k, t, m)
    BY ONLY <1>6, <1>8, <1>9, <2>1 DEF LinkedBehind
  <2> QED BY DeltaInv, <2>1, <2>2, <2>3, TimerLinked
<1>11. Left[t] = Unarmed
  BY <1>1, <1>5 DEF DueSound, LeftAre
<1> QED BY <1>5, <1>10, <1>11 DEF TA!Arm, Unarmed, TA!Unarmed

\* The timers have what they had when neither list nor deltas change.
LEMMA SameLeft ==
  ASSUME DeltaInv, DeltaInv', list' = list, expires' = expires PROVE Left' = Left
<1>1. DueSound
  BY LeftIs
<1>2. PICK g : g = Due
  OBVIOUS
<1>3. Adds(g, Len(list'), Deltas', 0)
  BY <1>1, <1>2 DEF DueSound, Deltas
<1>4. LeftAre(g) /\ LeftAre(g)'
  BY <1>1, <1>2, <1>3, LeftNext DEF DueSound
<1>5. ASSUME NEW t \in Timers PROVE Left'[t] = Left[t]
  <2>1. CASE t \in Armed
    <3>1. PICK i \in 1 .. Len(list) : list[i] = t
      BY <1>1, <2>1 DEF Armed, DueSound
    <3> QED BY <1>4, <3>1 DEF LeftAre
  <2>2. CASE t \notin Armed
    BY <1>4, <2>2 DEF LeftAre, Armed
  <2> QED BY <2>1, <2>2
<1> QED BY <1>4, <1>5 DEF LeftAre

\* When the first timer is not due, none is.
LEMMA DoneTimers ==
  ASSUME DeltaInv, Done PROVE DeltaInv' /\ TA!Done
<1>1. DueSound /\ list \in Seq(Timers) /\ expires \in [Timers -> Int]
  BY LeftIs DEF DeltaInv, TimerTypeOK
<1>2. /\ running /\ running' = FALSE /\ list' = list /\ expires' = expires
  BY DEF Done
<1>3. list # <<>> => expires[list[1]] > 0 /\ 1 \in 1 .. Len(list) /\ Head(list) = list[1]
  <2> SUFFICES ASSUME list # <<>>
               PROVE  expires[list[1]] > 0 /\ 1 \in 1 .. Len(list) /\ Head(list) = list[1]
    OBVIOUS
  <2>1. 1 \in 1 .. Len(list) /\ Head(list) = list[1]
    BY <1>1
  <2>2. expires[list[1]] \in Int /\ expires[list[1]] >= 0 /\ expires[list[1]] # 0
    BY <1>1, <2>1 DEF Done, DueSound, DeltaInv, DeltasSound
  <2> QED BY <2>1, <2>2
<1>4. DeltaInv'
  BY <1>1, <1>2, <1>3 DEF DeltaInv, DeltasSound, TimerTypeOK
<1>5. ASSUME NEW t \in Timers PROVE Left[t] # 0
  <2>1. CASE t \in Armed
    <3>1. PICK i \in 1 .. Len(list) : list[i] = t
      BY <1>1, <2>1 DEF Armed, DueSound
    <3>2. list # <<>> /\ 1 \in 1 .. Len(list)
      BY <1>1, <3>1 DEF DueSound
    <3>3. /\ Due[1] = Due[1 - 1] + expires[list[1]] /\ Due[0] = 0
          /\ Due[1] \in Int /\ Due[i] \in Int /\ Due[i] >= Due[1] /\ Left[t] = Due[i]
      BY <1>1, <3>1, <3>2 DEF DueSound, LeftAre
    <3>4. expires[list[1]] > 0 /\ expires[list[1]] \in Int
      BY <1>1, <1>3, <3>2 DEF DueSound
    <3> QED BY <3>3, <3>4
  <2>2. CASE t \notin Armed
    BY <1>1, <2>2 DEF DueSound, LeftAre, Unarmed
  <2> QED BY <2>1, <2>2
<1>6. Left' = Left
  BY <1>2, <1>4, SameLeft
<1> QED BY <1>2, <1>4, <1>5, <1>6 DEF TA!Done

\* Every step of the list keeps the deltas sound and is a step of countdowns.
LEMMA NextTimers ==
  ASSUME DeltaInv, [TimerNext]_timerVars
  PROVE  DeltaInv' /\ [TA!AbsNext]_<<Left, running>>
<1>1. CASE Tick
  BY <1>1, TickTimers DEF TA!AbsNext
<1>2. CASE Fire
  BY <1>2, FireTimers DEF TA!AbsNext
<1>3. CASE Done
  BY <1>3, DoneTimers DEF TA!AbsNext
<1>4. ASSUME NEW t \in Timers, Cancel(t)
      PROVE  DeltaInv' /\ [TA!AbsNext]_<<Left, running>>
  BY <1>4, CancelTimers DEF TA!AbsNext
<1>5. ASSUME NEW t \in Timers, NEW m \in Times, Arm(t, m)
      PROVE  DeltaInv' /\ [TA!AbsNext]_<<Left, running>>
  BY <1>5, ArmTimers DEF TA!AbsNext
<1>6. CASE UNCHANGED timerVars
  <2>1. DeltaInv' /\ list' = list /\ expires' = expires /\ running' = running
    BY <1>6 DEF timerVars, DeltaInv, TimerTypeOK, DeltasSound
  <2> QED BY <2>1, SameLeft
<1> QED BY <1>1, <1>2, <1>3, <1>4, <1>5, <1>6 DEF TimerNext

\* The delta list is in order in every reachable state: each timer linked once,
\* no delta negative, and nothing due outside of run_timer_list.
THEOREM DeltasAlwaysSound == TimerSpec => []DeltaInv
<1>1. TimerInit => DeltaInv
  BY InitTimers
<1>2. DeltaInv /\ [TimerNext]_timerVars => DeltaInv'
  BY NextTimers
<1> QED BY <1>1, <1>2, PTL DEF TimerSpec

\* timer_list with add_timer, del_timer and run_timer_list implements
\* independent countdowns: RefinesTimers of TimerList.
THEOREM TimersRefine == TimerSpec => RefinesTimers
<1>1. TimerInit => TA!AbsInit
  BY InitTimers
<1>2. DeltaInv /\ [TimerNext]_timerVars => [TA!AbsNext]_<<Left, running>>
  BY NextTimers
<1> QED
  BY <1>1, <1>2, DeltasAlwaysSound, PTL DEF TimerSpec, RefinesTimers, TA!AbsSpec
=============================================================================
