------------------------------- MODULE Memory -------------------------------
(***************************************************************************)
(* Who uses the pages of FirstFit: swapping as check_swap exercises it at  *)
(* boot (swap.c, swap_fifo.c, do_pgfault of vmm.c), then the stacks and    *)
(* address spaces that fork, page faults, exec, exit and wait take and     *)
(* give back (pmm.c, proc.c).                                              *)
(*                                                                         *)
(* alloc_pages swaps pages of check_mm_struct out when no page is free.    *)
(* While check_swap runs, free_list holds only its CHECK_PAGES pages and   *)
(* the others are set aside.  Afterwards check_mm_struct is NULL: when a   *)
(* single page is asked for and none is free, the kernel panics.  A kernel *)
(* path that allocates or frees pages is not interrupted by another one;   *)
(* op is the path under way, taken one page at a time.                     *)
(***************************************************************************)
EXTENDS FirstFit, Sequences

CONSTANTS
    CHECK_PAGES,    \* CHECK_VALID_PHY_PAGE_NUM (4)
    VPages,         \* the virtual pages check_swap uses
    Values,         \* what a page can contain
    Procs,
    KSTACKPAGE,     \* pages of a kernel stack (2)
    MaxPages        \* bound on the pages of an address space

ASSUME MemoryConstants == /\ CHECK_PAGES \in Nat \ {0}
                          /\ CHECK_PAGES + 1 < NPAGES
                          /\ VPages \subseteq Nat
                          /\ KSTACKPAGE \in Nat \ {0}
                          /\ MaxPages \in Nat
                          /\ NPAGES \notin VPages \cup Values

VARIABLES
    aside,          \* free_list_store and nr_free_store; empty after the check
    pte,            \* page table of check_mm_struct: a page, Swapped or Unmapped
    content,        \* what each page of memory contains
    swap,           \* what each slot of the swap disk contains
    pra_list,       \* pra_list_head: the swappable pages, the oldest first
    pra_vaddr,      \* page->pra_vaddr
    kstack,         \* first page of the stack of each process, or NoPage
    space,          \* the pages of its address space, page tables included
    op              \* the kernel path under way

swapVars == <<pte, content, swap, pra_list, pra_vaddr>>
procVars == <<kstack, space>>
vars == <<pmmVars, aside, swapVars, procVars, op>>

Unmapped == NPAGES
Swapped == NPAGES + 1
NoPage == NPAGES
Idle == [at |-> "idle"]
CheckOver == [list |-> {}, nr |-> 0]

Checking == aside # CheckOver

\* check_swap got the first pages of memory: a page table, then the pages it
\* frees again, one after the other, into the emptied free_list.
TablePage == 0
CheckPages == 1 .. CHECK_PAGES
Rest == CHECK_PAGES + 1 .. NPAGES - 1

Init ==
    /\ free_list = CheckPages
    /\ property = [f \in Pages |-> CASE f = TablePage -> NPAGES
                                     [] f = 1 -> CHECK_PAGES
                                     [] f = CHECK_PAGES + 1 -> Cardinality(Rest)
                                     [] OTHER -> 0]
    /\ nr_free = CHECK_PAGES
    /\ aside = [list |-> Rest, nr |-> Cardinality(Rest)]
    /\ pte = [v \in VPages |-> Unmapped]
    /\ \E x \in Values : /\ content = [f \in Pages |-> x]
                          /\ swap = [v \in VPages |-> x]
    /\ pra_list = <<>>
    /\ pra_vaddr = [f \in Pages |-> 0]
    /\ kstack = [p \in Procs |-> NoPage]
    /\ space = [p \in Procs |-> {}]
    /\ op = Idle

-----------------------------------------------------------------------------
\* Plausible slips, for the sensitivity checks.
SlotShared(v) == (v + 1) \div 2
ForgetSwappedIn(f, v) == IF pte[v] = Swapped THEN pra_list ELSE Append(pra_list, f)
LeaveOne(p) == {f \in space[p] : \E g \in space[p] : g < f}

-----------------------------------------------------------------------------
\* check_swap writes to a page that is present.
Write(v, x) ==
    /\ Checking /\ op = Idle
    /\ pte[v] \in Pages
    /\ content' = [content EXCEPT ![pte[v]] = x]
    /\ UNCHANGED <<pmmVars, aside, pte, swap, pra_list, pra_vaddr, procVars, op>>

\* It uses a page that is not: do_pgfault.
Fault(v) ==
    /\ Checking /\ op = Idle
    /\ pte[v] \notin Pages
    /\ op' = [at |-> "fault", v |-> v]
    /\ UNCHANGED <<pmmVars, aside, swapVars, procVars>>

\* The slot of the swap disk for a virtual page: its number plus one.
SlotOf(v) == v

\* alloc_pages finds no page: swap_out of the page that came first.
SwapOut ==
    /\ op.at = "fault"
    /\ NoFit(1)
    /\ LET f == Head(pra_list)
           v == pra_vaddr[f]
       IN  /\ swap' = [swap EXCEPT ![SlotOf(v)] = content[f]]
           /\ pte' = [pte EXCEPT ![v] = Swapped]
           /\ FreePages(f, 1)
    /\ pra_list' = Tail(pra_list)
    /\ UNCHANGED <<aside, content, pra_vaddr, procVars, op>>

\* swap_map_swappable: page f, mapped at v, is the latest to arrive.
MapSwappable(f, v) == Append(pra_list, f)

\* alloc_pages has a page: swap_in or pgdir_alloc_page, page_insert and
\* swap_map_swappable.  A page that is not swapped in is not cleared.
FaultMap ==
    /\ op.at = "fault"
    /\ \E f \in Pages :
          /\ AllocPages(f, 1)
          /\ content' = IF pte[op.v] = Swapped
                        THEN [content EXCEPT ![f] = swap[SlotOf(op.v)]]
                        ELSE content
          /\ pte' = [pte EXCEPT ![op.v] = f]
          /\ pra_list' = MapSwappable(f, op.v)
          /\ pra_vaddr' = [pra_vaddr EXCEPT ![f] = op.v]
    /\ op' = Idle
    /\ UNCHANGED <<aside, swap, procVars>>

\* The end of check_swap: the free list set aside comes back, in place of the
\* one that the pages of the check and their page table have been freed into.
\* What the check leaves in its pages and on the disk is not looked at again.
CheckEnd ==
    /\ Checking /\ op = Idle
    /\ free_list = {}
    /\ free_list' = aside.list
    /\ nr_free' = aside.nr
    /\ aside' = CheckOver
    /\ pte' = [v \in VPages |-> Unmapped]
    /\ pra_list' = <<>>
    /\ pra_vaddr' = [f \in Pages |-> 0]
    /\ \E x \in Values : /\ content' = [f \in Pages |-> x]
                          /\ swap' = [v \in VPages |-> x]
    /\ UNCHANGED <<property, procVars, op>>

-----------------------------------------------------------------------------
NewProc == {p \in Procs : kstack[p] = NoPage}

\* do_fork: copy_mm will need as many pages as the parent has; none, if the
\* parent is a kernel thread.
Fork(c) ==
    /\ ~Checking /\ op = Idle
    /\ c \in NewProc
    /\ \E n \in {0} \cup {Cardinality(space[p]) : p \in Procs \ NewProc} :
          op' = [at |-> "stack", child |-> c, todo |-> n]
    /\ UNCHANGED <<pmmVars, aside, swapVars, procVars>>

\* setup_kstack
ForkStack ==
    /\ op.at = "stack"
    /\ \E f \in Pages : /\ AllocPages(f, KSTACKPAGE)
                        /\ kstack' = [kstack EXCEPT ![op.child] = f]
    /\ op' = [at |-> "grow", proc |-> op.child, todo |-> op.todo]
    /\ UNCHANGED <<aside, swapVars, space>>

\* setup_kstack fails: do_fork frees the proc_struct and returns -E_NO_MEM.
ForkNoStack ==
    /\ op.at = "stack"
    /\ NoFit(KSTACKPAGE)
    /\ op' = Idle
    /\ UNCHANGED <<pmmVars, aside, swapVars, procVars>>

\* A page fault, exec or brk of p needs pages: a page table, perhaps, and a page.
Grow(p) ==
    /\ ~Checking /\ op = Idle
    /\ p \notin NewProc
    /\ Cardinality(space[p]) < MaxPages
    /\ op' = [at |-> "grow", proc |-> p, todo |-> 1]
    /\ UNCHANGED <<pmmVars, aside, swapVars, procVars>>

\* alloc_page for a page directory, a page table or a page of the user.
GrowPage ==
    /\ op.at = "grow" /\ op.todo > 0
    /\ \E f \in Pages :
          /\ AllocPages(f, 1)
          /\ space' = [space EXCEPT ![op.proc] = @ \cup {f}]
    /\ op' = [op EXCEPT !.todo = @ - 1]
    /\ UNCHANGED <<aside, swapVars, kstack>>

GrowDone == /\ op.at = "grow" /\ op.todo = 0
            /\ op' = Idle
            /\ UNCHANGED <<pmmVars, aside, swapVars, procVars>>

\* No page is free: alloc_pages calls swap_out for check_mm_struct, NULL.
Panic == /\ op.at = "grow" /\ op.todo > 0
         /\ NoFit(1)
         /\ op' = [at |-> "panic"]
         /\ UNCHANGED <<pmmVars, aside, swapVars, procVars>>

\* exit_mmap and put_pgdir, in do_exit and do_execve.
Exit(p) ==
    /\ ~Checking /\ op = Idle
    /\ space[p] # {}
    /\ op' = [at |-> "unmap", proc |-> p]
    /\ UNCHANGED <<pmmVars, aside, swapVars, procVars>>

\* The pages of p that are still to be freed.
ToFree(p) == space[p]

ExitPage ==
    /\ op.at = "unmap"
    /\ \E f \in ToFree(op.proc) :
          /\ FreePages(f, 1)
          /\ space' = [space EXCEPT ![op.proc] = @ \ {f}]
    /\ UNCHANGED <<aside, swapVars, kstack, op>>

ExitDone == /\ op.at = "unmap" /\ ToFree(op.proc) = {}
            /\ space' = [space EXCEPT ![op.proc] = {}]
            /\ op' = Idle
            /\ UNCHANGED <<pmmVars, aside, swapVars, kstack>>

\* do_wait: put_kstack of a zombie, whose address space is gone.
Reap(p) ==
    /\ ~Checking /\ op = Idle
    /\ p \notin NewProc /\ space[p] = {}
    /\ FreePages(kstack[p], KSTACKPAGE)
    /\ kstack' = [kstack EXCEPT ![p] = NoPage]
    /\ UNCHANGED <<aside, swapVars, space, op>>

Next == \/ \E v \in VPages : Fault(v) \/ \E x \in Values : Write(v, x)
        \/ SwapOut \/ FaultMap \/ CheckEnd
        \/ \E p \in Procs : Fork(p) \/ Grow(p) \/ Exit(p) \/ Reap(p)
        \/ ForkStack \/ ForkNoStack \/ GrowPage \/ GrowDone \/ Panic
        \/ ExitPage \/ ExitDone

Spec == Init /\ [][Next]_vars
-----------------------------------------------------------------------------
Resident == {pte[v] : v \in VPages} \cap Pages
StackOf(p) == IF kstack[p] = NoPage THEN {} ELSE Block(kstack[p], KSTACKPAGE)

\* What check_swap never gives back.
CheckLost == IF Checking THEN {TablePage} ELSE {TablePage} \cup CheckPages

\* The holders of pages.
Holders == ({"free", "aside", "check", "mapped"} \X {0})
           \cup ({"stack", "space"} \X Procs)
HeldBy(h) == CASE h[1] = "free" -> free_list
               [] h[1] = "aside" -> aside.list
               [] h[1] = "check" -> CheckLost
               [] h[1] = "mapped" -> Resident
               [] h[1] = "stack" -> StackOf(h[2])
               [] OTHER -> space[h[2]]

\* Every page is free or has one holder, and nr_free counts the free ones:
\* whatever fails half-way, no page is lost and none is given out twice.
PagesAccounted ==
    /\ UNION {HeldBy(h) : h \in Holders} = Pages
    /\ \A h, k \in Holders : h # k => HeldBy(h) \cap HeldBy(k) = {}
    /\ nr_free = Cardinality(free_list)

\* swap_out finds its victim, and the page table entry to change: the queue
\* has the pages that are mapped, each once and with its virtual page.
QueueExact ==
    Checking => /\ {pra_list[i] : i \in DOMAIN pra_list} = Resident
                /\ Len(pra_list) = Cardinality(Resident)
                /\ \A v \in VPages : pte[v] \in Pages => pra_vaddr[pte[v]] = v

Ops == {Idle, [at |-> "panic"]}
       \cup [at : {"fault"}, v : VPages]
       \cup [at : {"stack"}, child : Procs, todo : Nat]
       \cup [at : {"grow"}, proc : Procs, todo : Nat]
       \cup [at : {"unmap"}, proc : Procs]

TypeOK ==
    /\ free_list \subseteq Pages
    /\ property \in [Pages -> Nat]
    /\ nr_free \in Nat
    /\ aside \in {CheckOver, [list |-> Rest, nr |-> Cardinality(Rest)]}
    /\ pte \in [VPages -> Pages \cup {Unmapped, Swapped}]
    /\ content \in [Pages -> Values]
    /\ swap \in [VPages -> Values]
    /\ pra_list \in Seq(Pages)
    /\ pra_vaddr \in [Pages -> VPages \cup {0}]
    /\ kstack \in [Procs -> Pages \cup {NoPage}]
    /\ space \in [Procs -> SUBSET Pages]
    /\ op \in Ops

\* Both lists, the one in use and the one set aside, are exact.  The pages of a
\* stack behind its first have no size, for free_pages will not give them one.
ListsExact ==
    /\ BlocksExact(free_list) /\ BlocksExact(aside.list)
    /\ nr_free = Cardinality(free_list)
    /\ \A p \in Procs : \A i \in StackOf(p) \ {kstack[p]} : property[i] = 0

\* While check_swap runs there are its pages only, free or mapped; afterwards
\* the others, free or with a process.
CheckSplit == Checking => /\ free_list \cup Resident = CheckPages
                          /\ free_list \cap Resident = {}
                          /\ \A p \in Procs : kstack[p] = NoPage /\ space[p] = {}
Owned(p) == StackOf(p) \cup space[p]
ProcSplit == ~Checking => /\ Resident = {}
                          /\ free_list \cup UNION {Owned(p) : p \in Procs} = Rest
                          /\ \A p \in Procs :
                                /\ Owned(p) \cap free_list = {}
                                /\ StackOf(p) \cap space[p] = {}
                                /\ \A q \in Procs \ {p} : Owned(p) \cap Owned(q) = {}

\* The queue has no page twice.
QueueOnce == /\ QueueExact
             /\ Checking => \A i, j \in DOMAIN pra_list :
                               pra_list[i] = pra_list[j] => i = j

\* The path under way is one of its phase, and has what it needs.
OpSound == /\ op.at = "fault" => Checking /\ pte[op.v] \notin Pages
           /\ op.at \in {"stack", "grow", "unmap", "panic"} => ~Checking
           /\ op.at = "stack" => kstack[op.child] = NoPage

\* The inductive strengthening of the invariants above.
MemInv == TypeOK /\ ListsExact /\ CheckSplit /\ ProcSplit /\ QueueOnce /\ OpSound

Mem == INSTANCE MemAbs
         WITH Nothing <- NPAGES,
              faulting <- IF op.at = "fault" THEN op.v ELSE NPAGES,
              mem <- [v \in VPages |->
                  IF pte[v] \in Pages THEN content[pte[v]]
                  ELSE IF pte[v] = Swapped THEN swap[SlotOf(v)] ELSE NPAGES]
\* Pages keep what was written to them while they move to the disk and back.
RefinesMemory == Mem!AbsSpec
=============================================================================
