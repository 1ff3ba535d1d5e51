------------------------------ MODULE FirstFit ------------------------------
(***************************************************************************)
(* The physical page allocator of kern/mm/default_pmm.c.  Every free page  *)
(* is linked into free_list, in the order of addresses; the first page of  *)
(* a block of free pages has the size of the block as its property, the    *)
(* others have 0.  Pages are numbered.  Both operations run with           *)
(* interrupts off; the modules that extend this one call them.             *)
(***************************************************************************)
EXTENDS Naturals, FiniteSets

CONSTANT NPAGES     \* number of pages of physical memory

ASSUME PagesNat == NPAGES \in Nat

VARIABLES
    free_list,      \* the linked pages; the list is in address order
    property,       \* page->property
    nr_free

pmmVars == <<free_list, property, nr_free>>

Pages == 0 .. NPAGES - 1

\* The n pages from f on.
Block(f, n) == f .. f + n - 1

-----------------------------------------------------------------------------
\* Plausible slips, for the sensitivity checks.
PrevNever(base) == {}

-----------------------------------------------------------------------------
\* Page f is the first of a free block of n or more pages.
Fits(f, n) == f \in free_list /\ property[f] >= n

\* default_alloc_pages returns NULL.
NoFit(n) == n > nr_free \/ \A f \in free_list : ~Fits(f, n)

\* The pages that default_alloc_pages takes from the list: f and the n-1
\* entries that follow it there, which are the next n-1 pages.
Taken(f, n) == Block(f, n)

\* default_alloc_pages returns f, the head of the first block that is large
\* enough, and leaves the rest of that block with a head of its own.
AllocPages(f, n) ==
    /\ n <= nr_free
    /\ Fits(f, n)
    /\ \A g \in free_list : g < f => ~Fits(g, n)
    /\ free_list' = free_list \ Taken(f, n)
    /\ property' = IF property[f] > n
                   THEN [property EXCEPT ![f + n] = property[f] - n]
                   ELSE property
    /\ nr_free' = nr_free - n

\* The head of the block that ends right before base, if there is one: found
\* by walking back along the list to the first page with a property.
HeadBefore(base) ==
    {h \in free_list : /\ base - 1 \in free_list
                       /\ h < base /\ property[h] # 0
                       /\ \A g \in free_list :
                             h < g /\ g < base => property[g] = 0}

\* The size of the block of n pages at base and the one that follows it.
Joined(base, n) == n + IF base + n \in free_list THEN property[base + n] ELSE 0

\* default_free_pages links the pages in and joins the block with the one
\* behind it, then with the one before it.
FreePages(base, n) ==
    /\ free_list' = free_list \cup Block(base, n)
    /\ property' = [f \in Pages |->
          IF f = base THEN IF HeadBefore(base) = {} THEN Joined(base, n) ELSE 0
          ELSE IF f \in HeadBefore(base) THEN property[f] + Joined(base, n)
          ELSE IF f = base + n /\ f \in free_list THEN 0
          ELSE property[f]]
    /\ nr_free' = nr_free + n
-----------------------------------------------------------------------------
\* An allocation fails only if there are not n free pages in a row, and gives
\* out free pages only: the sizes kept at the heads of the blocks are exact,
\* whatever was taken and given back in whatever order.
FitExact ==
    \A n \in 1 .. NPAGES :
        /\ (\E f \in Pages : Block(f, n) \subseteq free_list) => ~NoFit(n)
        /\ \A f \in free_list : Fits(f, n) => Block(f, n) \subseteq free_list
\* What a list of blocks is like: a block lies in the list as a whole, its
\* other pages have no size, it is joined with what is free behind it, and every
\* page of the list is in a block.
HeadsOf(list) == {h \in list : property[h] # 0}
BlocksExact(list) ==
    /\ \A h \in HeadsOf(list) :
          /\ Block(h, property[h]) \subseteq list
          /\ h + property[h] \notin list
          /\ \A i \in Block(h, property[h]) \ {h} : property[i] = 0
    /\ \A f \in list : \E h \in HeadsOf(list) : f \in Block(h, property[h])

=============================================================================
