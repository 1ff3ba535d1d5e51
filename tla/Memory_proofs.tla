---------------------------- MODULE Memory_proofs ----------------------------
(***************************************************************************)
(* Proofs about FirstFit and Memory: first what allocating and freeing a   *)
(* block do to an exact free list, then the invariant MemInv of Memory,    *)
(* one lemma per action, and what follows from it.                         *)
(***************************************************************************)
EXTENDS Memory, FiniteSetTheorems, TLAPS

Free == BlocksExact(free_list)

-----------------------------------------------------------------------------
\* Sets of pages are finite, and a block of n pages has n.
LEMMA PagesFinite ==
    ASSUME NEW S \in SUBSET Pages
    PROVE  IsFiniteSet(S) /\ Cardinality(S) \in Nat
<1>1. NPAGES - 1 \in Int
  BY PagesNat
<1>2. IsFiniteSet(Pages)
  BY <1>1, FS_Interval DEF Pages
<1> QED BY <1>2, FS_Subset, FS_CardinalityType

LEMMA BlockSize ==
    ASSUME NEW f \in Nat, NEW n \in Nat
    PROVE  IsFiniteSet(Block(f, n)) /\ Cardinality(Block(f, n)) = n
<1>1. f + n - 1 \in Int
  OBVIOUS
<1> QED BY <1>1, FS_Interval DEF Block

\* In an exact list the block that a page is in is the one with its head.
LEMMA HeadOwns ==
    ASSUME free_list \subseteq Pages, property \in [Pages -> Nat], Free,
           NEW h \in HeadsOf(free_list), NEW g \in HeadsOf(free_list),
           g \in Block(h, property[h])
    PROVE  g = h
BY DEF Free, BlocksExact, HeadsOf, Block

\* If n pages in a row are free, the block around them is large enough.
LEMMA RunFits ==
    ASSUME free_list \subseteq Pages, property \in [Pages -> Nat], Free,
           NEW n \in Nat \ {0}, NEW f \in Pages, Block(f, n) \subseteq free_list
    PROVE  \E h \in free_list : Fits(h, n)
<1> USE PagesNat
<1>1. f \in free_list
  BY DEF Block, Pages
<1>2. PICK h \in HeadsOf(free_list) : f \in Block(h, property[h])
  BY <1>1 DEF Free, BlocksExact
<1>3. h \in Nat /\ property[h] \in Nat /\ f \in Nat
  BY <1>2 DEF HeadsOf, Pages
<1>4. h + property[h] \notin free_list
  BY <1>2 DEF Free, BlocksExact
<1>5. f + n <= h + property[h]
  <2>1. SUFFICES ASSUME h + property[h] < f + n PROVE FALSE
    BY <1>3
  <2>2. h + property[h] \in Block(f, n)
    BY <2>1, <1>2, <1>3 DEF Block
  <2> QED BY <2>2, <1>4
<1>6. h <= f
  BY <1>2, <1>3 DEF Block
<1>7. property[h] >= n
  BY <1>3, <1>5, <1>6
<1> QED BY <1>2, <1>7 DEF Fits, HeadsOf

\* A list that is exact makes default_alloc_pages exact.
LEMMA ExactIsFit ==
    ASSUME free_list \subseteq Pages, property \in [Pages -> Nat], Free,
           nr_free = Cardinality(free_list)
    PROVE  FitExact
<1> USE PagesNat
<1> SUFFICES ASSUME NEW n \in 1 .. NPAGES
             PROVE  /\ (\E f \in Pages : Block(f, n) \subseteq free_list) => ~NoFit(n)
                    /\ \A f \in free_list : Fits(f, n) => Block(f, n) \subseteq free_list
  BY DEF FitExact
<1>1. ASSUME NEW f \in Pages, Block(f, n) \subseteq free_list
      PROVE  ~NoFit(n)
  <2>1. \E h \in free_list : Fits(h, n)
    BY <1>1, RunFits
  <2>2. Cardinality(Block(f, n)) = n
    BY BlockSize DEF Pages
  <2>3. n <= nr_free
    BY <1>1, <2>2, PagesFinite, FS_Subset
  <2>4. nr_free \in Nat
    BY PagesFinite
  <2> QED BY <2>1, <2>3, <2>4 DEF NoFit
<1>2. ASSUME NEW f \in free_list, Fits(f, n)
      PROVE  Block(f, n) \subseteq free_list
  <2>1. f \in HeadsOf(free_list) /\ property[f] \in Nat /\ property[f] >= n
    BY <1>2 DEF Fits, HeadsOf
  <2>2. Block(f, property[f]) \subseteq free_list
    BY <2>1 DEF Free, BlocksExact
  <2>3. Block(f, n) \subseteq Block(f, property[f])
    BY <2>1 DEF Block, Pages
  <2> QED BY <2>2, <2>3
<1> QED BY <1>1, <1>2
-----------------------------------------------------------------------------
\* default_alloc_pages takes n free pages and leaves the list exact.
LEMMA AllocKeeps ==
    ASSUME free_list \subseteq Pages, property \in [Pages -> Nat], Free,
           nr_free = Cardinality(free_list),
           NEW f \in Pages, NEW n \in Nat \ {0}, AllocPages(f, n)
    PROVE  /\ Block(f, n) \subseteq free_list
           /\ free_list' = free_list \ Block(f, n)
           /\ property' \in [Pages -> Nat]
           /\ nr_free' \in Nat /\ nr_free' = Cardinality(free_list')
           /\ \A i \in Block(f, n) \ {f} : property'[i] = 0
           /\ \A i \in Pages \ free_list : property'[i] = property[i]
           /\ Free'
<1> USE PagesNat
<1>1. /\ f \in HeadsOf(free_list) /\ f \in Nat
      /\ property[f] \in Nat /\ property[f] >= n
  BY DEF AllocPages, Fits, HeadsOf, Pages
<1>2. /\ Block(f, property[f]) \subseteq free_list
      /\ f + property[f] \notin free_list
      /\ \A i \in Block(f, property[f]) \ {f} : property[i] = 0
  BY <1>1 DEF Free, BlocksExact
<1>3. Block(f, n) \subseteq Block(f, property[f])
  BY <1>1 DEF Block
<1>4. free_list' = free_list \ Block(f, n)
  BY DEF AllocPages, Taken
<1>5. property[f] > n => f + n \in Block(f, property[f]) /\ f + n # f
  BY <1>1 DEF Block
<1>6. /\ property' \in [Pages -> Nat]
      /\ \A i \in Pages : property'[i] = IF property[f] > n /\ i = f + n
                                         THEN property[f] - n ELSE property[i]
  <2>1. property[f] > n => f + n \in Pages /\ property[f] - n \in Nat
    BY <1>1, <1>2, <1>5
  <2> QED BY <2>1 DEF AllocPages
<1>7. nr_free' \in Nat /\ nr_free' = Cardinality(free_list')
  <2>1. free_list \cap Block(f, n) = Block(f, n)
    BY <1>2, <1>3
  <2>2. Cardinality(Block(f, n)) = n
    BY <1>1, BlockSize
  <2>3. Cardinality(free_list') = Cardinality(free_list) - n
    <3>1. IsFiniteSet(free_list)
      BY PagesFinite
    <3>2. Cardinality(free_list \ Block(f, n))
             = Cardinality(free_list) - Cardinality(free_list \cap Block(f, n))
      BY <3>1, FS_Difference
    <3> QED BY <3>2, <2>1, <2>2, <1>4
  <2>4. free_list' \subseteq Pages
    BY <1>4
  <2>5. Cardinality(free_list') \in Nat
    BY <2>4, PagesFinite
  <2> QED BY <2>3, <2>5 DEF AllocPages
<1>8. \A i \in Block(f, n) \ {f} : property'[i] = 0
  <2> SUFFICES ASSUME NEW i \in Block(f, n) \ {f} PROVE property'[i] = 0
    OBVIOUS
  <2>1. i \in Pages /\ property[i] = 0
    BY <1>2, <1>3
  <2>2. i # f + n
    BY <1>1 DEF Block
  <2> QED BY <2>1, <2>2, <1>6
<1>9. \A i \in Pages \ free_list : property'[i] = property[i]
  BY <1>2, <1>5, <1>6
<1>10. ASSUME NEW h \in free_list', property'[h] # 0
       PROVE  /\ Block(h, property'[h]) \subseteq free_list'
              /\ h + property'[h] \notin free_list'
              /\ \A i \in Block(h, property'[h]) \ {h} : property'[i] = 0
  <2>1. h \in free_list /\ h \in Nat /\ h \in Pages /\ h \notin Block(f, n)
    BY <1>4, <1>10 DEF Pages
  <2>2. CASE property[f] > n /\ h = f + n
    <3>1. property'[h] = property[f] - n
      BY <2>1, <2>2, <1>6
    <3>2. Block(h, property'[h]) = Block(f, property[f]) \ Block(f, n)
      BY <3>1, <2>2, <1>1 DEF Block
    <3>3. h + property'[h] = f + property[f]
      BY <3>1, <2>2, <1>1
    <3>4. \A i \in Block(h, property'[h]) \ {h} : property'[i] = 0
      <4> SUFFICES ASSUME NEW i \in Block(h, property'[h]) \ {h}
                   PROVE  property'[i] = 0
        OBVIOUS
      <4>1. i \in Pages /\ i # f /\ i \in Block(f, property[f])
        BY <3>2, <1>1, <1>2 DEF Block
      <4> QED BY <4>1, <2>2, <1>2, <1>6
    <3> QED BY <3>2, <3>3, <3>4, <1>2, <1>4
  <2>3. CASE ~(property[f] > n /\ h = f + n)
    <3>1. property'[h] = property[h] /\ h \in HeadsOf(free_list)
      BY <2>1, <2>3, <1>6, <1>10 DEF HeadsOf
    <3>2. /\ Block(h, property[h]) \subseteq free_list
          /\ h + property[h] \notin free_list
          /\ \A i \in Block(h, property[h]) \ {h} : property[i] = 0
      BY <3>1 DEF Free, BlocksExact
    <3>3. property[h] \in Nat /\ h # f
      BY <2>1, <1>1 DEF Block
    <3>4. h \notin Block(f, property[f]) /\ f \notin Block(h, property[h])
      BY <3>1, <3>3, <1>1, HeadOwns
    <3>5. Block(h, property[h]) \cap Block(f, property[f]) = {}
      BY <3>3, <3>4, <2>1, <1>1 DEF Block
    <3>6. \A i \in Block(h, property[h]) \ {h} : property'[i] = 0
      BY <3>2, <3>5, <1>5, <1>6
    <3> QED BY <3>1, <3>2, <3>5, <3>6, <1>3, <1>4
  <2> QED BY <2>2, <2>3
<1>11. ASSUME NEW g \in free_list'
       PROVE  \E h \in free_list' : property'[h] # 0 /\ g \in Block(h, property'[h])
  <2>1. g \in free_list /\ g \in Nat /\ g \notin Block(f, n)
    BY <1>4, <1>11 DEF Pages
  <2>2. PICK h \in HeadsOf(free_list) : g \in Block(h, property[h])
    BY <2>1 DEF Free, BlocksExact
  <2>3. h \in free_list /\ h \in Nat /\ property[h] # 0 /\ property[h] \in Nat
    BY <2>2 DEF HeadsOf, Pages
  <2>4. CASE h = f
    <3>1. property[f] > n /\ g \in Block(f + n, property[f] - n)
      BY <2>1, <2>2, <2>4, <1>1 DEF Block
    <3>2. f + n \in free_list' /\ property'[f + n] = property[f] - n
      BY <3>1, <1>1, <1>2, <1>4, <1>5, <1>6 DEF Block
    <3> QED BY <3>1, <3>2, <1>1
  <2>5. CASE h # f
    <3>1. h \notin Block(f, property[f])
      BY <2>2, <2>5, <1>1, HeadOwns
    <3>2. h \in free_list' /\ property'[h] = property[h]
      BY <3>1, <2>3, <1>3, <1>4, <1>5, <1>6
    <3> QED BY <3>2, <2>2, <2>3
  <2> QED BY <2>4, <2>5
<1>12. Free'
  BY <1>10, <1>11 DEF Free, BlocksExact, HeadsOf
<1> QED BY <1>2, <1>3, <1>4, <1>6, <1>7, <1>8, <1>9, <1>12

\* default_free_pages links n pages in and leaves the list exact, provided that
\* all but the first have no size.
LEMMA FreeKeeps ==
    ASSUME free_list \subseteq Pages, property \in [Pages -> Nat], Free,
           nr_free = Cardinality(free_list),
           NEW base \in Pages, NEW n \in Nat \ {0}, FreePages(base, n),
           Block(base, n) \subseteq Pages \ free_list,
           \A i \in Block(base, n) \ {base} : property[i] = 0
    PROVE  /\ free_list' = free_list \cup Block(base, n)
           /\ property' \in [Pages -> Nat]
           /\ nr_free' \in Nat /\ nr_free' = Cardinality(free_list')
           /\ \A i \in Pages \ (free_list \cup {base}) : property'[i] = property[i]
           /\ Free'
<1> USE PagesNat
<1> DEFINE e == base + n
           join == e \in free_list
           size == IF join THEN n + property[e] ELSE n
<1>1. base \in Nat /\ base \in Block(base, n) /\ base \notin free_list
  BY DEF Pages, Block
<1>2. free_list' = free_list \cup Block(base, n)
  BY DEF FreePages
\* What lies behind is the head of its block; what lies before ends at base.
<1>3. ASSUME join
      PROVE  e \in HeadsOf(free_list)
  <2>1. PICK h \in HeadsOf(free_list) : e \in Block(h, property[h])
    BY <1>3 DEF Free, BlocksExact
  <2>2. h \in Nat /\ property[h] \in Nat /\ h <= e /\ e <= h + property[h] - 1
    BY <2>1, <1>1 DEF HeadsOf, Pages, Block
  <2>3. ASSUME h # e PROVE FALSE
    <3>1. e - 1 \in Block(h, property[h]) /\ e - 1 \in Block(base, n)
      BY <2>2, <2>3, <1>1 DEF Block
    <3> QED BY <3>1, <2>1 DEF Free, BlocksExact
  <2> QED BY <2>1, <2>3
<1>4. size \in Nat /\ size >= n /\ Joined(base, n) = size
  BY <1>3, <1>1 DEF Joined, HeadsOf
<1>5. /\ base + size \notin free_list
      /\ Block(base, size) \subseteq free_list'
      /\ Block(base, size) \cap free_list
            = IF join THEN Block(e, property[e]) ELSE {}
  <2>1. CASE join
    <3>1. /\ Block(e, property[e]) \subseteq free_list
          /\ e + property[e] \notin free_list
          /\ property[e] \in Nat
      BY <1>3, <2>1 DEF Free, BlocksExact, HeadsOf
    <3>2. Block(base, size) = Block(base, n) \cup Block(e, property[e])
      BY <3>1, <2>1, <1>1 DEF Block
    <3>3. base + size = e + property[e]
      BY <3>1, <2>1, <1>1
    <3> QED BY <3>1, <3>2, <3>3, <2>1, <1>2
  <2>2. CASE ~join
    BY <2>2, <1>2
  <2> QED BY <2>1, <2>2
<1>6. ASSUME base - 1 \in free_list
      PROVE  \E h \in HeadsOf(free_list) :
                HeadBefore(base) = {h} /\ h + property[h] = base
  <2>1. PICK h \in HeadsOf(free_list) : base - 1 \in Block(h, property[h])
    BY <1>6 DEF Free, BlocksExact
  <2>2. /\ h \in Nat /\ property[h] \in Nat /\ h < base
        /\ base <= h + property[h] /\ property[h] # 0 /\ h \in free_list
    BY <2>1, <1>1 DEF HeadsOf, Pages, Block
  <2>3. Block(h, property[h]) \subseteq free_list
    BY <2>1 DEF Free, BlocksExact
  <2>4. h + property[h] = base
    <3>1. SUFFICES ASSUME base < h + property[h] PROVE FALSE
      BY <2>2, <1>1
    <3> QED BY <3>1, <2>2, <2>3, <1>1 DEF Block
  <2>5. \A g \in free_list : h < g /\ g < base => property[g] = 0
    <3> SUFFICES ASSUME NEW g \in free_list, h < g, g < base PROVE property[g] = 0
      OBVIOUS
    <3>1. g \in Nat
      BY DEF Pages
    <3>2. g \in Block(h, property[h]) \ {h}
      BY <3>1, <2>2, <2>4, <1>1 DEF Block
    <3> QED BY <3>2, <2>1 DEF Free, BlocksExact
  <2>6. ASSUME NEW g \in HeadBefore(base) PROVE g = h
    <3>1. /\ g \in free_list /\ g \in Nat /\ g < base /\ property[g] # 0
          /\ \A k \in free_list : g < k /\ k < base => property[k] = 0
      BY DEF HeadBefore, Pages
    <3>2. ~(h < g) /\ ~(g < h)
      BY <3>1, <2>2, <2>5
    <3> QED BY <3>1, <3>2, <2>2
  <2>7. h \in HeadBefore(base)
    BY <1>6, <2>2, <2>5 DEF HeadBefore
  <2> QED BY <2>1, <2>4, <2>6, <2>7
<1>7. base - 1 \notin free_list => HeadBefore(base) = {}
  BY DEF HeadBefore
<1>8. \A i \in Pages :
         property'[i] =
            IF i = base THEN IF HeadBefore(base) = {} THEN size ELSE 0
            ELSE IF i \in HeadBefore(base) THEN property[i] + size
            ELSE IF i = e /\ join THEN 0 ELSE property[i]
  BY <1>4 DEF FreePages
<1>9. property' \in [Pages -> Nat]
  BY <1>4 DEF FreePages
<1>10. nr_free' \in Nat /\ nr_free' = Cardinality(free_list')
  <2>1. free_list' \ Block(base, n) = free_list
    BY <1>2
  <2>2. free_list' \cap Block(base, n) = Block(base, n)
    BY <1>2
  <2>3. IsFiniteSet(free_list') /\ Cardinality(free_list') \in Nat
    <3>1. free_list' \subseteq Pages
      BY <1>2
    <3> QED BY <3>1, PagesFinite
  <2>4. Cardinality(Block(base, n)) = n
    BY <1>1, BlockSize
  <2>5. Cardinality(free_list' \ Block(base, n))
           = Cardinality(free_list') - Cardinality(free_list' \cap Block(base, n))
    BY <2>3, FS_Difference
  <2>6. Cardinality(free_list) = Cardinality(free_list') - n
    BY <2>1, <2>2, <2>4, <2>5
  <2> QED BY <2>3, <2>6 DEF FreePages
<1>11. \A i \in Pages \ (free_list \cup {base}) : property'[i] = property[i]
  BY <1>8 DEF HeadBefore
\* The block that the new pages are in.
<1>12. PICK t \in Pages :
         /\ t \in free_list' /\ t <= base /\ t \in Nat
         /\ property'[t] = (base - t) + size
         /\ Block(t, base - t) \subseteq free_list
         /\ \A i \in Block(t, base - t) \ {t} : property[i] = 0
         /\ HeadBefore(base) = (IF t = base THEN {} ELSE {t})
         /\ t # base => t \in HeadsOf(free_list) /\ property[t] = base - t
         /\ t - 1 \notin free_list
  <2>1. CASE base - 1 \notin free_list
    <3>1. Block(base, base - base) = {}
      BY <1>1 DEF Block
    <3> QED BY <3>1, <2>1, <1>1, <1>2, <1>4, <1>7, <1>8
  <2>2. CASE base - 1 \in free_list
    <3>1. PICK h \in HeadsOf(free_list) :
             HeadBefore(base) = {h} /\ h + property[h] = base
      BY <2>2, <1>6
    <3>2. h \in Nat /\ h \in Pages /\ property[h] \in Nat \ {0} /\ h \in free_list
      BY <3>1 DEF HeadsOf, Pages
    <3>3. property[h] = base - h /\ h < base
      BY <3>1, <3>2, <1>1
    <3>4. property'[h] = (base - h) + size
      BY <3>1, <3>2, <3>3, <1>1, <1>8
    <3>5. /\ Block(h, base - h) \subseteq free_list
          /\ \A i \in Block(h, base - h) \ {h} : property[i] = 0
      BY <3>1, <3>3 DEF Free, BlocksExact
    <3>6. h - 1 \notin free_list
      <4>1. SUFFICES ASSUME h - 1 \in free_list PROVE FALSE
        OBVIOUS
      <4>2. PICK g \in HeadsOf(free_list) : h - 1 \in Block(g, property[g])
        BY <4>1 DEF Free, BlocksExact
      <4>3. g \in Nat /\ property[g] \in Nat
        BY <4>2 DEF HeadsOf, Pages
      <4>4. g # h /\ h <= g + property[g]
        BY <4>2, <4>3, <3>2 DEF Block
      <4>5. h # g + property[g]
        BY <4>2, <3>2 DEF Free, BlocksExact
      <4>6. h \in Block(g, property[g])
        BY <4>2, <4>3, <4>4, <4>5, <3>2 DEF Block
      <4> QED BY <4>2, <4>4, <4>6, <3>1, HeadOwns
    <3> QED BY <3>1, <3>2, <3>3, <3>4, <3>5, <3>6, <1>2
  <2> QED BY <2>1, <2>2
<1>13. Block(t, property'[t]) = Block(t, base - t) \cup Block(base, size)
  BY <1>1, <1>4, <1>12 DEF Block
<1>14. /\ Block(t, property'[t]) \subseteq free_list'
       /\ t + property'[t] \notin free_list'
       /\ \A i \in Block(t, property'[t]) \ {t} : property'[i] = 0
  <2>1. t + property'[t] = base + size
    BY <1>1, <1>4, <1>12
  <2>2. base + size \notin Block(base, n)
    BY <1>1, <1>4 DEF Block
  <2>3. ASSUME NEW i \in Block(t, property'[t]) \ {t} PROVE property'[i] = 0
    <3>1. i \in Pages
      BY <1>2, <1>5, <1>12, <1>13
    <3>2. CASE i \in Block(t, base - t)
      <4>1. property[i] = 0 /\ i \notin HeadBefore(base) /\ i # base
        BY <3>2, <2>3, <1>1, <1>12
      <4> QED BY <4>1, <3>1, <1>8
    <3>3. CASE i = base
      BY <3>1, <3>3, <2>3, <1>8, <1>12
    <3>4. CASE i \in Block(base, size) /\ i # base
      <4>1. i \notin HeadBefore(base)
        BY <2>3, <1>12
      <4>2. CASE i \in Block(base, n)
        BY <4>1, <4>2, <3>1, <3>4, <1>8
      <4>3. CASE i \notin Block(base, n)
        <5>1. join /\ i \in Block(e, property[e])
          BY <4>3, <3>4, <1>2, <1>5
        <5>2. i # e => property[i] = 0
          BY <5>1, <1>3 DEF Free, BlocksExact
        <5> QED BY <5>1, <5>2, <4>1, <3>1, <3>4, <1>8
      <4> QED BY <4>2, <4>3
    <3> QED BY <3>2, <3>3, <3>4, <2>3, <1>13
  <2> QED BY <2>1, <2>2, <2>3, <1>2, <1>5, <1>12, <1>13
\* The other blocks are as they were.
<1>15. ASSUME NEW h \in free_list', property'[h] # 0, h # t
       PROVE  /\ h \in HeadsOf(free_list) /\ property'[h] = property[h]
              /\ h # base /\ h \notin HeadBefore(base) /\ ~(h = e /\ join)
              /\ h \notin Block(t, property'[t])
  BY <1>2, <1>8, <1>12, <1>14, <1>15 DEF HeadsOf
<1>16. ASSUME NEW h \in free_list', property'[h] # 0, h # t
       PROVE  /\ Block(h, property'[h]) \subseteq free_list'
              /\ h + property'[h] \notin free_list'
              /\ \A i \in Block(h, property'[h]) \ {h} : property'[i] = 0
  <2>1. /\ h \in HeadsOf(free_list) /\ property'[h] = property[h]
        /\ h \notin Block(t, property'[t])
    BY <1>15, <1>16
  <2>2. /\ Block(h, property[h]) \subseteq free_list
        /\ h + property[h] \notin free_list
        /\ \A i \in Block(h, property[h]) \ {h} : property[i] = 0
    BY <2>1 DEF Free, BlocksExact
  <2>3. h \in Nat /\ property[h] \in Nat \ {0}
    BY <2>1 DEF HeadsOf, Pages
  <2>4. ASSUME h + property[h] \in Block(base, n) PROVE FALSE
    <3>1. h + property[h] - 1 \in free_list
      BY <2>2, <2>3 DEF Block
    <3>2. h + property[h] = base
      <4>1. SUFFICES ASSUME h + property[h] # base PROVE FALSE
        OBVIOUS
      <4>2. h + property[h] - 1 \in Block(base, n)
        BY <4>1, <2>3, <2>4, <1>1 DEF Block
      <4> QED BY <4>2, <3>1
    <3>3. t # base
      <4>1. base - 1 \in free_list
        BY <3>1, <3>2, <2>3
      <4>2. t - 1 \notin free_list
        BY <1>12
      <4> QED BY <4>1, <4>2
    <3>4. base - 1 \in Block(t, base - t) /\ base - 1 \in Block(h, property[h])
      BY <3>2, <3>3, <2>3, <1>1, <1>12 DEF Block
    <3>5. t \in Block(h, property[h]) \/ h \in Block(t, property[t])
      BY <3>4, <3>3, <3>2, <2>3, <1>1, <1>12 DEF Block
    <3> QED BY <3>5, <3>3, <2>1, <1>12, <1>16, HeadOwns
  <2>5. \A i \in Block(h, property[h]) \ {h} : property'[i] = 0
    <3> SUFFICES ASSUME NEW i \in Block(h, property[h]) \ {h} PROVE property'[i] = 0
      OBVIOUS
    <3>1. i \in free_list /\ i \in Pages /\ property[i] = 0
      BY <2>2
    <3>2. i \notin HeadBefore(base) /\ i # base
      BY <3>1, <1>1 DEF HeadBefore
    <3> QED BY <3>1, <3>2, <1>8
  <2> QED BY <2>1, <2>2, <2>4, <2>5, <1>2
<1>17. ASSUME NEW g \in free_list'
       PROVE  \E h \in free_list' : property'[h] # 0 /\ g \in Block(h, property'[h])
  <2>1. property'[t] # 0
    BY <1>1, <1>4, <1>12
  <2>2. CASE g \in Block(base, n)
    <3>1. g \in Block(t, property'[t])
      BY <2>2, <1>1, <1>4, <1>13 DEF Block
    <3> QED BY <3>1, <2>1, <1>12
  <2>3. CASE g \in free_list
    <3>1. PICK h \in HeadsOf(free_list) : g \in Block(h, property[h])
      BY <2>3 DEF Free, BlocksExact
    <3>2. CASE h = t \/ (h = e /\ join)
      <4>1. CASE h = t
        <5>1. t # base
          BY <4>1, <3>1, <1>1 DEF HeadsOf
        <5>2. g \in Block(t, property'[t])
          BY <4>1, <5>1, <3>1, <1>12, <1>13
        <5> QED BY <5>2, <2>1, <1>12
      <4>2. CASE h = e /\ join
        <5>1. g \in Block(base, size)
          BY <4>2, <3>1, <1>5
        <5>2. g \in Block(t, property'[t])
          BY <5>1, <1>13
        <5> QED BY <5>2, <2>1, <1>12
      <4> QED BY <3>2, <4>1, <4>2
    <3>3. CASE ~(h = t \/ (h = e /\ join))
      <4>1. h \in free_list /\ h \in Pages /\ property[h] # 0 /\ h # base
        BY <3>1, <1>1 DEF HeadsOf
      <4>2. property'[h] = property[h]
        BY <4>1, <3>3, <1>8, <1>12
      <4> QED BY <4>1, <4>2, <3>1, <1>2
    <3> QED BY <3>2, <3>3
  <2> QED BY <2>2, <2>3, <1>2
<1>18. Free'
  BY <1>14, <1>16, <1>17 DEF Free, BlocksExact, HeadsOf
<1> QED BY <1>2, <1>9, <1>10, <1>11, <1>18

\* A list whose pages keep their sizes stays exact.
LEMMA AsideKeeps ==
    ASSUME BlocksExact(aside.list), aside' = aside,
           \A i \in aside.list : property'[i] = property[i]
    PROVE  BlocksExact(aside.list)'
BY DEF BlocksExact, HeadsOf
-----------------------------------------------------------------------------
\* The numbers that stand for no page are none.
LEMMA NotPages == Unmapped \notin Pages /\ Swapped \notin Pages /\ NoPage \notin Pages
BY PagesNat DEF Unmapped, Swapped, NoPage, Pages

\* The pages set aside are the rest of memory until check_swap is over.
LEMMA AsideCases ==
    ASSUME TypeOK
    PROVE  /\ Checking => aside = [list |-> Rest, nr |-> Cardinality(Rest)]
           /\ ~Checking => aside = CheckOver
BY DEF TypeOK, Checking

LEMMA AsideApart ==
    ASSUME MemInv
    PROVE  aside.list \subseteq Pages /\ aside.list \cap free_list = {}
<1> USE PagesNat, MemoryConstants
<1>1. CASE Checking
  <2>1. aside.list = Rest /\ free_list \subseteq CheckPages
    BY <1>1, AsideCases DEF MemInv, CheckSplit
  <2> QED BY <2>1 DEF Rest, CheckPages, Pages
<1>2. CASE ~Checking
  BY <1>2, AsideCases DEF MemInv, CheckOver
<1> QED BY <1>1, <1>2

\* In the initial state the blocks are those that pmm_init and check_swap made.
LEMMA InitMem == Init => MemInv
<1> USE PagesNat, MemoryConstants
<1> SUFFICES ASSUME Init PROVE MemInv
  OBVIOUS
<1>1. /\ CHECK_PAGES + 1 \in Pages /\ 1 \in Pages /\ TablePage \in Pages
      /\ CheckPages \subseteq Pages /\ Rest \subseteq Pages /\ NPAGES - 1 \in Rest
  BY DEF Pages, CheckPages, Rest, TablePage
<1>2. /\ IsFiniteSet(CheckPages) /\ Cardinality(CheckPages) = CHECK_PAGES
      /\ Cardinality(Rest) = NPAGES - 1 - CHECK_PAGES
  <2>1. Cardinality(Rest) = IF CHECK_PAGES + 1 > NPAGES - 1 THEN 0
                            ELSE (NPAGES - 1) - (CHECK_PAGES + 1) + 1
    BY FS_Interval DEF Rest
  <2>2. IsFiniteSet(CheckPages)
        /\ Cardinality(CheckPages) = IF 1 > CHECK_PAGES THEN 0
                                     ELSE CHECK_PAGES - 1 + 1
    BY FS_Interval DEF CheckPages
  <2> QED BY <2>1, <2>2
<1>3. \A f \in Pages :
         property[f] = IF f = 0 THEN NPAGES ELSE IF f = 1 THEN CHECK_PAGES
                       ELSE IF f = CHECK_PAGES + 1 THEN NPAGES - 1 - CHECK_PAGES
                       ELSE 0
  BY <1>2 DEF Init, TablePage
<1>4. property \in [Pages -> Nat]
  <2>1. NPAGES - 1 - CHECK_PAGES \in Nat
    OBVIOUS
  <2> QED BY <2>1, <1>2 DEF Init, TablePage
<1>5. Resident = {} /\ Checking
  <2>1. Resident = {}
    BY NotPages DEF Init, Resident
  <2>2. aside.list # {} /\ CheckOver.list = {}
    BY <1>1 DEF Init, CheckOver
  <2> QED BY <2>1, <2>2 DEF Checking
<1>6. TypeOK
  BY <1>1, <1>2, <1>4 DEF Init, TypeOK, Ops
<1>7. BlocksExact(free_list)
  <2>1. free_list = 1 .. CHECK_PAGES
    BY DEF Init, CheckPages
  <2>2. \A f \in free_list : property[f] = IF f = 1 THEN CHECK_PAGES ELSE 0
    BY <2>1, <1>1, <1>3 DEF CheckPages
  <2>3. HeadsOf(free_list) = {1} /\ property[1] = CHECK_PAGES
    BY <2>1, <2>2 DEF HeadsOf
  <2>4. Block(1, CHECK_PAGES) = free_list /\ 1 + CHECK_PAGES \notin free_list
    BY <2>1 DEF Block
  <2> QED BY <2>2, <2>3, <2>4 DEF BlocksExact
<1>8. BlocksExact(aside.list)
  <2> DEFINE k == CHECK_PAGES + 1
             m == NPAGES - 1 - CHECK_PAGES
  <2>1. aside.list = k .. NPAGES - 1
    BY DEF Init, Rest
  <2>2. \A f \in aside.list : property[f] = IF f = k THEN m ELSE 0
    <3>1. \A f \in aside.list : f \in Pages /\ f # 0 /\ f # 1
      BY <2>1 DEF Pages
    <3> QED BY <3>1, <1>3
  <2>3. HeadsOf(aside.list) = {k} /\ property[k] = m
    BY <2>1, <2>2 DEF HeadsOf
  <2>4. Block(k, m) = aside.list /\ k + m \notin aside.list
    BY <2>1 DEF Block
  <2> QED BY <2>2, <2>3, <2>4 DEF BlocksExact
<1>9. ListsExact
  <2>1. nr_free = Cardinality(free_list)
    BY <1>2 DEF Init
  <2>2. \A p \in Procs : StackOf(p) = {}
    BY DEF Init, StackOf
  <2> QED BY <1>7, <1>8, <2>1, <2>2 DEF ListsExact
<1>10. CheckSplit /\ ProcSplit
  BY <1>5 DEF Init, CheckSplit, ProcSplit
<1>11. QueueOnce
  <2>1. DOMAIN pra_list = {} /\ Len(pra_list) = 0
    BY DEF Init
  <2>2. Cardinality(Resident) = 0
    BY <1>5, FS_EmptySet
  <2>3. \A v \in VPages : pte[v] \notin Pages
    BY NotPages DEF Init
  <2> QED BY <2>1, <2>2, <2>3, <1>5 DEF QueueOnce, QueueExact
<1>12. OpSound
  BY DEF Init, Idle, OpSound
<1> QED BY <1>6, <1>9, <1>10, <1>11, <1>12 DEF MemInv

\* The parts of the invariant that speak neither of contents nor of op.
LEMMA SplitKeeps ==
    ASSUME MemInv, UNCHANGED <<pmmVars, aside, pte, pra_list, pra_vaddr, procVars>>
    PROVE  ListsExact' /\ CheckSplit' /\ ProcSplit' /\ QueueOnce'
<1> USE DEF pmmVars, procVars
<1>1. Checking' = Checking /\ Resident' = Resident
  BY DEF Checking, Resident
<1>2. \A p \in Procs : StackOf(p)' = StackOf(p) /\ Owned(p)' = Owned(p)
  BY DEF StackOf, Owned
<1>3. BlocksExact(free_list)' /\ BlocksExact(aside.list)'
  BY DEF MemInv, ListsExact, BlocksExact, HeadsOf
<1>4. ListsExact'
  BY <1>2, <1>3 DEF MemInv, ListsExact
<1>5. CheckSplit' /\ ProcSplit'
  BY <1>1, <1>2 DEF MemInv, CheckSplit, ProcSplit
<1>6. QueueOnce'
  BY <1>1 DEF MemInv, QueueOnce, QueueExact
<1> QED BY <1>4, <1>5, <1>6

\* A step that changes op alone.
LEMMA OpKeeps ==
    ASSUME MemInv, UNCHANGED <<pmmVars, aside, swapVars, procVars>>,
           op' \in Ops, OpSound'
    PROVE  MemInv'
<1>1. ListsExact' /\ CheckSplit' /\ ProcSplit' /\ QueueOnce'
  BY SplitKeeps DEF swapVars
<1>2. TypeOK'
  BY DEF MemInv, TypeOK, pmmVars, swapVars, procVars
<1> QED BY <1>1, <1>2 DEF MemInv
-----------------------------------------------------------------------------
\* Stacks are neither free nor set aside.
LEMMA StacksApart ==
    ASSUME MemInv, NEW p \in Procs
    PROVE  StackOf(p) \subseteq Pages \ free_list
<1> USE PagesNat, MemoryConstants
<1>1. CASE Checking
  BY <1>1 DEF MemInv, CheckSplit, StackOf
<1>2. CASE ~Checking
  BY <1>2 DEF MemInv, ProcSplit, Owned, Rest, Pages
<1> QED BY <1>1, <1>2

\* alloc_pages, called by anybody: what becomes of the lists and of the sizes.
LEMMA AllocLists ==
    ASSUME MemInv, NEW f \in Pages, NEW n \in Nat \ {0}, AllocPages(f, n),
           aside' = aside
    PROVE  /\ Block(f, n) \subseteq free_list
           /\ free_list' = free_list \ Block(f, n) /\ free_list' \subseteq Pages
           /\ property' \in [Pages -> Nat] /\ nr_free' \in Nat
           /\ nr_free' = Cardinality(free_list')
           /\ BlocksExact(free_list)' /\ BlocksExact(aside.list)'
           /\ \A i \in Block(f, n) \ {f} : property'[i] = 0
           /\ \A p \in Procs : \A i \in StackOf(p) \ {kstack[p]} : property'[i] = 0
<1>1. /\ free_list \subseteq Pages /\ property \in [Pages -> Nat] /\ Free
      /\ nr_free = Cardinality(free_list)
  BY DEF MemInv, TypeOK, ListsExact, Free
<1>2. /\ Block(f, n) \subseteq free_list
      /\ free_list' = free_list \ Block(f, n)
      /\ property' \in [Pages -> Nat]
      /\ nr_free' \in Nat /\ nr_free' = Cardinality(free_list')
      /\ \A i \in Block(f, n) \ {f} : property'[i] = 0
      /\ \A i \in Pages \ free_list : property'[i] = property[i]
      /\ Free'
  BY <1>1, AllocKeeps
<1>3. BlocksExact(aside.list)'
  <2>1. \A i \in aside.list : property'[i] = property[i]
    BY <1>2, AsideApart
  <2> QED BY <2>1, AsideKeeps DEF MemInv, ListsExact
<1>4. \A p \in Procs : \A i \in StackOf(p) \ {kstack[p]} : property'[i] = 0
  BY <1>2, StacksApart DEF MemInv, ListsExact
<1> QED BY <1>1, <1>2, <1>3, <1>4 DEF Free

\* free_pages, called for a block that its caller holds.
LEMMA FreeLists ==
    ASSUME MemInv, NEW base \in Pages, NEW n \in Nat \ {0}, FreePages(base, n),
           aside' = aside,
           Block(base, n) \subseteq Pages \ (free_list \cup aside.list),
           \A i \in Block(base, n) \ {base} : property[i] = 0
    PROVE  /\ free_list' = free_list \cup Block(base, n) /\ free_list' \subseteq Pages
           /\ property' \in [Pages -> Nat] /\ nr_free' \in Nat
           /\ nr_free' = Cardinality(free_list')
           /\ BlocksExact(free_list)' /\ BlocksExact(aside.list)'
           /\ \A p \in Procs : \A i \in StackOf(p) \ {kstack[p], base} : property'[i] = 0
<1>1. /\ free_list \subseteq Pages /\ property \in [Pages -> Nat] /\ Free
      /\ nr_free = Cardinality(free_list)
  BY DEF MemInv, TypeOK, ListsExact, Free
<1>2. /\ free_list' = free_list \cup Block(base, n)
      /\ property' \in [Pages -> Nat]
      /\ nr_free' \in Nat /\ nr_free' = Cardinality(free_list')
      /\ \A i \in Pages \ (free_list \cup {base}) : property'[i] = property[i]
      /\ Free'
  BY <1>1, FreeKeeps
<1>3. BlocksExact(aside.list)'
  <2>1. base \in Block(base, n)
    BY PagesNat DEF Block, Pages
  <2>2. \A i \in aside.list : property'[i] = property[i]
    BY <2>1, <1>2, AsideApart
  <2> QED BY <2>2, AsideKeeps DEF MemInv, ListsExact
<1>4. \A p \in Procs : \A i \in StackOf(p) \ {kstack[p], base} : property'[i] = 0
  BY <1>2, StacksApart DEF MemInv, ListsExact
<1> QED BY <1>1, <1>2, <1>3, <1>4 DEF Free

\* A single page is a block of one.
LEMMA OnePage ==
    ASSUME NEW f \in Pages
    PROVE  Block(f, 1) = {f}
BY PagesNat DEF Block, Pages

-----------------------------------------------------------------------------
\* While check_swap runs: the actions one by one.
LEMMA WriteKeeps ==
    ASSUME MemInv, NEW v \in VPages, NEW x \in Values, Write(v, x)
    PROVE  MemInv'
<1>1. ListsExact' /\ CheckSplit' /\ ProcSplit' /\ QueueOnce'
  BY SplitKeeps DEF Write
<1>2. TypeOK'
  <2>1. content' \in [Pages -> Values]
    BY DEF Write, MemInv, TypeOK
  <2> QED BY <2>1 DEF Write, MemInv, TypeOK, pmmVars, procVars
<1>3. OpSound'
  BY DEF Write, MemInv, OpSound, Checking, procVars
<1> QED BY <1>1, <1>2, <1>3 DEF MemInv

LEMMA FaultKeeps ==
    ASSUME MemInv, NEW v \in VPages, Fault(v)
    PROVE  MemInv'
<1>1. op' \in Ops
  BY DEF Fault, Ops
<1>2. OpSound'
  <2>1. op'.at = "fault" /\ op'.v = v
    BY DEF Fault
  <2>2. Checking' /\ pte' = pte
    BY DEF Fault, Checking, swapVars
  <2> QED BY <2>1, <2>2 DEF Fault, OpSound
<1> QED BY <1>1, <1>2, OpKeeps DEF Fault

\* A path that serves a fault is in the check and has its page.
LEMMA FaultIs ==
    ASSUME MemInv, op.at = "fault"
    PROVE  /\ op.v \in VPages /\ pte[op.v] \notin Pages
           /\ Checking
           /\ aside.list = Rest /\ free_list \cup Resident = CheckPages
           /\ free_list \cap Resident = {}
           /\ \A p \in Procs : kstack[p] = NoPage /\ space[p] = {} /\ StackOf(p) = {}
<1>1. op.v \in VPages
  BY DEF MemInv, TypeOK, Ops, Idle
<1>2. Checking /\ pte[op.v] \notin Pages
  BY DEF MemInv, OpSound
<1>3. aside.list = Rest
  BY <1>2, AsideCases DEF MemInv
<1> QED BY <1>1, <1>2, <1>3 DEF MemInv, CheckSplit, StackOf

\* When no page is free, swap_out has a victim; it is the page that the queue
\* and its virtual address say, and nobody else has it mapped.
LEMMA VictimExists ==
    ASSUME MemInv, op.at = "fault", NoFit(1)
    PROVE  /\ free_list = {} /\ pra_list # <<>>
           /\ Head(pra_list) \in Resident
           /\ pra_vaddr[Head(pra_list)] \in VPages
           /\ \A v \in VPages :
                 pte[v] = Head(pra_list) <=> v = pra_vaddr[Head(pra_list)]
<1> USE PagesNat, MemoryConstants
<1>1. free_list = {}
  <2>1. SUFFICES ASSUME NEW f \in free_list PROVE FALSE
    OBVIOUS
  <2>2. f \in Pages /\ Block(f, 1) \subseteq free_list
    BY <2>1, OnePage DEF MemInv, TypeOK
  <2>3. FitExact
    BY ExactIsFit DEF MemInv, TypeOK, ListsExact, Free
  <2>4. 1 \in 1 .. NPAGES
    OBVIOUS
  <2> QED BY <2>2, <2>3, <2>4 DEF FitExact
<1>2. 1 \in Resident
  <2>1. 1 \in CheckPages
    BY DEF CheckPages
  <2> QED BY <2>1, <1>1, FaultIs
<1>3. /\ {pra_list[i] : i \in DOMAIN pra_list} = Resident
      /\ \A v \in VPages : pte[v] \in Pages => pra_vaddr[pte[v]] = v
      /\ pra_list \in Seq(Pages)
  BY FaultIs DEF MemInv, QueueOnce, QueueExact, TypeOK
<1>4. pra_list # <<>>
  BY <1>2, <1>3
<1>5. Head(pra_list) \in Resident
  <2>1. 1 \in DOMAIN pra_list /\ Head(pra_list) = pra_list[1]
    BY <1>3, <1>4
  <2> QED BY <2>1, <1>3
<1>6. PICK v \in VPages : pte[v] = Head(pra_list) /\ pte[v] \in Pages
  BY <1>5 DEF Resident
<1>7. pra_vaddr[Head(pra_list)] = v
  BY <1>3, <1>6
<1> QED BY <1>1, <1>3, <1>4, <1>5, <1>6, <1>7
\* swap_out takes its victim off the queue and out of the page table.
LEMMA SwapOutKeeps ==
    ASSUME MemInv, SwapOut
    PROVE  MemInv'
<1> USE PagesNat, MemoryConstants
<1> DEFINE f == Head(pra_list)
           v == pra_vaddr[f]
<1>1. /\ op.at = "fault" /\ FreePages(f, 1)
      /\ swap' = [swap EXCEPT ![v] = content[f]]
      /\ pte' = [pte EXCEPT ![v] = Swapped]
      /\ pra_list' = Tail(pra_list)
      /\ UNCHANGED <<aside, content, pra_vaddr, procVars, op>>
  BY DEF SwapOut, SlotOf
<1>2. /\ free_list = {} /\ pra_list # <<>> /\ f \in Resident
      /\ v \in VPages /\ \A w \in VPages : pte[w] = f <=> w = v
  BY VictimExists DEF SwapOut
<1>3. /\ f \in Pages /\ f \in CheckPages /\ Checking /\ Resident \subseteq Pages
      /\ aside.list = Rest /\ Block(f, 1) = {f}
      /\ op.v \in VPages /\ pte[op.v] \notin Pages
      /\ \A p \in Procs : kstack[p] = NoPage /\ space[p] = {} /\ StackOf(p) = {}
      /\ Resident = CheckPages
  BY <1>1, <1>2, FaultIs, OnePage DEF Resident
<1>4. Block(f, 1) \subseteq Pages \ (free_list \cup aside.list)
  BY <1>2, <1>3 DEF CheckPages, Rest
<1>5. \A i \in Block(f, 1) \ {f} : property[i] = 0
  BY <1>3
<1>6. /\ free_list' = {f} /\ free_list' \subseteq Pages
      /\ property' \in [Pages -> Nat] /\ nr_free' \in Nat
      /\ nr_free' = Cardinality(free_list')
      /\ BlocksExact(free_list)' /\ BlocksExact(aside.list)'
  BY <1>1, <1>2, <1>3, <1>4, <1>5, FreeLists
<1>7. pte \in [VPages -> Pages \cup {Unmapped, Swapped}] /\ pra_list \in Seq(Pages)
  BY DEF MemInv, TypeOK
<1>8. /\ Resident' = Resident \ {f}
      /\ \A w \in VPages : pte'[w] \in Pages => w # v /\ pte'[w] = pte[w]
  BY <1>1, <1>2, <1>7, NotPages DEF Resident
<1>9. Checking' /\ \A p \in Procs : StackOf(p)' = {} /\ kstack'[p] = NoPage /\ space'[p] = {}
  BY <1>1, <1>3 DEF Checking, StackOf, procVars
<1>10. TypeOK'
  <2>1. content[f] \in Values
    BY <1>3 DEF MemInv, TypeOK
  <2>2. swap' \in [VPages -> Values]
    BY <2>1, <1>1 DEF MemInv, TypeOK
  <2>3. pte' \in [VPages -> Pages \cup {Unmapped, Swapped}]
    BY <1>1, <1>7
  <2>4. pra_list' \in Seq(Pages)
    BY <1>1, <1>2, <1>7
  <2> QED BY <2>2, <2>3, <2>4, <1>1, <1>6 DEF MemInv, TypeOK, procVars
<1>11. ListsExact'
  BY <1>6, <1>9 DEF ListsExact
<1>12. CheckSplit' /\ ProcSplit'
  BY <1>2, <1>3, <1>6, <1>8, <1>9 DEF CheckSplit, ProcSplit
<1>13. QueueOnce'
  <2>1. /\ {pra_list[i] : i \in DOMAIN pra_list} = Resident
        /\ Len(pra_list) = Cardinality(Resident)
        /\ \A w \in VPages : pte[w] \in Pages => pra_vaddr[pte[w]] = w
        /\ \A i, j \in DOMAIN pra_list : pra_list[i] = pra_list[j] => i = j
    BY <1>3 DEF MemInv, QueueOnce, QueueExact
  <2> DEFINE n == Len(pra_list)
  <2>2. /\ n \in Nat /\ n >= 1 /\ DOMAIN pra_list = 1 .. n /\ f = pra_list[1]
        /\ DOMAIN pra_list' = 1 .. n - 1 /\ Len(pra_list') = n - 1
        /\ \A i \in 1 .. n - 1 : pra_list'[i] = pra_list[i + 1]
    BY <1>1, <1>2, <1>7
  <2> HIDE DEF n
  <2>3. ASSUME NEW i \in 1 .. n - 1
        PROVE  i + 1 \in 1 .. n /\ i + 1 # 1
    BY <2>2
  <2>4. \A i \in DOMAIN pra_list' : pra_list'[i] \in Resident /\ pra_list'[i] # f
    <3> SUFFICES ASSUME NEW i \in 1 .. n - 1
                 PROVE  pra_list[i + 1] \in Resident /\ pra_list[i + 1] # pra_list[1]
      BY <2>2
    <3>1. i + 1 \in 1 .. n /\ 1 \in 1 .. n /\ i + 1 # 1
      BY <2>2, <2>3
    <3>2. pra_list[i + 1] \in Resident
      BY <2>1, <2>2, <3>1
    <3>3. pra_list[i + 1] # pra_list[1]
      BY <2>1, <2>2, <3>1
    <3> QED BY <3>2, <3>3
  <2>5. \A g \in Resident \ {f} : \E i \in DOMAIN pra_list' : pra_list'[i] = g
    <3> SUFFICES ASSUME NEW g \in Resident, g # pra_list[1]
                 PROVE  \E i \in 1 .. n - 1 : pra_list[i + 1] = g
      BY <2>2
    <3>1. PICK k \in 1 .. n : pra_list[k] = g
      BY <2>1, <2>2
    <3>2. k # 1
      BY <3>1
    <3>3. k - 1 \in 1 .. n - 1 /\ (k - 1) + 1 = k
      BY <3>2, <2>2
    <3> QED BY <3>1, <3>3
  <2>6. {pra_list'[i] : i \in DOMAIN pra_list'} = Resident'
    BY <2>4, <2>5, <1>8
  <2>7. Len(pra_list') = Cardinality(Resident')
    <3>1. IsFiniteSet(Resident)
      BY <1>3, PagesFinite
    <3>2. Cardinality(Resident \ {f}) = Cardinality(Resident) - 1
      BY <3>1, <1>2, FS_RemoveElement
    <3> QED BY <3>2, <2>1, <2>2, <1>8 DEF n
  <2>8. \A i, j \in DOMAIN pra_list' : pra_list'[i] = pra_list'[j] => i = j
    <3> SUFFICES ASSUME NEW i \in 1 .. n - 1, NEW j \in 1 .. n - 1,
                        pra_list[i + 1] = pra_list[j + 1]
                 PROVE  i = j
      BY <2>2
    <3>1. i + 1 \in 1 .. n /\ j + 1 \in 1 .. n
      BY <2>2
    <3>2. i + 1 = j + 1
      BY <3>1, <2>1, <2>2
    <3> QED BY <3>2, <2>2
  <2>9. \A w \in VPages : pte'[w] \in Pages => pra_vaddr'[pte'[w]] = w
    BY <2>1, <1>1, <1>8
  <2> QED BY <2>6, <2>7, <2>8, <2>9 DEF QueueOnce, QueueExact
<1>14. OpSound'
  <2>1. pte'[op.v] \notin Pages
    BY <1>3, <1>8
  <2> QED BY <2>1, <1>1, <1>9 DEF OpSound
<1> QED BY <1>10, <1>11, <1>12, <1>13, <1>14 DEF MemInv

\* The page that serves a fault goes to the end of the queue.
LEMMA FaultMapKeeps ==
    ASSUME MemInv, FaultMap
    PROVE  MemInv'
<1> USE PagesNat, MemoryConstants
<1>1. PICK f \in Pages :
         /\ AllocPages(f, 1)
         /\ content' = IF pte[op.v] = Swapped
                       THEN [content EXCEPT ![f] = swap[SlotOf(op.v)]]
                       ELSE content
         /\ pte' = [pte EXCEPT ![op.v] = f]
         /\ pra_list' = Append(pra_list, f)
         /\ pra_vaddr' = [pra_vaddr EXCEPT ![f] = op.v]
         /\ op.at = "fault" /\ op' = Idle
         /\ UNCHANGED <<aside, swap, procVars>>
  BY DEF FaultMap, MapSwappable
<1>2. /\ op.v \in VPages /\ pte[op.v] \notin Pages /\ Checking
      /\ aside.list = Rest /\ free_list \cup Resident = CheckPages
      /\ free_list \cap Resident = {} /\ Block(f, 1) = {f}
      /\ \A p \in Procs : kstack[p] = NoPage /\ space[p] = {} /\ StackOf(p) = {}
  BY <1>1, FaultIs, OnePage
<1>3. /\ f \in free_list /\ f \notin Resident
      /\ free_list' = free_list \ {f} /\ free_list' \subseteq Pages
      /\ property' \in [Pages -> Nat] /\ nr_free' \in Nat
      /\ nr_free' = Cardinality(free_list')
      /\ BlocksExact(free_list)' /\ BlocksExact(aside.list)'
  BY <1>1, <1>2, AllocLists
<1>4. pte \in [VPages -> Pages \cup {Unmapped, Swapped}] /\ pra_list \in Seq(Pages)
  BY DEF MemInv, TypeOK
<1>5. /\ Resident' = Resident \cup {f}
      /\ \A w \in VPages : pte'[w] \in Pages =>
            IF w = op.v THEN pte'[w] = f
            ELSE pte'[w] = pte[w] /\ pte[w] \in Resident
  BY <1>1, <1>2, <1>4 DEF Resident
<1>6. Checking' /\ \A p \in Procs : StackOf(p)' = {} /\ kstack'[p] = NoPage /\ space'[p] = {}
  BY <1>1, <1>2 DEF Checking, StackOf, procVars
<1>7. TypeOK'
  <2>1. content' \in [Pages -> Values]
    <3>1. swap[SlotOf(op.v)] \in Values
      BY <1>2 DEF MemInv, TypeOK, SlotOf
    <3> QED BY <3>1, <1>1 DEF MemInv, TypeOK
  <2>2. pte' \in [VPages -> Pages \cup {Unmapped, Swapped}]
    BY <1>1, <1>4
  <2>3. pra_list' \in Seq(Pages)
    BY <1>1, <1>4
  <2>4. pra_vaddr' \in [Pages -> VPages \cup {0}]
    BY <1>1, <1>2 DEF MemInv, TypeOK
  <2>5. op' \in Ops
    BY <1>1 DEF Ops
  <2> QED BY <2>1, <2>2, <2>3, <2>4, <2>5, <1>1, <1>3 DEF MemInv, TypeOK, procVars
<1>8. ListsExact'
  BY <1>3, <1>6 DEF ListsExact
<1>9. CheckSplit' /\ ProcSplit'
  BY <1>2, <1>3, <1>5, <1>6 DEF CheckSplit, ProcSplit
<1>10. QueueOnce'
  <2>1. /\ {pra_list[i] : i \in DOMAIN pra_list} = Resident
        /\ Len(pra_list) = Cardinality(Resident)
        /\ \A w \in VPages : pte[w] \in Pages => pra_vaddr[pte[w]] = w
        /\ \A i, j \in DOMAIN pra_list : pra_list[i] = pra_list[j] => i = j
    BY <1>2 DEF MemInv, QueueOnce, QueueExact
  <2> DEFINE n == Len(pra_list)
  <2>2. /\ n \in Nat /\ DOMAIN pra_list = 1 .. n
        /\ DOMAIN pra_list' = 1 .. n + 1 /\ Len(pra_list') = n + 1
        /\ pra_list'[n + 1] = f
        /\ \A i \in 1 .. n : pra_list'[i] = pra_list[i]
    BY <1>1, <1>4
  <2> HIDE DEF n
  <2>3. \A i \in 1 .. n : pra_list'[i] \in Resident
    BY <2>1, <2>2
  <2>4. \A i \in 1 .. n + 1 : i \in 1 .. n \/ i = n + 1
    BY <2>2
  <2>5. {pra_list'[i] : i \in DOMAIN pra_list'} = Resident'
    <3>1. ASSUME NEW g \in Resident'
          PROVE  \E i \in 1 .. n + 1 : pra_list'[i] = g
      <4>1. n + 1 \in 1 .. n + 1 /\ \A i \in 1 .. n : i \in 1 .. n + 1
        BY <2>2
      <4>2. CASE g = f
        BY <4>1, <4>2, <2>2
      <4>3. CASE g \in Resident
        <5>1. PICK i \in 1 .. n : pra_list[i] = g
          BY <4>3, <2>1, <2>2
        <5> QED BY <5>1, <4>1, <2>2
      <4> QED BY <4>2, <4>3, <1>5
    <3>2. \A i \in 1 .. n + 1 : pra_list'[i] \in Resident'
      BY <2>2, <2>3, <2>4, <1>5
    <3> QED BY <3>1, <3>2, <2>2
  <2>6. Len(pra_list') = Cardinality(Resident')
    <3>1. IsFiniteSet(Resident)
      <4>1. Resident \subseteq Pages
        BY DEF Resident
      <4> QED BY <4>1, PagesFinite
    <3>2. Cardinality(Resident \cup {f}) = Cardinality(Resident) + 1
      BY <3>1, <1>3, FS_AddElement
    <3> QED BY <3>2, <2>1, <2>2, <1>5 DEF n
  <2>7. \A i, j \in DOMAIN pra_list' : pra_list'[i] = pra_list'[j] => i = j
    BY <2>1, <2>2, <2>3, <2>4, <1>3
  <2>8. \A w \in VPages : pte'[w] \in Pages => pra_vaddr'[pte'[w]] = w
    <3> SUFFICES ASSUME NEW w \in VPages, pte'[w] \in Pages
                 PROVE  pra_vaddr'[pte'[w]] = w
      OBVIOUS
    <3>1. pra_vaddr \in [Pages -> VPages \cup {0}]
      BY DEF MemInv, TypeOK
    <3>2. CASE w = op.v
      BY <3>1, <3>2, <1>1, <1>5
    <3>3. CASE w # op.v
      <4>1. pte'[w] = pte[w] /\ pte[w] \in Resident /\ pte[w] # f
        BY <3>3, <1>3, <1>5
      <4> QED BY <4>1, <3>1, <2>1, <1>1
    <3> QED BY <3>2, <3>3
  <2> QED BY <2>5, <2>6, <2>7, <2>8 DEF QueueOnce, QueueExact
<1>11. OpSound'
  BY <1>1 DEF OpSound, Idle
<1> QED BY <1>7, <1>8, <1>9, <1>10, <1>11 DEF MemInv

\* The list set aside replaces the one in use.
LEMMA CheckEndKeeps ==
    ASSUME MemInv, CheckEnd
    PROVE  MemInv'
<1> USE PagesNat, MemoryConstants
<1>1. /\ aside = [list |-> Rest, nr |-> Cardinality(Rest)]
      /\ \A p \in Procs : kstack[p] = NoPage /\ space[p] = {}
  BY AsideCases DEF CheckEnd, MemInv, CheckSplit
<1>2. /\ free_list' = Rest /\ nr_free' = Cardinality(Rest) /\ aside' = CheckOver
      /\ property' = property /\ op' = op /\ op = Idle
      /\ kstack' = kstack /\ space' = space
  BY <1>1 DEF CheckEnd, procVars
<1>3. ~Checking' /\ Resident' = {} /\ \A v \in VPages : pte'[v] \notin Pages
  BY <1>2, NotPages DEF Checking, CheckEnd, Resident
<1>4. \A p \in Procs : StackOf(p)' = {} /\ Owned(p)' = {}
  BY <1>1, <1>2 DEF StackOf, Owned
<1>5. Rest \subseteq Pages
  BY DEF Rest, Pages
<1>6. TypeOK'
  <2>1. Cardinality(Rest) \in Nat
    BY <1>5, PagesFinite
  <2>2. /\ content' \in [Pages -> Values] /\ swap' \in [VPages -> Values]
        /\ pte' \in [VPages -> Pages \cup {Unmapped, Swapped}]
        /\ pra_list' \in Seq(Pages) /\ pra_vaddr' \in [Pages -> VPages \cup {0}]
    BY DEF CheckEnd
  <2> QED BY <2>1, <2>2, <1>2, <1>5 DEF MemInv, TypeOK
<1>7. ListsExact'
  <2>1. BlocksExact(free_list)'
    BY <1>1, <1>2 DEF MemInv, ListsExact, BlocksExact, HeadsOf
  <2>2. BlocksExact(aside.list)'
    BY <1>2 DEF CheckOver, BlocksExact, HeadsOf
  <2> QED BY <2>1, <2>2, <1>2, <1>4 DEF ListsExact
<1>8. CheckSplit' /\ ProcSplit'
  <2>1. \A p \in Procs : StackOf(p)' \cap space'[p] = {}
    BY <1>4
  <2> QED BY <2>1, <1>2, <1>3, <1>4 DEF CheckSplit, ProcSplit
<1>9. QueueOnce'
  BY <1>3 DEF QueueOnce, QueueExact
<1>10. OpSound'
  BY <1>2 DEF OpSound, Idle
<1> QED BY <1>6, <1>7, <1>8, <1>9, <1>10 DEF MemInv
-----------------------------------------------------------------------------
\* After check_swap.  Paths that only begin, end or fail change op alone.
LEMMA ForkKeeps ==
    ASSUME MemInv, NEW c \in Procs, Fork(c)
    PROVE  MemInv'
<1>1. PICK n \in {0} \cup {Cardinality(space[p]) : p \in Procs \ NewProc} :
         op' = [at |-> "stack", child |-> c, todo |-> n]
  BY DEF Fork
<1>2. n \in Nat
  BY PagesFinite DEF MemInv, TypeOK
<1>3. op' \in Ops
  BY <1>1, <1>2 DEF Ops
<1>4. OpSound'
  BY <1>1 DEF Fork, OpSound, NewProc, Checking, procVars
<1> QED BY <1>3, <1>4, OpKeeps DEF Fork

LEMMA BeginKeeps ==
    ASSUME MemInv, NEW p \in Procs, Grow(p) \/ Exit(p)
    PROVE  MemInv'
<1>1. op' \in Ops
  BY DEF Grow, Exit, Ops
<1>2. OpSound'
  BY DEF Grow, Exit, OpSound, Checking
<1> QED BY <1>1, <1>2, OpKeeps DEF Grow, Exit

LEMMA EndKeeps ==
    ASSUME MemInv, ForkNoStack \/ GrowDone
    PROVE  MemInv'
<1>1. op' \in Ops
  BY DEF ForkNoStack, GrowDone, Ops
<1>2. OpSound'
  BY DEF ForkNoStack, GrowDone, OpSound, Idle
<1> QED BY <1>1, <1>2, OpKeeps DEF ForkNoStack, GrowDone

LEMMA PanicKeeps ==
    ASSUME MemInv, Panic
    PROVE  MemInv'
<1>1. op' \in Ops
  BY DEF Panic, Ops
<1>2. OpSound'
  BY DEF Panic, OpSound, MemInv, Checking
<1> QED BY <1>1, <1>2, OpKeeps DEF Panic

\* A path of a process: it is after the check, and of some process.
LEMMA PathIs ==
    ASSUME MemInv, op.at \in {"stack", "grow", "unmap"}
    PROVE  /\ ~Checking /\ aside = CheckOver /\ Resident = {}
           /\ op.at = "stack" => /\ op.child \in Procs /\ kstack[op.child] = NoPage
                                 /\ op.todo \in Nat
           /\ op.at = "grow" => op.proc \in Procs /\ op.todo \in Nat
           /\ op.at = "unmap" => op.proc \in Procs
<1>1. ~Checking
  BY DEF MemInv, OpSound
<1>2. /\ op.at = "stack" => op.child \in Procs /\ op.todo \in Nat
      /\ op.at = "grow" => op.proc \in Procs /\ op.todo \in Nat
      /\ op.at = "unmap" => op.proc \in Procs
  BY DEF MemInv, TypeOK, Ops, Idle
<1> QED BY <1>1, <1>2, AsideCases DEF MemInv, ProcSplit, OpSound

\* Pages B go from the free list to process c ...
LEMMA Gives ==
    ASSUME MemInv, ~Checking, aside' = aside, pte' = pte, NEW c \in Procs,
           NEW B \in SUBSET free_list, free_list' = free_list \ B,
           Owned(c)' = Owned(c) \cup B,
           \A p \in Procs \ {c} : Owned(p)' = Owned(p),
           \A p \in Procs : StackOf(p)' \cap space'[p] = {}
    PROVE  CheckSplit' /\ ProcSplit' /\ ~Checking'
<1>1. ~Checking' /\ Resident' = Resident
  BY DEF Checking, Resident
<1>2. /\ Resident = {}
      /\ free_list \cup UNION {Owned(p) : p \in Procs} = Rest
      /\ \A p \in Procs : Owned(p) \cap free_list = {}
      /\ \A p \in Procs : \A q \in Procs \ {p} : Owned(p) \cap Owned(q) = {}
  BY DEF MemInv, ProcSplit
<1> DEFINE Own(p) == Owned(p)'
<1>3. \A p \in Procs : Own(p) = Owned(p) \cup (IF p = c THEN B ELSE {})
  OBVIOUS
<1> HIDE DEF Own
<1>4. free_list' \cup UNION {Own(p) : p \in Procs} = Rest
  <2>1. ASSUME NEW x \in Rest PROVE x \in free_list' \cup UNION {Own(p) : p \in Procs}
    BY <1>2, <1>3
  <2>2. ASSUME NEW x \in free_list' \cup UNION {Own(p) : p \in Procs} PROVE x \in Rest
    BY <1>2, <1>3
  <2> QED BY <2>1, <2>2
<1>5. \A p \in Procs : Own(p) \cap free_list' = {}
  BY <1>2, <1>3
<1>6. \A p \in Procs : \A q \in Procs \ {p} : Own(p) \cap Own(q) = {}
  BY <1>2, <1>3
<1>7. ProcSplit'
  BY <1>1, <1>2, <1>4, <1>5, <1>6 DEF ProcSplit, Own
<1> QED BY <1>1, <1>7 DEF CheckSplit

\* ... and back.
LEMMA Takes ==
    ASSUME MemInv, ~Checking, aside' = aside, pte' = pte, NEW c \in Procs,
           NEW B \in SUBSET Owned(c), free_list' = free_list \cup B,
           Owned(c)' = Owned(c) \ B,
           \A p \in Procs \ {c} : Owned(p)' = Owned(p),
           \A p \in Procs : StackOf(p)' \cap space'[p] = {}
    PROVE  CheckSplit' /\ ProcSplit' /\ ~Checking'
<1>1. ~Checking' /\ Resident' = Resident
  BY DEF Checking, Resident
<1>2. /\ Resident = {}
      /\ free_list \cup UNION {Owned(p) : p \in Procs} = Rest
      /\ \A p \in Procs : Owned(p) \cap free_list = {}
      /\ \A p \in Procs : \A q \in Procs \ {p} : Owned(p) \cap Owned(q) = {}
  BY DEF MemInv, ProcSplit
<1> DEFINE Own(p) == Owned(p)'
<1>3. \A p \in Procs : Own(p) = Owned(p) \ (IF p = c THEN B ELSE {})
  OBVIOUS
<1> HIDE DEF Own
<1>4. free_list' \cup UNION {Own(p) : p \in Procs} = Rest
  <2>1. ASSUME NEW x \in Rest PROVE x \in free_list' \cup UNION {Own(p) : p \in Procs}
    <3>1. CASE x \in B \/ x \in free_list
      BY <3>1
    <3>2. CASE x \notin B /\ x \notin free_list
      <4>1. PICK p \in Procs : x \in Owned(p)
        BY <3>2, <1>2
      <4> QED BY <4>1, <3>2, <1>3
    <3> QED BY <3>1, <3>2
  <2>2. ASSUME NEW x \in free_list' \cup UNION {Own(p) : p \in Procs} PROVE x \in Rest
    BY <1>2, <1>3
  <2> QED BY <2>1, <2>2
<1>5. \A p \in Procs : Own(p) \cap free_list' = {}
  BY <1>2, <1>3
<1>6. \A p \in Procs : \A q \in Procs \ {p} : Own(p) \cap Own(q) = {}
  BY <1>2, <1>3
<1>7. ProcSplit'
  BY <1>1, <1>2, <1>4, <1>5, <1>6 DEF ProcSplit, Own
<1> QED BY <1>1, <1>7 DEF CheckSplit

\* setup_kstack gives a process without a stack the pages of one.
LEMMA ForkStackKeeps ==
    ASSUME MemInv, ForkStack
    PROVE  MemInv'
<1> USE PagesNat, MemoryConstants
<1>0. PICK c \in Procs : c = op.child
  BY PathIs DEF ForkStack
<1>1. PICK f \in Pages : /\ AllocPages(f, KSTACKPAGE)
                         /\ kstack' = [kstack EXCEPT ![c] = f]
                         /\ op' = [at |-> "grow", proc |-> c, todo |-> op.todo]
                         /\ UNCHANGED <<aside, swapVars, space>>
                         /\ op.at = "stack"
  BY <1>0 DEF ForkStack
<1>2. /\ ~Checking /\ c \in Procs /\ kstack[c] = NoPage /\ op.todo \in Nat
      /\ pte' = pte
  BY <1>0, <1>1, PathIs DEF swapVars
<1> DEFINE B == Block(f, KSTACKPAGE)
<1>3. /\ B \subseteq free_list
      /\ free_list' = free_list \ B /\ free_list' \subseteq Pages
      /\ property' \in [Pages -> Nat] /\ nr_free' \in Nat
      /\ nr_free' = Cardinality(free_list')
      /\ BlocksExact(free_list)' /\ BlocksExact(aside.list)'
      /\ \A i \in B \ {f} : property'[i] = 0
      /\ \A p \in Procs : \A i \in StackOf(p) \ {kstack[p]} : property'[i] = 0
  BY <1>1, AllocLists
<1>4. /\ kstack' \in [Procs -> Pages \cup {NoPage}] /\ kstack'[c] = f
      /\ \A p \in Procs \ {c} : kstack'[p] = kstack[p]
  BY <1>1, <1>2 DEF MemInv, TypeOK
<1>5. /\ StackOf(c)' = B /\ StackOf(c) = {}
      /\ \A p \in Procs \ {c} : StackOf(p)' = StackOf(p)
  BY <1>2, <1>4, NotPages DEF StackOf
<1>6. TypeOK'
  <2>1. op' \in Ops
    BY <1>1, <1>2 DEF Ops
  <2> QED BY <2>1, <1>1, <1>3, <1>4 DEF MemInv, TypeOK, swapVars
<1>7. ListsExact'
  BY <1>3, <1>4, <1>5 DEF ListsExact
<1>8. CheckSplit' /\ ProcSplit' /\ ~Checking'
  <2>1. /\ Owned(c)' = Owned(c) \cup B
        /\ \A p \in Procs \ {c} : Owned(p)' = Owned(p)
    BY <1>1, <1>5 DEF Owned
  <2>2. \A p \in Procs : StackOf(p)' \cap space'[p] = {}
    <3>1. /\ space[c] \cap free_list = {}
          /\ \A p \in Procs : StackOf(p) \cap space[p] = {}
      BY <1>2 DEF MemInv, ProcSplit, Owned
    <3> QED BY <3>1, <1>1, <1>3, <1>5
  <2> QED BY <2>1, <2>2, <1>1, <1>2, <1>3, Gives
<1>9. QueueOnce'
  BY <1>8 DEF QueueOnce, QueueExact
<1>10. OpSound'
  BY <1>1, <1>8 DEF OpSound
<1> QED BY <1>6, <1>7, <1>8, <1>9, <1>10 DEF MemInv

\* alloc_page gives an address space one more page.
LEMMA GrowPageKeeps ==
    ASSUME MemInv, GrowPage
    PROVE  MemInv'
<1> USE PagesNat, MemoryConstants
<1>0. PICK c \in Procs : c = op.proc
  BY PathIs DEF GrowPage
<1>1. PICK f \in Pages : /\ AllocPages(f, 1)
                         /\ space' = [space EXCEPT ![c] = @ \cup {f}]
                         /\ op' = [op EXCEPT !.todo = @ - 1]
                         /\ UNCHANGED <<aside, swapVars, kstack>>
                         /\ op.at = "grow" /\ op.todo > 0
  BY <1>0 DEF GrowPage
<1>2. ~Checking /\ c \in Procs /\ op.todo \in Nat /\ pte' = pte /\ kstack' = kstack
  BY <1>0, <1>1, PathIs DEF swapVars
<1>3. /\ f \in free_list
      /\ free_list' = free_list \ {f} /\ free_list' \subseteq Pages
      /\ property' \in [Pages -> Nat] /\ nr_free' \in Nat
      /\ nr_free' = Cardinality(free_list')
      /\ BlocksExact(free_list)' /\ BlocksExact(aside.list)'
      /\ \A p \in Procs : \A i \in StackOf(p) \ {kstack[p]} : property'[i] = 0
  BY <1>1, AllocLists, OnePage
<1>4. /\ space' \in [Procs -> SUBSET Pages] /\ space'[c] = space[c] \cup {f}
      /\ \A p \in Procs \ {c} : space'[p] = space[p]
  BY <1>1, <1>2 DEF MemInv, TypeOK
<1>5. \A p \in Procs : StackOf(p)' = StackOf(p)
  BY <1>2 DEF StackOf
<1>6. op' \in Ops /\ op'.at = "grow"
  <2>1. op \in [at : {"grow"}, proc : Procs, todo : Nat]
    BY <1>1 DEF MemInv, TypeOK, Ops, Idle
  <2>2. op.todo - 1 \in Nat
    BY <1>1, <1>2
  <2>3. op' \in [at : {"grow"}, proc : Procs, todo : Nat]
    BY <2>1, <2>2, <1>1
  <2> QED BY <2>3 DEF Ops
<1>7. TypeOK'
  BY <1>1, <1>3, <1>4, <1>6 DEF MemInv, TypeOK, swapVars
<1>8. ListsExact'
  BY <1>2, <1>3, <1>5 DEF ListsExact
<1>9. CheckSplit' /\ ProcSplit' /\ ~Checking'
  <2>1. /\ Owned(c)' = Owned(c) \cup {f}
        /\ \A p \in Procs \ {c} : Owned(p)' = Owned(p)
    BY <1>4, <1>5, <1>2 DEF Owned
  <2>2. \A p \in Procs : StackOf(p)' \cap space'[p] = {}
    <3>1. /\ StackOf(c) \cap free_list = {}
          /\ \A p \in Procs : StackOf(p) \cap space[p] = {}
      BY <1>2 DEF MemInv, ProcSplit, Owned
    <3> QED BY <3>1, <1>2, <1>3, <1>4, <1>5
  <2>3. aside' = aside /\ {f} \in SUBSET free_list
    BY <1>1, <1>3
  <2> QED BY <2>1, <2>2, <2>3, <1>2, <1>3, Gives
<1>10. QueueOnce'
  BY <1>9 DEF QueueOnce, QueueExact
<1>11. OpSound'
  BY <1>6, <1>9 DEF OpSound
<1> QED BY <1>7, <1>8, <1>9, <1>10, <1>11 DEF MemInv

\* What a process holds can be freed.
LEMMA OwnedFreeable ==
    ASSUME MemInv, ~Checking, NEW p \in Procs
    PROVE  Owned(p) \subseteq Pages \ (free_list \cup aside.list)
<1>1. aside.list = {}
  BY AsideCases DEF MemInv, CheckOver
<1> QED BY <1>1, PagesNat, MemoryConstants DEF MemInv, ProcSplit, Rest, Pages

\* exit_mmap gives one page back.
LEMMA ExitPageKeeps ==
    ASSUME MemInv, ExitPage
    PROVE  MemInv'
<1> USE PagesNat, MemoryConstants
<1>0. PICK c \in Procs : c = op.proc
  BY PathIs DEF ExitPage
<1>1. PICK f \in space[c] : /\ FreePages(f, 1)
                            /\ space' = [space EXCEPT ![c] = @ \ {f}]
                            /\ UNCHANGED <<aside, swapVars, kstack, op>>
                            /\ op.at = "unmap"
  BY <1>0 DEF ExitPage, ToFree
<1>2. ~Checking /\ c \in Procs /\ pte' = pte /\ kstack' = kstack
  BY <1>0, <1>1, PathIs DEF swapVars
<1>3. f \in Pages /\ Block(f, 1) = {f} /\ {f} \subseteq Owned(c)
  BY <1>2, OnePage DEF MemInv, TypeOK, Owned
<1>4. /\ free_list' = free_list \cup {f} /\ free_list' \subseteq Pages
      /\ property' \in [Pages -> Nat] /\ nr_free' \in Nat
      /\ nr_free' = Cardinality(free_list')
      /\ BlocksExact(free_list)' /\ BlocksExact(aside.list)'
      /\ \A p \in Procs : \A i \in StackOf(p) \ {kstack[p], f} : property'[i] = 0
  <2>1. Block(f, 1) \subseteq Pages \ (free_list \cup aside.list)
    BY <1>2, <1>3, OwnedFreeable
  <2>2. \A i \in Block(f, 1) \ {f} : property[i] = 0
    BY <1>3
  <2> QED BY <2>1, <2>2, <1>1, <1>3, FreeLists
<1>5. /\ space' \in [Procs -> SUBSET Pages] /\ space'[c] = space[c] \ {f}
      /\ \A p \in Procs \ {c} : space'[p] = space[p]
  BY <1>1, <1>2 DEF MemInv, TypeOK
<1>6. \A p \in Procs : StackOf(p)' = StackOf(p)
  BY <1>2 DEF StackOf
<1>7. /\ \A p \in Procs : f \notin StackOf(p)
      /\ \A p \in Procs : StackOf(p) \cap space[p] = {}
  BY <1>2 DEF MemInv, ProcSplit, Owned
<1>8. TypeOK'
  BY <1>1, <1>4, <1>5 DEF MemInv, TypeOK, swapVars
<1>9. ListsExact'
  BY <1>2, <1>4, <1>6, <1>7 DEF ListsExact
<1>10. CheckSplit' /\ ProcSplit' /\ ~Checking'
  <2>1. /\ Owned(c)' = Owned(c) \ {f}
        /\ \A p \in Procs \ {c} : Owned(p)' = Owned(p)
    BY <1>2, <1>5, <1>6, <1>7 DEF Owned
  <2>2. \A p \in Procs : StackOf(p)' \cap space'[p] = {}
    BY <1>2, <1>5, <1>6, <1>7
  <2> QED BY <2>1, <2>2, <1>1, <1>2, <1>3, <1>4, Takes
<1>11. QueueOnce'
  BY <1>10 DEF QueueOnce, QueueExact
<1>12. OpSound'
  BY <1>1, <1>10 DEF OpSound
<1> QED BY <1>8, <1>9, <1>10, <1>11, <1>12 DEF MemInv

LEMMA ExitDoneKeeps ==
    ASSUME MemInv, ExitDone
    PROVE  MemInv'
<1>1. op.proc \in Procs
  BY PathIs DEF ExitDone
<1>2. space' = space
  BY <1>1 DEF ExitDone, ToFree, MemInv, TypeOK
<1>3. op' = Idle /\ op' \in Ops /\ OpSound'
  BY DEF ExitDone, Ops, OpSound, Idle
<1> QED BY <1>2, <1>3, OpKeeps DEF ExitDone, procVars

\* do_wait frees the stack of a zombie.
LEMMA ReapKeeps ==
    ASSUME MemInv, NEW c \in Procs, Reap(c)
    PROVE  MemInv'
<1> USE PagesNat, MemoryConstants
<1> DEFINE f == kstack[c]
           B == StackOf(c)
<1>1. /\ ~Checking /\ f # NoPage /\ FreePages(f, KSTACKPAGE)
      /\ kstack' = [kstack EXCEPT ![c] = NoPage]
      /\ UNCHANGED <<aside, swapVars, space, op>> /\ op = Idle
      /\ pte' = pte
  BY DEF Reap, NewProc, swapVars
<1>2. f \in Pages /\ B = Block(f, KSTACKPAGE) /\ B \subseteq Owned(c) /\ f \in B
  BY <1>1 DEF MemInv, TypeOK, StackOf, Owned, Block, Pages
<1>3. /\ free_list' = free_list \cup B /\ free_list' \subseteq Pages
      /\ property' \in [Pages -> Nat] /\ nr_free' \in Nat
      /\ nr_free' = Cardinality(free_list')
      /\ BlocksExact(free_list)' /\ BlocksExact(aside.list)'
      /\ \A p \in Procs : \A i \in StackOf(p) \ {kstack[p], f} : property'[i] = 0
  <2>1. Block(f, KSTACKPAGE) \subseteq Pages \ (free_list \cup aside.list)
    BY <1>1, <1>2, OwnedFreeable
  <2>2. \A i \in Block(f, KSTACKPAGE) \ {f} : property[i] = 0
    BY <1>2 DEF MemInv, ListsExact
  <2>3. aside' = aside
    BY <1>1
  <2> QED BY <2>1, <2>2, <2>3, <1>1, <1>2, FreeLists
<1>4. /\ kstack' \in [Procs -> Pages \cup {NoPage}] /\ kstack'[c] = NoPage
      /\ \A p \in Procs \ {c} : kstack'[p] = kstack[p]
  BY <1>1 DEF MemInv, TypeOK
<1>5. StackOf(c)' = {} /\ \A p \in Procs \ {c} : StackOf(p)' = StackOf(p)
  BY <1>4 DEF StackOf
<1>6. /\ \A p \in Procs \ {c} : f \notin StackOf(p)
      /\ \A p \in Procs : StackOf(p) \cap space[p] = {}
  BY <1>1, <1>2 DEF MemInv, ProcSplit, Owned
<1>7. TypeOK'
  BY <1>1, <1>3, <1>4 DEF MemInv, TypeOK, swapVars
<1>8. ListsExact'
  BY <1>3, <1>4, <1>5, <1>6 DEF ListsExact
<1>9. CheckSplit' /\ ProcSplit' /\ ~Checking'
  <2>1. /\ Owned(c)' = Owned(c) \ B
        /\ \A p \in Procs \ {c} : Owned(p)' = Owned(p)
    BY <1>1, <1>5, <1>6 DEF Owned
  <2>2. \A p \in Procs : StackOf(p)' \cap space'[p] = {}
    BY <1>1, <1>5, <1>6
  <2>3. aside' = aside
    BY <1>1
  <2> QED BY <2>1, <2>2, <2>3, <1>1, <1>2, <1>3, Takes
<1>10. QueueOnce'
  BY <1>9 DEF QueueOnce, QueueExact
<1>11. OpSound'
  BY <1>1 DEF OpSound, Idle
<1> QED BY <1>7, <1>8, <1>9, <1>10, <1>11 DEF MemInv

LEMMA StutterKeeps ==
    ASSUME MemInv, UNCHANGED vars
    PROVE  MemInv'
<1>1. op' = op /\ aside' = aside /\ pte' = pte /\ kstack' = kstack
  BY DEF vars, swapVars, procVars
<1>2. op' \in Ops
  BY <1>1 DEF MemInv, TypeOK
<1>3. OpSound'
  BY <1>1 DEF MemInv, OpSound, Checking
<1>4. UNCHANGED <<pmmVars, aside, swapVars, procVars>>
  BY DEF vars
<1> QED BY <1>2, <1>3, <1>4, OpKeeps

LEMMA NextMem == MemInv /\ [Next]_vars => MemInv'
<1> SUFFICES ASSUME MemInv, [Next]_vars PROVE MemInv'
  OBVIOUS
<1>1. CASE \E v \in VPages : Fault(v) \/ \E x \in Values : Write(v, x)
  BY <1>1, FaultKeeps, WriteKeeps
<1>2. CASE SwapOut \/ FaultMap \/ CheckEnd
  BY <1>2, SwapOutKeeps, FaultMapKeeps, CheckEndKeeps
<1>3. CASE \E p \in Procs : Fork(p) \/ Grow(p) \/ Exit(p) \/ Reap(p)
  BY <1>3, ForkKeeps, BeginKeeps, ReapKeeps
<1>4. CASE ForkStack \/ ForkNoStack \/ GrowPage \/ GrowDone \/ Panic
  BY <1>4, ForkStackKeeps, EndKeeps, GrowPageKeeps, PanicKeeps
<1>5. CASE ExitPage \/ ExitDone
  BY <1>5, ExitPageKeeps, ExitDoneKeeps
<1>6. CASE UNCHANGED vars
  BY <1>6, StutterKeeps
<1> QED BY <1>1, <1>2, <1>3, <1>4, <1>5, <1>6 DEF Next

-----------------------------------------------------------------------------
\* The invariant of the memory system: types, both free lists exact, memory
\* split between the lists and the holders of pages, the queue exact.
THEOREM MemoryInvariant == Spec => []MemInv
BY InitMem, NextMem, PTL DEF Spec

\* default_alloc_pages fails only if there are not as many free pages in a row,
\* and gives out free pages only, after any history of calls.
THEOREM AllocationExact == Spec => []FitExact
<1>1. MemInv => FitExact
  BY ExactIsFit DEF MemInv, TypeOK, ListsExact, Free
<1> QED BY <1>1, MemoryInvariant, PTL

\* No page is lost or given out twice, whatever path fails half-way.
THEOREM PagesAlwaysAccounted == Spec => []PagesAccounted
<1>1. MemInv => PagesAccounted
  <2> USE PagesNat, MemoryConstants
  <2> SUFFICES ASSUME MemInv PROVE PagesAccounted
    OBVIOUS
  <2>1. nr_free = Cardinality(free_list)
    BY DEF MemInv, ListsExact
  <2>2. Holders = {<<"free", 0>>, <<"aside", 0>>, <<"check", 0>>, <<"mapped", 0>>}
                  \cup ({"stack", "space"} \X Procs)
    BY DEF Holders
  <2>3. /\ HeldBy(<<"free", 0>>) = free_list /\ HeldBy(<<"aside", 0>>) = aside.list
        /\ HeldBy(<<"check", 0>>) = CheckLost /\ HeldBy(<<"mapped", 0>>) = Resident
        /\ \A p \in Procs : /\ HeldBy(<<"stack", p>>) = StackOf(p)
                            /\ HeldBy(<<"space", p>>) = space[p]
    BY DEF HeldBy
  <2>4. \A h \in Holders : \/ h \in {<<"free", 0>>, <<"aside", 0>>, <<"check", 0>>,
                                     <<"mapped", 0>>}
                           \/ \E p \in Procs : h = <<"stack", p>> \/ h = <<"space", p>>
    BY <2>2
  <2>5. Pages = {TablePage} \cup CheckPages \cup Rest
    BY DEF Pages, TablePage, CheckPages, Rest
  <2>6. TablePage \notin CheckPages /\ TablePage \notin Rest /\ CheckPages \cap Rest = {}
    BY DEF TablePage, CheckPages, Rest
  <2>7. CASE Checking
    <3>1. /\ aside.list = Rest /\ CheckLost = {TablePage}
          /\ free_list \cup Resident = CheckPages /\ free_list \cap Resident = {}
          /\ \A p \in Procs : StackOf(p) = {} /\ space[p] = {}
      BY <2>7, AsideCases DEF MemInv, CheckSplit, CheckLost, StackOf
    <3>2. \A p \in Procs : HeldBy(<<"stack", p>>) = {} /\ HeldBy(<<"space", p>>) = {}
      BY <3>1, <2>3
    <3>3. \A x \in Pages : \E h \in Holders : x \in HeldBy(h)
      <4>1. {<<"free", 0>>, <<"aside", 0>>, <<"check", 0>>, <<"mapped", 0>>} \subseteq Holders
        BY <2>2
      <4> QED BY <4>1, <3>1, <2>3, <2>5
    <3>4. \A h \in Holders : HeldBy(h) \subseteq Pages
      BY <3>1, <3>2, <2>3, <2>4, <2>5
    <3>5. \A h, k \in Holders : h # k => HeldBy(h) \cap HeldBy(k) = {}
      <4> SUFFICES ASSUME NEW h \in Holders, NEW k \in Holders, NEW x,
                          x \in HeldBy(h), x \in HeldBy(k)
                   PROVE  h = k
        OBVIOUS
      <4> DEFINE Four == {<<"free", 0>>, <<"aside", 0>>, <<"check", 0>>, <<"mapped", 0>>}
      <4>1. h \in Four /\ k \in Four
        BY <3>2, <2>4
      <4> QED BY <4>1, <3>1, <2>3, <2>6
    <3> QED BY <3>3, <3>4, <3>5, <2>1 DEF PagesAccounted
  <2>8. CASE ~Checking
    <3>1. /\ aside.list = {} /\ Resident = {} /\ CheckLost = {TablePage} \cup CheckPages
          /\ free_list \cup UNION {Owned(p) : p \in Procs} = Rest
          /\ \A p \in Procs :
                /\ Owned(p) \cap free_list = {}
                /\ StackOf(p) \cap space[p] = {}
                /\ \A q \in Procs \ {p} : Owned(p) \cap Owned(q) = {}
      BY <2>8, AsideCases DEF MemInv, ProcSplit, CheckLost, CheckOver
    <3>2. \A p \in Procs : /\ HeldBy(<<"stack", p>>) \subseteq Owned(p)
                           /\ HeldBy(<<"space", p>>) \subseteq Owned(p)
                           /\ Owned(p) \subseteq Rest
                           /\ Owned(p) = HeldBy(<<"stack", p>>) \cup HeldBy(<<"space", p>>)
      <4> SUFFICES ASSUME NEW p \in Procs
                   PROVE  Owned(p) \subseteq Rest /\ Owned(p) = StackOf(p) \cup space[p]
        BY <2>3
      <4>1. Owned(p) \subseteq UNION {Owned(q) : q \in Procs}
        OBVIOUS
      <4> QED BY <4>1, <3>1 DEF Owned
    <3>3. \A x \in Pages : \E h \in Holders : x \in HeldBy(h)
      <4>1. /\ <<"free", 0>> \in Holders /\ <<"check", 0>> \in Holders
            /\ \A p \in Procs : <<"stack", p>> \in Holders /\ <<"space", p>> \in Holders
        BY <2>2
      <4>2. ASSUME NEW x \in Pages, x \notin free_list, x \notin CheckLost
            PROVE  \E p \in Procs : x \in Owned(p)
        BY <4>2, <3>1, <2>5
      <4> QED BY <4>1, <4>2, <3>2, <2>3
    <3>4. \A h \in Holders : HeldBy(h) \subseteq Pages
      <4> SUFFICES ASSUME NEW h \in Holders PROVE HeldBy(h) \subseteq Pages
        OBVIOUS
      <4>1. CASE \E p \in Procs : h = <<"stack", p>> \/ h = <<"space", p>>
        BY <4>1, <3>2, <2>5
      <4>2. CASE h \in {<<"free", 0>>, <<"aside", 0>>, <<"check", 0>>, <<"mapped", 0>>}
        BY <4>2, <3>1, <2>3, <2>5
      <4> QED BY <4>1, <4>2, <2>4
    <3>5. \A h, k \in Holders : h # k => HeldBy(h) \cap HeldBy(k) = {}
      <4> DEFINE OfProc(h) == \E p \in Procs : h = <<"stack", p>> \/ h = <<"space", p>>
      <4> SUFFICES ASSUME NEW h \in Holders, NEW k \in Holders, NEW x,
                          x \in HeldBy(h), x \in HeldBy(k)
                   PROVE  h = k
        OBVIOUS
      <4>1. \A g \in Holders : ~OfProc(g) /\ x \in HeldBy(g) =>
               \/ g = <<"free", 0>> /\ x \in free_list
               \/ g = <<"check", 0>> /\ x \in CheckLost
        BY <3>1, <2>3, <2>4
      <4>2. x \in free_list => x \notin CheckLost
        BY <3>1, <2>6
      <4>3. ASSUME NEW g \in Holders, OfProc(g), x \in HeldBy(g)
            PROVE  x \notin free_list /\ x \notin CheckLost
        <5>1. PICK p \in Procs : x \in Owned(p)
          BY <4>3, <3>2
        <5> QED BY <5>1, <3>1, <3>2, <2>6
      <4>4. CASE OfProc(h) /\ OfProc(k)
        <5>1. PICK p \in Procs : h = <<"stack", p>> \/ h = <<"space", p>>
          BY <4>4
        <5>2. PICK q \in Procs : k = <<"stack", q>> \/ k = <<"space", q>>
          BY <4>4
        <5>3. x \in Owned(p) /\ x \in Owned(q)
          BY <5>1, <5>2, <3>2
        <5>4. p = q
          BY <5>3, <3>1
        <5> QED BY <5>1, <5>2, <5>4, <3>1, <2>3
      <4> HIDE DEF OfProc
      <4>5. CASE ~OfProc(h) /\ ~OfProc(k)
        BY <4>1, <4>2, <4>5
      <4>6. CASE OfProc(h) /\ ~OfProc(k)
        BY <4>1, <4>3, <4>6
      <4>7. CASE ~OfProc(h) /\ OfProc(k)
        BY <4>1, <4>3, <4>7
      <4> QED BY <4>4, <4>5, <4>6, <4>7
    <3> QED BY <3>3, <3>4, <3>5, <2>1 DEF PagesAccounted
  <2> QED BY <2>7, <2>8
<1> QED BY <1>1, MemoryInvariant, PTL

\* swap_out finds a victim and the page table entry that maps it.
THEOREM QueueAlwaysExact == Spec => []QueueExact
<1>1. MemInv => QueueExact
  BY DEF MemInv, QueueOnce
<1> QED BY <1>1, MemoryInvariant, PTL
-----------------------------------------------------------------------------
\* What each virtual page holds, and whose fault is served.
MemOf == [v \in VPages |->
             IF pte[v] \in Pages THEN content[pte[v]]
             ELSE IF pte[v] = Swapped THEN swap[SlotOf(v)] ELSE NPAGES]
FaultOf == IF op.at = "fault" THEN op.v ELSE NPAGES

LEMMA WriteRefines ==
    ASSUME MemInv, NEW u \in VPages, NEW x \in Values, Write(u, x)
    PROVE  Mem!Write(u)
<1>1. /\ Checking /\ op = Idle /\ op' = op /\ pte' = pte /\ swap' = swap
      /\ pte[u] \in Pages /\ content' = [content EXCEPT ![pte[u]] = x]
  BY DEF Write
<1>2. content[pte[u]] \in Values /\ content \in [Pages -> Values]
  BY <1>1 DEF MemInv, TypeOK
<1>3. FaultOf = NPAGES /\ FaultOf' = NPAGES
  BY <1>1 DEF FaultOf, Idle
<1>4. MemOf[u] # NPAGES
  BY <1>1, <1>2, MemoryConstants DEF MemOf
<1>5. \A w \in VPages : pte[w] = pte[u] => w = u
  BY <1>1 DEF MemInv, QueueOnce, QueueExact
<1>6. MemOf' = [MemOf EXCEPT ![u] = x]
  BY <1>1, <1>2, <1>5 DEF MemOf
<1> QED BY <1>3, <1>4, <1>6 DEF Mem!Write, MemOf, FaultOf

LEMMA FaultRefines ==
    ASSUME MemInv, NEW u \in VPages, Fault(u)
    PROVE  Mem!Fault(u)
<1>1. op = Idle /\ op' = [at |-> "fault", v |-> u] /\ UNCHANGED <<pte, content, swap>>
  BY DEF Fault, swapVars
<1>2. FaultOf = NPAGES /\ FaultOf' = u
  BY <1>1 DEF FaultOf, Idle
<1>3. MemOf' = MemOf
  BY <1>1 DEF MemOf
<1> QED BY <1>2, <1>3 DEF Mem!Fault, MemOf, FaultOf

\* The page that goes to the disk keeps its contents there.
LEMMA SwapOutRefines ==
    ASSUME MemInv, SwapOut
    PROVE  MemOf' = MemOf /\ FaultOf' = FaultOf
<1> DEFINE f == Head(pra_list)
           v == pra_vaddr[f]
<1>1. /\ op' = op /\ content' = content
      /\ swap' = [swap EXCEPT ![v] = content[f]]
      /\ pte' = [pte EXCEPT ![v] = Swapped]
  BY DEF SwapOut, SlotOf
<1>2. v \in VPages /\ f \in Pages /\ pte[v] = f
  BY VictimExists DEF SwapOut, Resident
<1>3. pte \in [VPages -> Pages \cup {Unmapped, Swapped}] /\ swap \in [VPages -> Values]
  BY DEF MemInv, TypeOK
<1> HIDE DEF f, v
<1>4. MemOf' = MemOf
  <2>1. ASSUME NEW w \in VPages PROVE MemOf'[w] = MemOf[w]
    BY <1>1, <1>2, <1>3, NotPages DEF MemOf, SlotOf
  <2>2. MemOf = [w \in VPages |-> MemOf[w]] /\ MemOf' = [w \in VPages |-> MemOf'[w]]
    BY DEF MemOf
  <2> QED BY <2>1, <2>2
<1> QED BY <1>1, <1>4 DEF FaultOf

\* The page that is mapped holds what its slot on the disk held.
LEMMA FaultMapRefines ==
    ASSUME MemInv, FaultMap
    PROVE  \E u \in VPages : Mem!Served(u)
<1> DEFINE u == op.v
<1>1. PICK f \in Pages :
         /\ AllocPages(f, 1)
         /\ content' = IF pte[u] = Swapped
                       THEN [content EXCEPT ![f] = swap[SlotOf(u)]] ELSE content
         /\ pte' = [pte EXCEPT ![u] = f]
         /\ op.at = "fault" /\ op' = Idle /\ swap' = swap /\ aside' = aside
  BY DEF FaultMap
<1>2. PICK w \in VPages : w = op.v
  BY <1>1, FaultIs
<1> HIDE DEF u
<1>3. /\ pte[w] \notin Pages /\ free_list \cap Resident = {}
      /\ content' = IF pte[w] = Swapped
                    THEN [content EXCEPT ![f] = swap[w]] ELSE content
      /\ pte' = [pte EXCEPT ![w] = f]
  BY <1>1, <1>2, FaultIs DEF SlotOf, u
<1>4. f \in free_list
  BY <1>1, AllocLists, OnePage
<1>5. /\ pte \in [VPages -> Pages \cup {Unmapped, Swapped}]
      /\ content \in [Pages -> Values] /\ swap \in [VPages -> Values]
  BY DEF MemInv, TypeOK
<1>6. FaultOf = w /\ FaultOf' = NPAGES
  BY <1>1, <1>2 DEF FaultOf, Idle
<1>7. \A q \in VPages \ {w} : MemOf'[q] = MemOf[q]
  <2> SUFFICES ASSUME NEW q \in VPages \ {w} PROVE MemOf'[q] = MemOf[q]
    OBVIOUS
  <2>1. pte'[q] = pte[q]
    BY <1>3, <1>5
  <2>2. pte[q] \in Pages => pte[q] # f
    BY <1>3, <1>4 DEF Resident
  <2>3. pte[q] \in Pages => content'[pte[q]] = content[pte[q]]
    BY <2>2, <1>3, <1>5
  <2> QED BY <2>1, <2>3, <1>1 DEF MemOf
<1>8. MemOf'[w] = content'[f]
  BY <1>3, <1>5 DEF MemOf
<1>9. MemOf = [q \in VPages |-> MemOf[q]] /\ MemOf' = [q \in VPages |-> MemOf'[q]]
  BY DEF MemOf
<1>10. CASE pte[w] = Swapped
  <2>1. MemOf[w] = swap[w] /\ content'[f] = swap[w] /\ swap[w] \in Values
    BY <1>3, <1>5, <1>10 DEF MemOf, SlotOf
  <2>2. MemOf' = MemOf /\ MemOf[w] # NPAGES
    BY <2>1, <1>7, <1>8, <1>9, MemoryConstants
  <2> QED BY <2>1, <2>2, <1>6 DEF Mem!Served, MemOf, FaultOf
<1>11. CASE pte[w] # Swapped
  <2>1. MemOf[w] = NPAGES /\ content'[f] \in Values
    BY <1>3, <1>5, <1>11 DEF MemOf
  <2>2. MemOf' = [MemOf EXCEPT ![w] = content'[f]]
    BY <1>7, <1>8, <1>9
  <2> QED BY <2>1, <2>2, <1>6 DEF Mem!Served, MemOf, FaultOf
<1> QED BY <1>10, <1>11

LEMMA CheckEndRefines ==
    ASSUME MemInv, CheckEnd
    PROVE  Mem!UnmapAll
<1>1. op = Idle /\ op' = op /\ pte' = [v \in VPages |-> Unmapped]
  BY DEF CheckEnd
<1>2. FaultOf = NPAGES /\ FaultOf' = NPAGES
  BY <1>1 DEF FaultOf, Idle
<1>3. MemOf' = [v \in VPages |-> NPAGES]
  <2>1. Unmapped # Swapped
    BY PagesNat DEF Unmapped, Swapped
  <2> QED BY <2>1, <1>1, NotPages DEF MemOf
<1> QED BY <1>2, <1>3 DEF Mem!UnmapAll, MemOf, FaultOf

\* The paths of processes do not touch the pages of check_swap.
LEMMA OthersRefine ==
    ASSUME UNCHANGED <<pte, content, swap>>, op.at # "fault", op'.at # "fault"
    PROVE  MemOf' = MemOf /\ FaultOf' = FaultOf
BY DEF MemOf, FaultOf

LEMMA PathsRefine ==
    ASSUME MemInv,
           \/ \E p \in Procs : Fork(p) \/ Grow(p) \/ Exit(p) \/ Reap(p)
           \/ ForkStack \/ ForkNoStack \/ GrowPage \/ GrowDone \/ Panic
           \/ ExitPage \/ ExitDone
    PROVE  MemOf' = MemOf /\ FaultOf' = FaultOf
<1>1. UNCHANGED <<pte, content, swap>>
  BY DEF Fork, Grow, Exit, Reap, ForkStack, ForkNoStack, GrowPage, GrowDone,
         Panic, ExitPage, ExitDone, swapVars
<1>2. op.at # "fault"
  BY DEF Fork, Grow, Exit, Reap, ForkStack, ForkNoStack, GrowPage, GrowDone,
         Panic, ExitPage, ExitDone, Idle
<1>3. op'.at # "fault"
  <2>1. CASE GrowPage
    <3>1. op \in [at : {"grow"}, proc : Procs, todo : Nat]
      BY <2>1 DEF GrowPage, MemInv, TypeOK, Ops, Idle
    <3>2. op' = [op EXCEPT !.todo = @ - 1]
      BY <2>1 DEF GrowPage
    <3> QED BY <3>1, <3>2
  <2>2. CASE ~GrowPage
    BY <2>2 DEF Fork, Grow, Exit, Reap, ForkStack, ForkNoStack, GrowDone,
                Panic, ExitPage, ExitDone, Idle
  <2> QED BY <2>1, <2>2
<1> QED BY <1>1, <1>2, <1>3, OthersRefine

\* Swapping implements memory that keeps what was written to it.
THEOREM MemoryRefines == Spec => RefinesMemory
<1>1. Init => Mem!AbsInit
  <2> SUFFICES ASSUME Init PROVE Mem!AbsInit
    OBVIOUS
  <2>1. Unmapped # Swapped
    BY PagesNat DEF Unmapped, Swapped
  <2>2. MemOf = [v \in VPages |-> NPAGES]
    BY <2>1, NotPages DEF Init, MemOf
  <2>3. FaultOf = NPAGES
    BY DEF Init, Idle, FaultOf
  <2> QED BY <2>2, <2>3 DEF Mem!AbsInit, MemOf, FaultOf
<1>2. MemInv /\ [Next]_vars => [Mem!AbsNext]_(Mem!absVars)
  <2> SUFFICES ASSUME MemInv, [Next]_vars PROVE [Mem!AbsNext]_(Mem!absVars)
    OBVIOUS
  <2>1. MemOf' = MemOf /\ FaultOf' = FaultOf => UNCHANGED Mem!absVars
    BY DEF Mem!absVars, MemOf, FaultOf
  <2>2. CASE \E v \in VPages : Fault(v) \/ \E x \in Values : Write(v, x)
    <3>1. \E v \in VPages : Mem!Write(v) \/ Mem!Fault(v)
      BY <2>2, WriteRefines, FaultRefines
    <3> QED BY <3>1 DEF Mem!AbsNext
  <2>3. CASE SwapOut
    BY <2>1, <2>3, SwapOutRefines
  <2>4. CASE FaultMap
    <3>1. \E v \in VPages : Mem!Served(v)
      BY <2>4, FaultMapRefines
    <3> QED BY <3>1 DEF Mem!AbsNext
  <2>5. CASE CheckEnd
    <3>1. Mem!UnmapAll
      BY <2>5, CheckEndRefines
    <3> QED BY <3>1 DEF Mem!AbsNext
  <2>6. CASE \/ \E p \in Procs : Fork(p) \/ Grow(p) \/ Exit(p) \/ Reap(p)
             \/ ForkStack \/ ForkNoStack \/ GrowPage \/ GrowDone \/ Panic
             \/ ExitPage \/ ExitDone
    BY <2>1, <2>6, PathsRefine
  <2>7. CASE UNCHANGED vars
    <3>1. MemOf' = MemOf /\ FaultOf' = FaultOf
      BY <2>7 DEF vars, swapVars, MemOf, FaultOf
    <3> QED BY <3>1, <2>1
  <2> QED BY <2>2, <2>3, <2>4, <2>5, <2>6, <2>7 DEF Next
<1> QED BY <1>1, <1>2, MemoryInvariant, PTL DEF Spec, RefinesMemory, Mem!AbsSpec
=============================================================================
