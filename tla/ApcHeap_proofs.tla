---------------------------- MODULE ApcHeap_proofs ----------------------------
(***************************************************************************)
(* What allocation, release and defragmentation do to a heap, for segments *)
(* of any size: blocks never overlap, and a block that is pinned stays.    *)
(***************************************************************************)
EXTENDS ApcHeap, ApcInduction

IsHeap(h) ==
  /\ DOMAIN h \subseteq 1..Cells
  /\ \A a \in DOMAIN h : h[a].len \in Nat \ {0}

\* The cell after the block at a.
End(h, a) == a + h[a].len

LEMMA ExtentCells ==
  ASSUME NEW h, IsHeap(h), NEW a \in DOMAIN h, NEW c
  PROVE  c \in Extent(h, a) <=> c \in Nat /\ a <= c /\ c < End(h, a)
<1>1. a \in Nat /\ h[a].len \in Nat
  BY CellsAssumption DEF IsHeap
<1> QED
  BY <1>1 DEF Extent, End

\* Blocks that do not overlap lie one after the other.
LEMMA Ordered ==
  ASSUME NEW h, IsHeap(h)
  PROVE  Disjoint(h) <=> \A a, b \in DOMAIN h : a < b => End(h, a) <= b
<1>1. \A a \in DOMAIN h : a \in Nat /\ h[a].len \in Nat \ {0}
  BY CellsAssumption DEF IsHeap
<1>2. ASSUME Disjoint(h), NEW a \in DOMAIN h, NEW b \in DOMAIN h, a < b
      PROVE  End(h, a) <= b
  <2>1. b \in Extent(h, b) /\ a # b
    BY <1>1, <1>2, ExtentCells DEF End
  <2>2. b \notin Extent(h, a)
    BY <1>2, <2>1 DEF Disjoint
  <2> QED
    BY <1>1, <1>2, <2>2, ExtentCells DEF End
<1>3. ASSUME \A a, b \in DOMAIN h : a < b => End(h, a) <= b,
             NEW a \in DOMAIN h, NEW b \in DOMAIN h, a # b,
             NEW c \in Extent(h, a) \cap Extent(h, b)
      PROVE  FALSE
  <2>1. c \in Nat /\ a <= c /\ c < End(h, a) /\ b <= c /\ c < End(h, b)
    BY ExtentCells
  <2>2. a < b \/ b < a
    BY <1>1, <1>3
  <2> QED
    BY <1>1, <1>3, <2>1, <2>2 DEF End
<1> QED
  BY <1>2, <1>3 DEF Disjoint

LEMMA MinInSet ==
  ASSUME NEW S \in SUBSET Nat, S # {}
  PROVE  Min(S) \in S /\ \A n \in S : Min(S) <= n
BY LeastElement DEF Min

LEMMA MaxInSet ==
  ASSUME NEW n \in Nat, NEW S \in SUBSET (0..n), S # {}
  PROVE  Max(S) \in S /\ \A k \in S : k <= Max(S)
BY GreatestElement DEF Max

-----------------------------------------------------------------------------
(* Allocating and freeing *)

\* A block that fits covers free cells only, inside the segment.
LEMMA FittingIsFree ==
  ASSUME NEW h, IsHeap(h), NEW n \in Nat \ {0}, NEW a \in Fitting(h, n)
  PROVE  /\ a \in 1..Cells /\ a + n <= Cells + 1
         /\ \A c \in a .. (a + n - 1) : c \notin Taken(h)
<1>1. a \in 1..Cells /\ Cells \in Nat /\ GapLen(h, a) >= n
  BY CellsAssumption DEF Fitting, GapStarts
<1> DEFINE ends == {b \in a..Cells : b \in Taken(h)}
<1>2. CASE ends = {}
  BY <1>1, <1>2 DEF GapLen
<1>3. CASE ends # {}
  <2>1. ends \in SUBSET Nat
    BY <1>1
  <2>2. Min(ends) \in ends /\ \A b \in ends : Min(ends) <= b
    BY <1>3, <2>1, MinInSet
  <2>3. n <= Min(ends) - a
    BY <1>1, <1>3 DEF GapLen
  <2> QED
    BY <1>1, <2>2, <2>3
<1> QED
  BY <1>2, <1>3

\* An empty segment has room for everything that is not longer than it.
LEMMA EmptyFits ==
  ASSUME NEW h, DOMAIN h = {}, NEW n \in Nat, n <= Cells
  PROVE  Fitting(h, n) # {}
<1>1. Taken(h) = {}
  BY DEF Taken
<1>2. Cells \in Nat \ {0}
  BY CellsAssumption
<1>3. 1 \in GapStarts(h)
  BY <1>1, <1>2 DEF GapStarts
<1>4. GapLen(h, 1) = Cells
  BY <1>1, <1>2 DEF GapLen
<1> QED
  BY <1>3, <1>4 DEF Fitting

\* Where a block fits, a shorter one does.
LEMMA ShorterFits ==
  ASSUME NEW h, NEW n \in Nat, NEW k \in Nat, n <= k, Fitting(h, k) # {}
  PROVE  Fitting(h, n) # {}
<1>1. PICK a \in Fitting(h, k) : TRUE
  OBVIOUS
<1>2. a \in 1..Cells /\ Cells \in Nat /\ a \in GapStarts(h) /\ GapLen(h, a) >= k
  BY CellsAssumption DEF Fitting, GapStarts
<1> DEFINE ends == {b \in a..Cells : b \in Taken(h)}
<1>3. GapLen(h, a) \in Int
  <2>1. CASE ends = {}
    BY <1>2, <2>1 DEF GapLen
  <2>2. CASE ends # {}
    <3>1. ends \in SUBSET Nat
      BY <1>2
    <3>2. Min(ends) \in ends
      BY <2>2, <3>1, MinInSet
    <3> QED
      BY <1>2, <2>2, <3>2 DEF GapLen
  <2> QED
    BY <2>1, <2>2
<1>4. GapLen(h, a) >= n
  BY <1>2, <1>3
<1>5. a \in Fitting(h, n)
  BY <1>2, <1>4 DEF Fitting
<1> QED
  BY <1>5

\* Only domain and lengths matter to where blocks are.
LEMMA DisjointSubset ==
  ASSUME NEW g, NEW h, Disjoint(h), DOMAIN g \subseteq DOMAIN h,
         \A a \in DOMAIN g : g[a].len = h[a].len
  PROVE  Disjoint(g)
BY DEF Disjoint, Extent

\* g is h without the blocks at A.
Loses(h, g, A) ==
  /\ IsHeap(g) /\ DOMAIN g = DOMAIN h \ A
  /\ \A a \in DOMAIN h \ A : g[a] = h[a]
  /\ Disjoint(h) => Disjoint(g)

\* g is h with a new block r at a.
Gains(h, g, a, r) ==
  /\ a \notin DOMAIN h /\ a \in 1..Cells
  /\ IsHeap(g) /\ DOMAIN g = DOMAIN h \cup {a}
  /\ g[a] = r /\ \A b \in DOMAIN h : g[b] = h[b]
  /\ Disjoint(h) => Disjoint(g)

LEMMA WithoutHeap ==
  ASSUME NEW h, IsHeap(h), NEW A
  PROVE  Loses(h, Without(h, A), A)
<1>1. /\ DOMAIN Without(h, A) = DOMAIN h \ A
      /\ \A a \in DOMAIN h \ A : Without(h, A)[a] = h[a]
  BY DEF Without
<1> QED
  BY <1>1, DisjointSubset DEF IsHeap, Loses

\* A new block gets an address of its own and overlaps no other.
LEMMA WithHeap ==
  ASSUME NEW h, IsHeap(h), NEW r, r.len \in Nat \ {0}, NEW n \in Nat \ {0}, r.len <= n,
         NEW a \in Fitting(h, n)
  PROVE  Gains(h, With(h, a, r), a, r)
<1> DEFINE g == With(h, a, r)
<1>1. a \in 1..Cells /\ \A c \in a .. (a + n - 1) : c \notin Taken(h)
  BY FittingIsFree
<1>2. \A b \in DOMAIN h : b \in Nat /\ h[b].len \in Nat \ {0} /\ b \in Extent(h, b)
  BY CellsAssumption, ExtentCells DEF IsHeap, End
<1>3. a \notin DOMAIN h
  <2>1. a \in a .. (a + n - 1)
    BY <1>1
  <2> QED
    BY <1>1, <1>2, <2>1 DEF Taken
<1>4. DOMAIN g = DOMAIN h \cup {a} /\ g[a] = r /\ \A b \in DOMAIN h : g[b] = h[b]
  BY <1>3 DEF With
<1>5. IsHeap(g)
  BY <1>1, <1>4 DEF IsHeap
<1>6. ASSUME Disjoint(h) PROVE Disjoint(g)
  <2>1. Extent(g, a) \subseteq a .. (a + n - 1)
    BY <1>1, <1>4 DEF Extent
  <2>2. \A b \in DOMAIN h : Extent(g, b) = Extent(h, b) /\ Extent(h, b) \subseteq Taken(h)
    BY <1>4 DEF Extent, Taken
  <2>3. \A b \in DOMAIN h : Extent(g, b) \cap Extent(g, a) = {}
    BY <1>1, <2>1, <2>2
  <2> QED
    BY <1>4, <1>6, <2>2, <2>3 DEF Disjoint
<1> QED
  BY <1>1, <1>3, <1>4, <1>5, <1>6 DEF Gains

-----------------------------------------------------------------------------
(* Defragmentation *)

Before(h, a) == {b \in DOMAIN h : b < a}

\* Where the block at a goes, when g says where those before it go.
Target(h, pinned, used, g, a) ==
  IF a \notin DOMAIN h \/ a \in pinned THEN a
  ELSE IF Before(h, a) = {} THEN 1
  ELSE g[Max(Before(h, a))] + (IF g[Max(Before(h, a))] = Max(Before(h, a))
                               THEN h[Max(Before(h, a))].len
                               ELSE used[Max(Before(h, a))])

LEMMA LastBefore ==
  ASSUME NEW h, IsHeap(h), NEW a \in 0..Cells, Before(h, a) # {}
  PROVE  /\ Max(Before(h, a)) \in DOMAIN h /\ Max(Before(h, a)) < a
         /\ \A b \in DOMAIN h : b < a => b <= Max(Before(h, a))
<1>1. Before(h, a) \in SUBSET (0..Cells) /\ Cells \in Nat
  BY CellsAssumption DEF IsHeap, Before
<1>2. Max(Before(h, a)) \in Before(h, a) /\ \A b \in Before(h, a) : b <= Max(Before(h, a))
  BY <1>1, MaxInSet
<1> QED
  BY <1>2 DEF Before

\* The recursion of Slide goes down, so that there is a function that obeys it.
LEMMA TargetsExist ==
  ASSUME NEW h, IsHeap(h), NEW pinned, NEW used
  PROVE  \E g : g = [a \in 0..Cells |-> Target(h, pinned, used, g, a)]
<1> DEFINE Upto(n) == \E g : g = [a \in 0..n |-> Target(h, pinned, used, g, a)]
           Fails == {n \in 0..Cells : ~Upto(n)}
<1>1. Cells \in Nat
  BY CellsAssumption
<1>2. Upto(0)
  <2> DEFINE g == [a \in 0..0 |-> 0]
  <2>1. \A a \in 0..0 : Target(h, pinned, used, g, a) = 0
    BY DEF Target, IsHeap
  <2>2. g = [a \in 0..0 |-> Target(h, pinned, used, g, a)]
    BY <2>1
  <2> QED
    BY <2>2
<1>3. ASSUME NEW n \in 1..Cells, Upto(n - 1) PROVE Upto(n)
  <2>1. PICK g : g = [a \in 0..(n - 1) |-> Target(h, pinned, used, g, a)]
    BY <1>3
  <2> DEFINE f == [a \in 0..n |-> Target(h, pinned, used, g, a)]
  <2>2. \A a \in 0..(n - 1) : f[a] = g[a]
    BY <1>1, <2>1
  <2>3. ASSUME NEW a \in 0..n
        PROVE  Target(h, pinned, used, f, a) = Target(h, pinned, used, g, a)
    <3>1. CASE Before(h, a) = {}
      BY <3>1 DEF Target
    <3>2. CASE Before(h, a) # {}
      <4>1. Max(Before(h, a)) \in 0..(n - 1)
        BY <1>1, <3>2, LastBefore DEF IsHeap
      <4>2. f[Max(Before(h, a))] = g[Max(Before(h, a))]
        BY <2>2, <4>1
      <4> HIDE DEF f
      <4> QED
        BY <4>2 DEF Target
    <3> QED
      BY <3>1, <3>2
  <2>4. f = [a \in 0..n |-> Target(h, pinned, used, f, a)]
    BY <2>3
  <2> HIDE DEF f
  <2> QED
    BY <2>4
<1>4. Fails = {}
  <2> SUFFICES ASSUME Fails # {} PROVE FALSE
    OBVIOUS
  <2>1. Fails \in SUBSET Nat
    BY <1>1
  <2>2. PICK n \in Fails : \A m \in Fails : n <= m
    BY <2>1, LeastElement
  <2> HIDE DEF Upto
  <2>3. n \in 1..Cells
    BY <1>1, <1>2, <2>2
  <2>4. n - 1 \in 0..Cells /\ ~(n <= n - 1)
    BY <1>1, <2>3
  <2>5. Upto(n - 1)
    BY <2>2, <2>4
  <2> QED
    BY <1>3, <2>2, <2>3, <2>5
<1> QED
  BY <1>1, <1>4

LEMMA SlideTargets ==
  ASSUME NEW h, IsHeap(h), NEW pinned, NEW used
  PROVE  \E g : /\ g = [a \in 0..Cells |-> Target(h, pinned, used, g, a)]
                /\ Slide(h, pinned, used) = [a \in DOMAIN h |-> g[a]]
<1> DEFINE g == CHOOSE g : g = [a \in 0..Cells |-> Target(h, pinned, used, g, a)]
<1>1. g = [a \in 0..Cells |-> Target(h, pinned, used, g, a)]
  BY TargetsExist
<1>2. Slide(h, pinned, used) = [a \in DOMAIN h |-> g[a]]
  BY DEF Slide, Target, Before
<1> QED
  BY <1>1, <1>2

\* What a block is long after the move t: one that moved keeps what it uses.
NewLen(h, used, t, a) == IF t[a] = a THEN h[a].len ELSE used[a]

\* Blocks only move down, pinned ones do not move, and their order stays.
LEMMA SlideFacts ==
  ASSUME NEW h, IsHeap(h), Disjoint(h), NEW pinned, NEW used,
         \A a \in DOMAIN h : used[a] \in 1..h[a].len
  PROVE  /\ DOMAIN Slide(h, pinned, used) = DOMAIN h
         /\ \A a \in DOMAIN h : Slide(h, pinned, used)[a] \in 1..a
         /\ \A a \in DOMAIN h \cap pinned : Slide(h, pinned, used)[a] = a
         /\ \A a, b \in DOMAIN h : b < a =>
              Slide(h, pinned, used)[b] + NewLen(h, used, Slide(h, pinned, used), b)
                <= Slide(h, pinned, used)[a]
<1> DEFINE t == Slide(h, pinned, used)
           Len(a) == NewLen(h, used, t, a)
           Low(a) == t[a] \in 1..a
           Apart(a) == \A b \in DOMAIN h : b < a => t[b] + Len(b) <= t[a]
           last(a) == Max(Before(h, a))
<1>1. Cells \in Nat /\ DOMAIN h \subseteq 1..Cells
  BY CellsAssumption DEF IsHeap
<1>2. PICK g : g = [a \in 0..Cells |-> Target(h, pinned, used, g, a)] /\ t = [a \in DOMAIN h |-> g[a]]
  BY SlideTargets
<1>3. \A a \in DOMAIN h : t[a] = Target(h, pinned, used, g, a) /\ t[a] = g[a]
  BY <1>1, <1>2
<1>4. \A a \in DOMAIN h : a \in Nat \ {0} /\ h[a].len \in Nat \ {0} /\ used[a] \in 1..h[a].len
  BY <1>1 DEF IsHeap
<1>5. ASSUME NEW a \in DOMAIN h, Before(h, a) # {}
      PROVE  /\ last(a) \in DOMAIN h /\ last(a) < a /\ End(h, last(a)) <= a
             /\ \A b \in DOMAIN h : b < a => b <= last(a)
             /\ a \notin pinned => t[a] = t[last(a)] + Len(last(a))
  <2>1. last(a) \in DOMAIN h /\ last(a) < a /\ \A b \in DOMAIN h : b < a => b <= last(a)
    BY <1>1, <1>5, LastBefore
  <2>2. a \notin pinned => t[a] = t[last(a)] + Len(last(a))
    BY <1>3, <1>5, <2>1 DEF Target, NewLen
  <2> QED
    BY <2>1, <2>2, Ordered
<1>6. \A a \in DOMAIN h \cap pinned : t[a] = a
  BY <1>3 DEF Target
<1>7. \A a \in DOMAIN h : Before(h, a) = {} /\ a \notin pinned => t[a] = 1
  BY <1>3 DEF Target
<1>8. \A a \in DOMAIN h : Low(a) => Len(a) \in Nat /\ Len(a) <= h[a].len /\ t[a] + Len(a) <= End(h, a)
  BY <1>4 DEF NewLen, End
<1> HIDE DEF t, Len, last
<1>9. \A a \in DOMAIN h : Low(a)
  <2> DEFINE Fails == {a \in DOMAIN h : ~Low(a)}
  <2> SUFFICES ASSUME Fails # {} PROVE FALSE
    OBVIOUS
  <2>1. PICK a \in Fails : \A b \in Fails : a <= b
    BY <1>4, LeastElement
  <2>2. a \in DOMAIN h /\ a \notin pinned /\ Before(h, a) # {}
    BY <1>4, <1>6, <1>7, <2>1
  <2>3. last(a) \in DOMAIN h /\ Low(last(a))
    BY <1>4, <1>5, <2>1, <2>2
  <2>4. t[a] = t[last(a)] + Len(last(a)) /\ End(h, last(a)) <= a
    BY <1>5, <2>2
  <2>5. t[a] \in Nat /\ t[a] >= 1 /\ t[a] <= a
    BY <1>4, <1>8, <2>2, <2>3, <2>4 DEF End
  <2> QED
    BY <1>4, <2>1, <2>2, <2>5
<1>10. \A a \in DOMAIN h : Before(h, a) # {} => t[last(a)] + Len(last(a)) <= t[a]
  <2> SUFFICES ASSUME NEW a \in DOMAIN h, Before(h, a) # {}
               PROVE  t[last(a)] + Len(last(a)) <= t[a]
    OBVIOUS
  <2>1. last(a) \in DOMAIN h /\ Low(last(a)) /\ End(h, last(a)) <= a
    BY <1>5, <1>9
  <2>2. t[last(a)] + Len(last(a)) \in Nat /\ t[last(a)] + Len(last(a)) <= a
    BY <1>4, <1>8, <2>1 DEF End
  <2> QED
    BY <1>5, <1>6, <2>2
<1>11. \A a \in DOMAIN h : Apart(a)
  <2> DEFINE Fails == {a \in DOMAIN h : ~Apart(a)}
  <2> SUFFICES ASSUME Fails # {} PROVE FALSE
    OBVIOUS
  <2>1. PICK a \in Fails : \A b \in Fails : a <= b
    BY <1>4, LeastElement
  <2>2. PICK b \in DOMAIN h : b < a /\ ~(t[b] + Len(b) <= t[a])
    BY <2>1
  <2>3. Before(h, a) # {}
    BY <2>1, <2>2 DEF Before
  <2>4. last(a) \in DOMAIN h /\ last(a) < a /\ b <= last(a)
    BY <1>5, <2>1, <2>2, <2>3
  <2>5. t[last(a)] + Len(last(a)) <= t[a]
    BY <1>10, <2>1, <2>3
  <2>6. b # last(a) /\ b < last(a)
    BY <1>4, <2>1, <2>2, <2>4, <2>5
  <2>7. Apart(last(a))
    BY <1>4, <2>1, <2>4
  <2>8. t[b] + Len(b) <= t[last(a)]
    BY <2>2, <2>6, <2>7
  <2>9. /\ t[a] \in Nat /\ t[b] \in Nat /\ t[last(a)] \in Nat
        /\ Len(b) \in Nat /\ Len(last(a)) \in Nat
    BY <1>4, <1>8, <1>9, <2>1, <2>4
  <2> QED
    BY <2>2, <2>5, <2>8, <2>9
<1> QED
  BY <1>2, <1>6, <1>9, <1>11 DEF t, Len

\* An injective move carries every block along.
LEMMA MovedBlocks ==
  ASSUME NEW h, NEW f, \A a, b \in DOMAIN h : f[a] = f[b] => a = b
  PROVE  /\ DOMAIN Moved(h, f) = {f[a] : a \in DOMAIN h}
         /\ \A a \in DOMAIN h : Moved(h, f)[f[a]] = h[a]
<1>1. DOMAIN Moved(h, f) = {f[a] : a \in DOMAIN h}
  BY DEF Moved
<1>2. ASSUME NEW a \in DOMAIN h PROVE (CHOOSE b \in DOMAIN h : f[b] = f[a]) = a
  OBVIOUS
<1> QED
  BY <1>1, <1>2 DEF Moved

\* After defragmentation blocks still do not overlap: g is h with the blocks
\* that move cut to what they use.
LEMMA SlideHeap ==
  ASSUME NEW h, IsHeap(h), Disjoint(h), NEW pinned, NEW used,
         \A a \in DOMAIN h : used[a] \in 1..h[a].len,
         NEW g, DOMAIN g = DOMAIN h,
         \A a \in DOMAIN h : g[a].len = NewLen(h, used, Slide(h, pinned, used), a)
  PROVE  /\ \A a, b \in DOMAIN h :
              Slide(h, pinned, used)[a] = Slide(h, pinned, used)[b] => a = b
         /\ IsHeap(Moved(g, Slide(h, pinned, used)))
         /\ Disjoint(Moved(g, Slide(h, pinned, used)))
<1> DEFINE t == Slide(h, pinned, used)
           m == Moved(g, t)
<1>1. \A a \in DOMAIN h : a \in 1..Cells /\ h[a].len \in Nat \ {0} /\ Cells \in Nat
  BY CellsAssumption DEF IsHeap
<1>2. \A a \in DOMAIN h : t[a] \in 1..a
  BY SlideFacts
<1>3. \A a \in DOMAIN h : g[a].len \in Nat \ {0}
  BY <1>1 DEF NewLen
<1>4. \A a, b \in DOMAIN h : b < a => t[b] + g[b].len <= t[a]
  BY SlideFacts
<1> HIDE DEF t
<1>5. \A a, b \in DOMAIN h : t[a] = t[b] => a = b
  BY <1>1, <1>2, <1>3, <1>4
<1>6. DOMAIN m = {t[a] : a \in DOMAIN h} /\ \A a \in DOMAIN h : m[t[a]] = g[a]
  <2>1. \A a, b \in DOMAIN g : t[a] = t[b] => a = b
    BY <1>5
  <2>2. DOMAIN m = {t[a] : a \in DOMAIN g} /\ \A a \in DOMAIN g : m[t[a]] = g[a]
    BY <2>1, MovedBlocks
  <2> QED
    BY <2>2
<1> HIDE DEF m
<1>7. IsHeap(m)
  BY <1>1, <1>2, <1>3, <1>6 DEF IsHeap
<1>8. ASSUME NEW c \in DOMAIN m, NEW d \in DOMAIN m, c < d PROVE End(m, c) <= d
  <2>1. PICK a \in DOMAIN h, b \in DOMAIN h : c = t[a] /\ d = t[b]
    BY <1>6
  <2>2. a < b
    <3>1. ~(b < a)
      BY <1>1, <1>2, <1>3, <1>4, <1>8, <2>1
    <3> QED
      BY <1>1, <1>2, <1>8, <2>1, <3>1
  <2> QED
    BY <1>4, <1>6, <2>1, <2>2 DEF End
<1>9. Disjoint(m)
  BY <1>7, <1>8, Ordered
<1> QED
  BY <1>5, <1>7, <1>9 DEF m, t
=============================================================================
