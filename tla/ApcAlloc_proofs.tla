--------------------------- MODULE ApcAlloc_proofs ---------------------------
(***************************************************************************)
(* Whatever is allocated, freed and compacted, and whichever blocks are    *)
(* pinned: the blocks of the allocator never overlap, and lie inside the   *)
(* segment.                                                                *)
(***************************************************************************)
EXTENDS ApcAlloc, ApcHeap_proofs

\* What ApcSma assumes of these constants.
Parameters == Sizes \subseteq Nat \ {0} /\ MinBlock \in Nat

Blocks ==
  /\ IsHeap(heap)
  /\ Disjoint(heap)
  /\ \A a \in DOMAIN heap : heap[a].used \in 1..heap[a].len

LEMMA GapLenIsInt ==
  ASSUME NEW a \in 1..Cells
  PROVE  GapLen(heap, a) \in Int
<1> DEFINE ends == {b \in a..Cells : b \in Taken(heap)}
<1>1. ends \in SUBSET Nat /\ Cells \in Nat
  BY CellsAssumption
<1>2. CASE ends = {}
  BY <1>1, <1>2 DEF GapLen
<1>3. CASE ends # {}
  <2>1. Min(ends) \in Nat
    BY <1>1, <1>3, MinInSet
  <2> QED
    BY <1>1, <1>3, <2>1 DEF GapLen
<1> QED
  BY <1>2, <1>3

LEMMA MallocKeeps ==
  ASSUME Parameters, Blocks, NEW i, NEW n \in Sizes, Malloc(i, n)
  PROVE  Blocks'
<1>1. PICK a, r :
        /\ a \in Fitting(heap, n) /\ heap' = With(heap, a, r) /\ r.used = n
        /\ r.len = IF GapLen(heap, a) < n + MinBlock THEN GapLen(heap, a) ELSE n
  BY DEF Malloc
<1>2. a \in 1..Cells /\ a \in GapStarts(heap) /\ GapLen(heap, a) >= n
  BY <1>1 DEF Fitting, GapStarts
<1>3. n \in Nat \ {0} /\ MinBlock \in Nat /\ GapLen(heap, a) \in Int
  BY <1>2, GapLenIsInt DEF Parameters
<1>4. r.len \in Nat \ {0} /\ n <= r.len /\ r.len <= GapLen(heap, a)
  BY <1>1, <1>2, <1>3
<1>5. a \in Fitting(heap, r.len)
  BY <1>2, <1>4 DEF Fitting
<1>6. r.len <= r.len
  BY <1>4
<1>7. Gains(heap, heap', a, r)
  BY <1>1, <1>4, <1>5, <1>6, WithHeap DEF Blocks
<1> QED
  BY <1>1, <1>3, <1>4, <1>7 DEF Blocks, Gains

LEMMA CompactKeeps ==
  ASSUME Blocks, NEW pinned, Compact(pinned)
  PROVE  Blocks'
<1> DEFINE used == [a \in DOMAIN heap |-> heap[a].used]
           to == Slide(heap, pinned, used)
           g == [a \in DOMAIN heap |-> IF to[a] = a THEN heap[a]
                                       ELSE [heap[a] EXCEPT !.len = heap[a].used]]
<1>1. heap' = Moved(g, to)
  BY DEF Compact
<1>2. \A a \in DOMAIN heap : used[a] \in 1..heap[a].len /\ heap[a].len \in Nat \ {0}
  BY DEF Blocks, IsHeap
<1>3. \A a \in DOMAIN heap : /\ g[a].len = NewLen(heap, used, to, a)
                             /\ g[a].used \in 1..g[a].len
  BY <1>2 DEF NewLen
<1>4. DOMAIN g = DOMAIN heap
  OBVIOUS
<1> HIDE DEF used, g
<1>5. /\ \A a, b \in DOMAIN heap : to[a] = to[b] => a = b
      /\ IsHeap(Moved(g, to)) /\ Disjoint(Moved(g, to))
  BY <1>2, <1>3, <1>4, SlideHeap DEF Blocks
<1> HIDE DEF to
<1>6. /\ DOMAIN heap' = {to[a] : a \in DOMAIN g}
      /\ \A a \in DOMAIN g : heap'[to[a]] = g[a]
  <2>1. \A a, b \in DOMAIN g : to[a] = to[b] => a = b
    BY <1>4, <1>5
  <2>2. DOMAIN Moved(g, to) = {to[a] : a \in DOMAIN g}
        /\ \A a \in DOMAIN g : Moved(g, to)[to[a]] = g[a]
    BY <2>1, MovedBlocks
  <2> QED
    BY <1>1, <2>2
<1> QED
  BY <1>1, <1>3, <1>4, <1>5, <1>6 DEF Blocks

\* The allocator's promise to its users, for any segment size, request sizes and
\* pinned blocks: allocated blocks never overlap.  ApcSma implements it
\* (apc_sma_malloc(), apc_sma_free(), apc_sma_defrag()).
THEOREM AllocDisjoint == Parameters => (Spec => [](IsHeap(heap) /\ Disjoint(heap)))
<1> SUFFICES ASSUME Parameters PROVE Spec => [](IsHeap(heap) /\ Disjoint(heap))
  OBVIOUS
<1>1. Init => Blocks
  BY DEF Init, Blocks, IsHeap, Disjoint
<1>2. Blocks /\ [Next]_heap => Blocks'
  <2> SUFFICES ASSUME Blocks, [Next]_heap PROVE Blocks'
    OBVIOUS
  <2>1. ASSUME NEW i \in Id, Free(i) PROVE Blocks'
    <3>1. PICK a \in DOMAIN heap : heap' = Without(heap, {a})
      BY <2>1 DEF Free
    <3> QED
      <4>1. Loses(heap, heap', {a})
        BY <3>1, WithoutHeap DEF Blocks
      <4> QED
        BY <4>1 DEF Blocks, Loses
  <2>2. CASE UNCHANGED heap
    BY <2>2 DEF Blocks
  <2> QED
    BY <2>1, <2>2, MallocKeeps, CompactKeeps DEF Next
<1>3. Blocks => IsHeap(heap) /\ Disjoint(heap)
  BY DEF Blocks
<1> QED
  BY <1>1, <1>2, <1>3, PTL DEF Spec
=============================================================================
