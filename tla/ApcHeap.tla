------------------------------- MODULE ApcHeap -------------------------------
(***************************************************************************)
(* The segment as its users see it: a row of cells, some of them covered   *)
(* by allocated blocks.  A heap is a function from the addresses of the    *)
(* allocated blocks to records with a field len.  A block header is one    *)
(* cell, counted in len.  ApcSma implements these operators by block       *)
(* headers and a free list (apc_sma.c).                                    *)
(***************************************************************************)
EXTENDS Naturals, FiniteSets, FiniteSetsExt

CONSTANT Cells  \* size of the segment

ASSUME CellsAssumption == Cells \in Nat \ {0}

Hdr == 1  \* ALIGNWORD(sizeof(block_t))

Extent(h, a) == a .. (a + h[a].len - 1)
Taken(h) == UNION {Extent(h, a) : a \in DOMAIN h}
Avail(h) == Cells - Cardinality(Taken(h))

\* Free blocks are maximal runs of free cells: they are always coalesced.
GapStarts(h) ==
  LET taken == Taken(h)
  IN  {a \in 1..Cells : a \notin taken /\ (a = 1 \/ a - 1 \in taken)}
GapLen(h, a) ==
  LET ends == {b \in a..Cells : b \in Taken(h)}
  IN  IF ends = {} THEN Cells + 1 - a ELSE Min(ends) - a

\* Mutant: a free block one cell too short is taken.
FittingShort(h, n) == {a \in GapStarts(h) : GapLen(h, a) + 1 >= n}

\* Where a block of n cells can go: always the start of a free block.
Fitting(h, n) == {a \in GapStarts(h) : GapLen(h, a) >= n}

Without(h, A) == [a \in DOMAIN h \ A |-> h[a]]
With(h, a, r) == [b \in DOMAIN h \cup {a} |-> IF b = a THEN r ELSE h[b]]

\* Defragmentation: from low to high addresses, every block that is not
\* pinned slides down to the end of the block before it, and one that moves
\* keeps only the used[a] cells it needs.
Slide(h, pinned, used) ==
  LET Before(a) == {b \in DOMAIN h : b < a}
      to[a \in 0..Cells] ==
        IF a \notin DOMAIN h \/ a \in pinned THEN a
        ELSE IF Before(a) = {} THEN 1
        ELSE LET b == Max(Before(a))
             IN  to[b] + (IF to[b] = b THEN h[b].len ELSE used[b])
  IN  [a \in DOMAIN h |-> to[a]]

\* The heap after its blocks moved by f, an injective map on addresses.
Moved(h, f) ==
  [b \in {f[a] : a \in DOMAIN h} |-> h[CHOOSE a \in DOMAIN h : f[a] = b]]

Disjoint(h) ==
  \A a, b \in DOMAIN h : a # b => Extent(h, a) \cap Extent(h, b) = {}
=============================================================================
