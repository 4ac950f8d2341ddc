-------------------------------- MODULE ApcSma --------------------------------
(***************************************************************************)
(* The shared memory allocator of apc_sma.c at the level of its block      *)
(* headers: sequential blocks with boundary tags, a doubly linked list of  *)
(* the free ones between two 0-sized sentinels, a bounded best fit, and    *)
(* defragmentation around blocks that refuse to move.                      *)
(*                                                                         *)
(* Every operation runs under the allocator's lock and is one step.        *)
(* Offsets count cells; a header takes one cell, so a block of size n      *)
(* serves n - 1 cells.  The map blk has an entry where there is a header,  *)
(* and a step that followed a stale or misplaced tag would leave it.       *)
(***************************************************************************)
EXTENDS ApcHeap, Sequences, SequencesExt

CONSTANTS
  Id,        \* what the clients allocate
  Sizes,     \* real sizes asked for, header included
  MinBlock,  \* smaheader->min_block_size: a smaller rest is not split off
  BestFitLimit  \* BEST_FIT_LIMIT (3 in the code)

ASSUME SmaAssumption ==
  /\ Sizes \subseteq {n \in Nat : n > Hdr}
  /\ MinBlock \in {n \in Nat : n > Hdr}
  /\ BestFitLimit \in Nat
  /\ 0 \notin Id

VARIABLES
  blk,    \* the block headers, by offset
  avail,  \* smaheader->avail
  held    \* the offset of the block each client holds, 0 if none

vars == <<blk, avail, held>>

FirstBlk == 1          \* the 0-sized first block
Start == FirstBlk + Hdr
LastBlk == Start + Cells
Offset == FirstBlk..LastBlk

\* fnext is 0 in an allocated block and in the last one; fprev of an allocated
\* block is the size that was asked for.  data stands for the block's contents.
Block == [size : 0..Cells, prev_size : 0..Cells, fnext : Offset \cup {0},
          fprev : 0..LastBlk, data : Id \cup {0}]

Init ==
  /\ blk = [o \in {FirstBlk, Start, LastBlk} |->
              CASE o = FirstBlk -> [size |-> 0, prev_size |-> 0, fnext |-> Start,
                                    fprev |-> 0, data |-> 0]
                [] o = Start -> [size |-> Cells, prev_size |-> 0, fnext |-> LastBlk,
                                 fprev |-> FirstBlk, data |-> 0]
                [] o = LastBlk -> [size |-> 0, prev_size |-> Cells, fnext |-> 0,
                                   fprev |-> Start, data |-> 0]]
  /\ avail = Cells
  /\ held = [i \in Id |-> 0]

-----------------------------------------------------------------------------
(* Headers and the free list *)

Next_S(b, o) == o + b[o].size       \* NEXT_SBLOCK
Prev_S(b, o) == o - b[o].prev_size  \* PREV_SBLOCK

\* Mutant: the list is repaired in one direction only.
UnlinkForward(b, o) == [b EXCEPT ![b[o].fprev].fnext = b[o].fnext]

LinkAtStart(b, o) ==
  LET head == b[FirstBlk].fnext
  IN  [b EXCEPT ![o].fnext = head, ![o].fprev = FirstBlk,
                ![FirstBlk].fnext = o, ![head].fprev = o]

Unlink(b, o) ==
  [b EXCEPT ![b[o].fprev].fnext = b[o].fnext, ![b[o].fnext].fprev = b[o].fprev]

Drop(b, o) == [x \in DOMAIN b \ {o} |-> b[x]]

\* The next in the list, at its end the end.
Follow(b, o) == IF b[o].fnext = 0 THEN o ELSE b[o].fnext

\* The free blocks in list order, without the sentinels.
FreeList(b) ==
  LET at[n \in 0..Cells] == Follow(b, IF n = 0 THEN FirstBlk ELSE at[n - 1])
  IN  [i \in 1..Min({n \in 0..Cells : b[at[n]].fnext = 0}) |-> at[i - 1]]

\* Mutant: a block that fits exactly is passed over.
CandidatesLarger(b, n) == {o \in ToSet(FreeList(b)) : b[o].size > n}

\* The first fit, or the smallest fit among it and the next few blocks.
Candidates(b, n) ==
  LET list == FreeList(b)
      Fits(i) == b[list[i]].size >= n
      fits == {i \in DOMAIN list : Fits(i)}
  IN  {list[i] : i \in {j \in fits : j <= Min(fits) + BestFitLimit}}

FindBlock(b, n) ==
  LET list == FreeList(b)
      Rank(o) == CHOOSE i \in DOMAIN list : list[i] = o
  IN  CHOOSE o \in Candidates(b, n) : \A x \in Candidates(b, n) :
        b[o].size < b[x].size \/ (b[o].size = b[x].size /\ Rank(o) <= Rank(x))

-----------------------------------------------------------------------------
(* sma_allocate() *)

MarkAllocated(b, o, n, i) ==
  [b EXCEPT ![o].fnext = 0, ![o].fprev = n, ![o].data = i]

\* Mutant: the next block keeps the tag that says its predecessor is free.
TakeWholeTagged(b0, o, n, i) == MarkAllocated(Unlink(b0, o), o, n, i)

TakeWhole(b0, o, n, i) ==
  LET b == Unlink(b0, o)
  IN  MarkAllocated([b EXCEPT ![Next_S(b, o)].prev_size = 0], o, n, i)

Split(b0, o, n, i) ==
  LET rest == b0[o].size - n
      nxt == [size |-> rest, prev_size |-> 0, fnext |-> 0, fprev |-> 0, data |-> 0]
      cut == With([Unlink(b0, o) EXCEPT ![o].size = n], o + n, nxt)
      b == [cut EXCEPT ![o + n + rest].prev_size = rest]
  IN  MarkAllocated(LinkAtStart(b, o + n), o, n, i)

\* Mutant: a rest smaller than a block is split off.
AllocateSplitsMore(b, o, n, i) ==
  IF b[o].size + 1 < n + MinBlock THEN TakeWhole(b, o, n, i) ELSE Split(b, o, n, i)

Allocate(b, o, n, i) ==
  IF b[o].size < n + MinBlock THEN TakeWhole(b, o, n, i) ELSE Split(b, o, n, i)

\* Mutant: avail loses the size asked for, not the size of the block.
MallocUndercounts(i, n) ==
  /\ held[i] = 0
  /\ avail >= n /\ Candidates(blk, n) # {}
  /\ LET o == FindBlock(blk, n)
     IN  /\ blk' = Allocate(blk, o, n, i)
         /\ avail' = avail - n
         /\ held' = [held EXCEPT ![i] = o]

\* find_block() first compares the total with avail; then some block fits or
\* apc_sma_malloc() goes on to its expunge and nothing changes here.
Malloc(i, n) ==
  /\ held[i] = 0
  /\ avail >= n /\ Candidates(blk, n) # {}
  /\ LET o == FindBlock(blk, n)
     IN  /\ blk' = Allocate(blk, o, n, i)
         /\ avail' = avail - blk'[o].size
         /\ held' = [held EXCEPT ![i] = o]

-----------------------------------------------------------------------------
(* sma_deallocate() *)

MergePrev(b, o) ==
  IF b[o].prev_size = 0 THEN [b |-> b, cur |-> o]
  ELSE LET prv == Prev_S(b, o)
       IN  [b |-> Drop([Unlink(b, prv) EXCEPT ![prv].size = @ + b[o].size], o),
            cur |-> prv]

MergeNext(b, o) ==
  LET nxt == Next_S(b, o)
  IN  IF b[nxt].fnext = 0 THEN b
      ELSE Drop([Unlink(b, nxt) EXCEPT ![o].size = @ + b[nxt].size], nxt)

Deallocate(b, o) ==
  LET m == MergePrev([b EXCEPT ![o].data = 0], o)
      c == MergeNext(m.b, m.cur)
  IN  LinkAtStart([c EXCEPT ![Next_S(c, m.cur)].prev_size = c[m.cur].size], m.cur)

Free(i) ==
  /\ held[i] # 0
  /\ blk' = Deallocate(blk, held[i])
  /\ avail' = avail + blk[held[i]].size
  /\ held' = [held EXCEPT ![i] = 0]

-----------------------------------------------------------------------------
(* apc_sma_defrag(): the blocks are visited in address order; hole is the    *)
(* free block that ends where the visited block begins, if there is one.     *)

EmptyFreeList(b) == [b EXCEPT ![FirstBlk].fnext = LastBlk, ![LastBlk].fprev = FirstBlk]

\* The hole ends before o: it goes back into the free list.
CloseHole(b, hole, o) ==
  [LinkAtStart(b, hole) EXCEPT ![hole].prev_size = 0, ![o].prev_size = b[hole].size]

\* The block at o moves down to the hole, and gives its unused space to it.
MoveDown(b, hole, o) ==
  LET used == b[o].fprev
      rest == [b[hole] EXCEPT !.size = @ + b[o].size - used]
      moved == [b[o] EXCEPT !.size = used, !.prev_size = 0]
  IN  With(With(Drop(b, o), hole, moved), hole + used, rest)

\* Mutant: a hole and the free block after it are not combined.
VisitNoMerge(s, o, pinned) ==
  LET free == s.b[o].fnext # 0
  IN  CASE free /\ s.hole = 0 -> [s EXCEPT !.hole = o]
        [] free /\ s.hole # 0 ->
             [s EXCEPT !.b = CloseHole(@, s.hole, o), !.hole = o]
        [] ~free /\ s.hole = 0 -> s
        [] ~free /\ s.hole # 0 /\ o \in pinned ->
             [s EXCEPT !.b = CloseHole(@, s.hole, o), !.hole = 0]
        [] OTHER ->
             [s EXCEPT !.b = MoveDown(@, s.hole, o),
                       !.hole = @ + s.b[o].fprev,
                       !.gain = @ + s.b[o].size - s.b[o].fprev,
                       !.to[o] = s.hole]

\* s: [b, hole, gain, to]; to[x] is where the block that was at x is now.
Visit(s, o, pinned) ==
  LET free == s.b[o].fnext # 0
  IN  CASE free /\ s.hole = 0 -> [s EXCEPT !.hole = o]
        [] free /\ s.hole # 0 ->
             [s EXCEPT !.b = Drop([s.b EXCEPT ![s.hole].size = @ + s.b[o].size], o)]
        [] ~free /\ s.hole = 0 -> s
        [] ~free /\ s.hole # 0 /\ o \in pinned ->
             [s EXCEPT !.b = CloseHole(@, s.hole, o), !.hole = 0]
        [] OTHER ->
             [s EXCEPT !.b = MoveDown(@, s.hole, o),
                       !.hole = @ + s.b[o].fprev,
                       !.gain = @ + s.b[o].size - s.b[o].fprev,
                       !.to[o] = s.hole]

Compacted(b, pinned) ==
  LET after[o \in FirstBlk..(LastBlk - 1)] ==
        IF o = FirstBlk THEN [b |-> EmptyFreeList(b), hole |-> 0, gain |-> 0,
                              to |-> [x \in DOMAIN b |-> x]]
        ELSE IF o \in DOMAIN b THEN Visit(after[o - 1], o, pinned) ELSE after[o - 1]
      s == after[LastBlk - 1]
  IN  IF s.hole = 0 THEN s
      ELSE [s EXCEPT !.b = CloseHole(@, s.hole, LastBlk)]

\* The clients' pointers are redirected by the move callback.
Defrag(pinned) ==
  LET s == Compacted(blk, pinned)
  IN  /\ blk' = s.b
      /\ avail' = avail + s.gain
      /\ held' = [i \in Id |-> IF held[i] = 0 THEN 0 ELSE s.to[held[i]]]

Allocated == {o \in DOMAIN blk \ {FirstBlk, LastBlk} : blk[o].fnext = 0}
FreeBlocks == {o \in DOMAIN blk \ {FirstBlk, LastBlk} : blk[o].fnext # 0}

Next ==
  \/ \E i \in Id : Free(i) \/ \E n \in Sizes : Malloc(i, n)
  \/ \E pinned \in SUBSET Allocated : Defrag(pinned)

Spec == Init /\ [][Next]_vars

-----------------------------------------------------------------------------
(* Safety *)

TypeOK ==
  /\ DOMAIN blk \subseteq Offset /\ \A o \in DOMAIN blk : blk[o] \in Block
  /\ avail \in 0..Cells
  /\ held \in [Id -> Offset \cup {0}]

\* The blocks tile the segment: each ends at the next header. Boundary tags tell
\* every block whether the one before it is free, and no two free blocks are
\* neighbours (TECHNOTES: "we never have 2 free blocks next to each other").
BoundaryTags ==
  \A o \in DOMAIN blk \ {FirstBlk, LastBlk} :
    LET nxt == Next_S(blk, o)
    IN  /\ blk[o].size > 0 /\ nxt \in DOMAIN blk
        /\ \A x \in DOMAIN blk : ~(o < x /\ x < nxt)
        /\ IF o \in FreeBlocks
           THEN blk[nxt].prev_size = blk[o].size /\ nxt \notin FreeBlocks
           ELSE blk[nxt].prev_size = 0

\* The list holds exactly the free blocks, linked both ways, and avail is
\* their total size.
FreeListExact ==
  LET list == <<FirstBlk>> \o FreeList(blk) \o <<LastBlk>>
  IN  /\ ToSet(FreeList(blk)) = FreeBlocks
      /\ \A i \in 1..(Len(list) - 1) :
           blk[list[i]].fnext = list[i + 1] /\ blk[list[i + 1]].fprev = list[i]
      /\ avail = MapThenSumSet(LAMBDA o : blk[o].size, FreeBlocks)

\* With nothing pinned, defragmentation leaves all that is available, what it
\* reclaimed included, in one free block: the next contiguous check succeeds.
DefragCompacts ==
  [][Defrag({}) =>
       \/ FreeBlocks' = {}
       \/ \E o \in FreeBlocks' : blk'[o].size = avail']_vars

-----------------------------------------------------------------------------
(* Refinement: the headers implement a heap of blocks. *)

AbstractHeap ==
  [a \in {o - Hdr : o \in Allocated} |->
     [len |-> blk[a + Hdr].size, used |-> blk[a + Hdr].fprev,
      id |-> blk[a + Hdr].data]]

\* An allocation fails only if no run of free cells has room for it, so the
\* cache is never expunged for a request that could have been served.
FailsOnlyIfFull ==
  \A n \in Sizes : Fitting(AbstractHeap, n) # {} =>
    avail >= n /\ Candidates(blk, n) # {}

\* Splitting, merging, tags and list are invisible to the clients.
Heap == INSTANCE ApcAlloc WITH heap <- AbstractHeap
ImplementsHeap == Heap!Spec
=============================================================================
