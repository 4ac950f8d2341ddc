------------------------------- MODULE ApcAlloc -------------------------------
(***************************************************************************)
(* What the cache expects of the allocator: blocks that never overlap, a   *)
(* block for every request that some run of free cells has room for, and   *)
(* a compaction that moves every block but the pinned ones down.           *)
(***************************************************************************)
EXTENDS ApcHeap

CONSTANTS Id, Sizes, MinBlock

VARIABLE heap  \* the allocated blocks: [len, used, id] by address

Ids(h) == {h[a].id : a \in DOMAIN h}

Init == heap = <<>>

\* A block may be longer than asked for, by a rest too small for a block.
Malloc(i, n) ==
  /\ i \notin Ids(heap)
  /\ \E a \in Fitting(heap, n) :
       LET room == GapLen(heap, a)
           len == IF room < n + MinBlock THEN room ELSE n
       IN  heap' = With(heap, a, [len |-> len, used |-> n, id |-> i])

Free(i) ==
  \E a \in DOMAIN heap :
    /\ heap[a].id = i
    /\ heap' = Without(heap, {a})

\* A block that moves keeps only what it uses.
Compact(pinned) ==
  LET to == Slide(heap, pinned, [a \in DOMAIN heap |-> heap[a].used])
      Shrunk(a) == IF to[a] = a THEN heap[a] ELSE [heap[a] EXCEPT !.len = heap[a].used]
  IN  heap' = Moved([a \in DOMAIN heap |-> Shrunk(a)], to)

Next ==
  \/ \E i \in Id : Free(i) \/ \E n \in Sizes : Malloc(i, n)
  \/ \E pinned \in SUBSET DOMAIN heap : Compact(pinned)

Spec == Init /\ [][Next]_heap
=============================================================================
