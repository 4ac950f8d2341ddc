------------------------------ MODULE ApcValues ------------------------------
(***************************************************************************)
(* Stored values in the segment: apc_persist() writes a value into a block *)
(* that it allocates, defragmentation moves the block with a plain         *)
(* memmove(), and apc_unpersist() reads it where it is then.               *)
(*                                                                         *)
(* word holds the cells behind the headers of allocated blocks, by their   *)
(* address; what free space contains is nobody's, and left out.  How a     *)
(* value is laid out is a parameter: ApcPersist is what the code does.     *)
(***************************************************************************)
EXTENDS ApcSma

CONSTANTS
  Values,          \* what the clients store
  RoomFor(_),      \* cells that the first pass computes for a value
  ImageOf(_),      \* words that the second pass writes, by offset in the entry
  ReadBack(_, _),  \* what is read in a segment from an entry's address on
  Equal(_, _)      \* a value is what was read

ASSUME ValuesAssumption == \A v \in Values : RoomFor(v) \in Nat /\ RoomFor(v) + Hdr \in Sizes

VARIABLES
  word,  \* contents of the segment, by address
  what   \* history: the value that each client stored and still holds

vvars == <<vars, word, what>>

VInit == Init /\ word = <<>> /\ what = <<>>

\* sma_allocate() hands out the cells behind the header: the entry's address.
Entry(o) == o + Hdr

\* w with the image written from base on.
CopyTo(w, base, image) ==
  [a \in DOMAIN w \cup {base + off : off \in DOMAIN image} |->
     IF a - base \in DOMAIN image THEN image[a - base] ELSE w[a]]

\* apc_persist(): the block is as large as the first pass found.
StoreValue(i, v) ==
  /\ Malloc(i, RoomFor(v) + Hdr)
  /\ word' = CopyTo(word, Entry(held'[i]), ImageOf(v))
  /\ what' = With(what, i, v)

\* The cells of the block at o that were asked for, header included.
Cell(o) == o..(o + blk[o].fprev - 1)

FreeValue(i) ==
  /\ Free(i)
  /\ word' = [a \in DOMAIN word \ Cell(held[i]) |-> word[a]]
  /\ what' = Drop(what, i)

\* Where each word goes when the block it is in moves as a whole.
Carried(s) ==
  LET Owner(a) == CHOOSE o \in Allocated : a \in Cell(o)
      from == AntiFunction([a \in DOMAIN word |-> a + s.to[Owner(a)] - Owner(a)])
  IN  [a \in DOMAIN from |-> word[from[a]]]

DefragValues(pinned) ==
  /\ Defrag(pinned)
  /\ \E s \in {Compacted(blk, pinned)} : word' = Carried(s)
  /\ UNCHANGED what

VNext ==
  \/ \E i \in Id : FreeValue(i) \/ \E v \in Values : StoreValue(i, v)
  \/ \E pinned \in SUBSET Allocated : DefragValues(pinned)

VSpec == VInit /\ [][VNext]_vvars

-----------------------------------------------------------------------------
(* Safety *)

\* Whatever was split, merged and moved meanwhile, every client's pointer leads
\* to a block from which its own value is read back, with what was shared in it
\* still shared and its cycles closed; no block is lost or held twice.
ValuesIntact ==
  /\ \A i \in Id : held[i] # 0 => Equal(what[i], ReadBack(word, Entry(held[i])))
  /\ Allocated = {held[i] : i \in {j \in Id : held[j] # 0}}

\* The copy fills the space that was computed for it to the last cell and goes
\* no further (assertion at the end of apc_persist()).
SizesAgree ==
  DOMAIN word = UNION {Cell(o) \ {o} : o \in Allocated}
=============================================================================
