------------------------------ MODULE ApcPersist ------------------------------
(***************************************************************************)
(* How apc_persist.c lays a PHP value out in one block of the segment, and *)
(* reads it back: strings, references and arrays are copied one behind the *)
(* other, in the space that a first pass computed, and point to each other *)
(* by offsets from the entry; objects, and arrays when a serializer is     *)
(* set, become one serialized string.                                      *)
(*                                                                         *)
(* A value is a graph [node, root, ser] of counted nodes; ser says whether *)
(* the cache has a serializer.  A zval is a node's number, Scalar, or      *)
(* Undef (a hole in an array).  Every structure takes one cell, an array   *)
(* one more for each slot it uses; contents are tokens.                    *)
(***************************************************************************)
EXTENDS Integers, Sequences, SequencesExt, TLC

Scalar == 0
Undef == -1
EmptyArray == -2  \* zend_empty_array, outside of the segment

NoKey == ""

\* Nodes: key is the token of a string key, or NoKey.
String(c) == [kind |-> "string", c |-> c]
Reference(z) == [kind |-> "reference", val |-> z]
Array(elems) == [kind |-> "array", elems |-> elems]
Elem(key, z) == [key |-> key, val |-> z]
Object(c) == [kind |-> "object", c |-> c]
Resource == [kind |-> "resource"]

Graph(node, root, ser) == [node |-> node, root |-> root, ser |-> ser]

\* Holes do not count as elements.
IsEmpty(n) == n.kind = "array" /\ \A i \in DOMAIN n.elems : n.elems[i].val = Undef

EntryCells == 1
SerializedCells == 1

-----------------------------------------------------------------------------
(* apc_persist_calc(): s is [size, counted, failed]; failed is "" as long as *)
(* the value can be copied.                                                  *)

RECURSIVE CalcZval(_, _, _)

Add(s, n) == [s EXCEPT !.size = @ + n]

\* Mutant: the keys of arrays are not counted.
CalcElemNoKey(v, s, e) ==
  IF e.val = Undef THEN s ELSE CalcZval(v, s, e.val)

CalcElem(v, s, e) ==
  IF e.val = Undef THEN s
  ELSE CalcZval(v, IF e.key = NoKey THEN s ELSE Add(s, 1), e.val)

CalcHt(v, s, n) ==
  IF IsEmpty(n) THEN s
  ELSE FoldLeft(LAMBDA acc, e : CalcElem(v, acc, e),
                Add(s, 1 + Len(n.elems)), n.elems)

\* already_counted remembers a node whatever its kind.
Counted(s, z) == [s EXCEPT !.counted = @ \cup {z}]

\* After a failure the rest is not looked at.
CalcZval(v, s, z) ==
  IF z <= Scalar \/ s.failed # "" \/ z \in s.counted THEN s
  ELSE LET n == v.node[z]
           t == Counted(s, z)
       IN  CASE n.kind = "string" -> Add(t, 1)
             [] n.kind = "array" -> CalcHt(v, t, n)
             [] n.kind = "reference" -> CalcZval(v, Add(t, 1), n.val)
             [] n.kind = "object" -> [t EXCEPT !.failed = "serialize"]
             [] n.kind = "resource" -> [t EXCEPT !.failed = "refuse"]

RootKind(v) == IF v.root = Scalar THEN "scalar" ELSE v.node[v.root].kind

Calc(v) == CalcZval(v, [size |-> EntryCells, counted |-> {}, failed |-> ""], v.root)

\* Objects are always serialized, arrays when a serializer is set, and anything
\* with an object in it on the second try.
Serializes(v) ==
  \/ RootKind(v) = "object"
  \/ v.ser /\ RootKind(v) = "array"
  \/ Calc(v).failed = "serialize"

Storable(v) == Serializes(v) \/ Calc(v).failed = ""

\* ctxt.size of apc_persist()
SizeOf(v) == IF Serializes(v) THEN EntryCells + SerializedCells ELSE Calc(v).size

-----------------------------------------------------------------------------
(* apc_persist_create_entry(): s is [cur, done, word]; cur is alloc_cur, done *)
(* already_allocated, word what was written, by its offset in the entry.      *)

RECURSIVE CopyZval(_, _, _)

Alloc(s, n) == [s EXCEPT !.cur = @ + n]
Put(s, off, w) == [s EXCEPT !.word = (off :> w) @@ @]
Remember(s, z) == [s EXCEPT !.done = (z :> s.cur) @@ @]

\* A zval in the segment: the offset it points to.
Pointer(kind, off) == [kind |-> kind, off |-> off]
Plain(z) == [kind |-> IF z = Undef THEN "undef" ELSE "scalar", off |-> 0]

\* s with the zval that was written in s.val.
CopyString(s, z, n) ==
  [Put(Alloc(Remember(s, z), 1), s.cur, n) EXCEPT !.val = Pointer("string", s.cur)]

CopyReference(v, s, z, n) ==
  LET inner == CopyZval(v, Alloc(Remember(s, z), 1), n.val)
  IN  [Put(inner, s.cur, [kind |-> "reference", val |-> inner.val])
         EXCEPT !.val = Pointer("reference", s.cur)]

\* One bucket at offset at: its key is copied anew, then its value.
CopyElem(v, s, at, e) ==
  LET keyed == e.key # NoKey /\ e.val # Undef
      k == IF keyed THEN Put(Alloc(s, 1), s.cur, String(e.key)) ELSE s
      c == CopyZval(v, k, e.val)
  IN  Put(c, at, [kind |-> "bucket", key |-> IF keyed THEN s.cur ELSE 0, val |-> c.val])

\* Mutant: the array is remembered only when it is complete.
CopyHtLate(v, s, z, n) ==
  IF IsEmpty(n) THEN [s EXCEPT !.val = Pointer("array", 0)]
  ELSE LET data == s.cur + 1
           t == Alloc(s, 1 + Len(n.elems))
           c == FoldLeft(LAMBDA acc, i : CopyElem(v, acc, data + i - 1, n.elems[i]),
                         t, [i \in DOMAIN n.elems |-> i])
       IN  [Put([c EXCEPT !.done = (z :> s.cur) @@ @], s.cur,
                [kind |-> "array", len |-> Len(n.elems), data |-> data])
              EXCEPT !.val = Pointer("array", s.cur)]

\* An empty array is the entry's own address; others are remembered before their
\* elements are copied, as these may lead back to them.
CopyHt(v, s, z, n) ==
  IF IsEmpty(n) THEN [s EXCEPT !.val = Pointer("array", 0)]
  ELSE LET data == s.cur + 1
           t == Alloc(Remember(s, z), 1 + Len(n.elems))
           c == FoldLeft(LAMBDA acc, i : CopyElem(v, acc, data + i - 1, n.elems[i]),
                         t, [i \in DOMAIN n.elems |-> i])
       IN  [Put(c, s.cur, [kind |-> "array", len |-> Len(n.elems), data |-> data])
              EXCEPT !.val = Pointer("array", s.cur)]

CopyZval(v, s, z) ==
  IF z <= Scalar THEN [s EXCEPT !.val = Plain(z)]
  ELSE LET n == v.node[z]
       IN  IF z \in DOMAIN s.done THEN [s EXCEPT !.val = Pointer(n.kind, s.done[z])]
           ELSE CASE n.kind = "string" -> CopyString(s, z, n)
                  [] n.kind = "array" -> CopyHt(v, s, z, n)
                  [] n.kind = "reference" -> CopyReference(v, s, z, n)

\* The serialized string is a pointer of a type of its own.
CopySerialized(v, s) ==
  [Put(Alloc(s, SerializedCells), s.cur,
       [kind |-> "serialized", c |-> [node |-> v.node, root |-> v.root]])
     EXCEPT !.val = Pointer("serialized", s.cur)]

\* The words of the entry, by offset.
Image(v) ==
  LET s == [cur |-> EntryCells, done |-> <<>>, word |-> <<>>, val |-> Plain(Scalar)]
      c == IF Serializes(v) THEN CopySerialized(v, s) ELSE CopyZval(v, s, v.root)
  IN  Put(c, 0, [kind |-> "entry", val |-> c.val]).word

-----------------------------------------------------------------------------
(* apc_unpersist(): mem is the segment, base the address of the entry in it;  *)
(* s is [copied, node, val]: already_copied, by offset, and the new nodes.    *)

RECURSIVE ReadZval(_, _, _, _)

\* What a word of another kind, or of nobody, reads as.
Garbage == [kind |-> "garbage"]

WordAt(mem, base, off, kind) ==
  IF base + off \in DOMAIN mem /\ mem[base + off].kind = kind
  THEN mem[base + off] ELSE Garbage

\* The new node is remembered before what it points to is read.
NewNode(s, off, n) ==
  LET z == Len(s.node) + 1
  IN  [node |-> Append(s.node, n), copied |-> (off :> z) @@ s.copied, val |-> z]

ReadReference(mem, base, s, off, w) ==
  LET t == NewNode(s, off, Reference(Scalar))
      inner == ReadZval(mem, base, t, w.val)
  IN  [inner EXCEPT !.node[t.val] = Reference(inner.val), !.val = t.val]

\* Keys are duplicated, shared or not.
ReadElem(mem, base, s, z, off) ==
  LET w == WordAt(mem, base, off, "bucket")
      key == IF w = Garbage \/ w.key = 0 THEN NoKey
             ELSE LET k == WordAt(mem, base, w.key, "string")
                  IN  IF k = Garbage THEN NoKey ELSE k.c
      inner == IF w = Garbage THEN [s EXCEPT !.val = Undef]
               ELSE ReadZval(mem, base, s, w.val)
  IN  [inner EXCEPT !.node[z] = Array(Append(@.elems, Elem(key, inner.val)))]

ReadHt(mem, base, s, off, w) ==
  LET t == NewNode(s, off, Array(<<>>))
      offs == [i \in 1..w.len |-> w.data + i - 1]
  IN  [FoldLeft(LAMBDA acc, x : ReadElem(mem, base, acc, t.val, x), t, offs)
         EXCEPT !.val = t.val]

\* p is the zval as it was copied from the entry: an offset, or plain data. An
\* array at the entry's own address is the shared empty one.
ReadZval(mem, base, s, p) ==
  CASE p.kind = "undef" -> [s EXCEPT !.val = Undef]
    [] p.kind = "scalar" -> [s EXCEPT !.val = Scalar]
    [] p.kind = "array" /\ p.off = 0 -> [s EXCEPT !.val = EmptyArray]
    [] OTHER ->
         LET w == WordAt(mem, base, p.off, p.kind)
         IN  IF p.off \in DOMAIN s.copied THEN [s EXCEPT !.val = s.copied[p.off]]
             ELSE IF w = Garbage THEN NewNode(s, p.off, w)
             ELSE CASE p.kind = "string" -> NewNode(s, p.off, w)
                    [] p.kind = "reference" -> ReadReference(mem, base, s, p.off, w)
                    [] p.kind = "array" -> ReadHt(mem, base, s, p.off, w)

Lost == [node |-> <<Garbage>>, root |-> 1]

\* The serializer gives back what it was given.
UnpersistSerialized(mem, base, off) ==
  LET str == WordAt(mem, base, off, "serialized")
  IN  IF str = Garbage THEN Lost ELSE str.c

\* The graph that a fetch returns.
Unpersist(mem, base) ==
  LET e == WordAt(mem, base, 0, "entry")
      none == [copied |-> <<>>, node |-> <<>>, val |-> Scalar]
      s == ReadZval(mem, base, none, e.val)
  IN  CASE e = Garbage -> Lost
        [] e.val.kind = "serialized" -> UnpersistSerialized(mem, base, e.val.off)
        [] OTHER -> [node |-> s.node, root |-> s.val]

-----------------------------------------------------------------------------
(* When a restored graph r is the value v: a one to one map f of its nodes    *)
(* keeps contents, keys, holes and what is shared.                            *)

SameZval(v, f, z, y) ==
  IF y > 0 THEN z = f[y]
  ELSE IF y = EmptyArray THEN z > 0 /\ IsEmpty(v.node[z]) ELSE z = y

SameNode(v, f, n, m) ==
  /\ n.kind = m.kind
  /\ n.kind \in {"string", "object"} => n = m
  /\ n.kind = "reference" => SameZval(v, f, n.val, m.val)
  /\ n.kind = "array" =>
       /\ Len(n.elems) = Len(m.elems)
       /\ \A i \in DOMAIN n.elems :
            /\ n.elems[i].val # Undef => n.elems[i].key = m.elems[i].key
            /\ SameZval(v, f, n.elems[i].val, m.elems[i].val)

Same(v, r) ==
  \E f \in [DOMAIN r.node -> DOMAIN v.node] :
    /\ \A x, y \in DOMAIN r.node : f[x] = f[y] => x = y
    /\ \A y \in DOMAIN r.node : SameNode(v, f, v.node[f[y]], r.node[y])
    /\ SameZval(v, f, v.root, r.root)

\* A fetch gives back what was stored, and the second pass fills the space that
\* the first one computed to the last cell (assertion of apc_persist()).
RoundTrips(v) ==
  LET image == Image(v)
  IN  Same(v, Unpersist(image, 0)) /\ DOMAIN image = 0..(SizeOf(v) - 1)
=============================================================================
