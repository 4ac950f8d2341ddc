----------------------------- MODULE MCApcPersist -----------------------------
(* Every small PHP value through apc_persist() and apc_unpersist(): the runs  *)
(* of the cache, whose values are tokens, rest on this.                       *)
EXTENDS ApcPersist

(* The nodes of values with n of them: number i is the root or further down,  *)
(* and only references lead back up, as only they close cycles in PHP.        *)

Nodes(n, i) ==
  LET Elems == {Elem(k, z) : k \in {NoKey, "k"}, z \in {Undef, Scalar} \cup 1..n}
  IN  {String("s"), Object("o"), Resource} \cup {Reference(z) : z \in Scalar..n}
        \cup {Array(e) : e \in {<<>>} \cup {<<x>> : x \in Elems}
                                \cup (IF i > 1 THEN {} ELSE Elems \X Elems)}

\* No reference leads to a reference.
Possible(v) ==
  \A i \in DOMAIN v.node :
    LET n == v.node[i]
    IN  /\ n.kind = "reference" => n.val = Scalar \/ v.node[n.val].kind # "reference"
        /\ n.kind = "array" => \A k \in DOMAIN n.elems :
             LET z == n.elems[k].val
             IN  z > 0 => z > i \/ v.node[z].kind = "reference"

Graphs(n) ==
  {v \in {Graph(g, 1, s) : g \in (IF n = 2 THEN Nodes(2, 1) \X Nodes(2, 2)
                                  ELSE Nodes(3, 1) \X Nodes(3, 2) \X Nodes(3, 3)),
                          s \in BOOLEAN} :
     Possible(v) /\ v.node[1].kind # "reference"}

\* Between two entries that look alike, an entry is read as it is alone.
ReadsAmongOthers(v) ==
  LET image == Image(v)
      n == SizeOf(v)
  IN  Unpersist([a \in 0..(3 * n - 1) |-> image[a % n]], n) = Unpersist(image, 0)

\* Whatever is shared, nested, empty or cyclic in a value, and with a serializer
\* or without, storing and fetching it gives the same value back, wherever it is,
\* and the space computed for it is the space it takes.
ASSUME EveryValueRoundTrips ==
  \A v \in Graphs(2) \cup Graphs(3) :
    Storable(v) /\ (\A i \in DOMAIN v.node : v.node[i] # Resource)
      => RoundTrips(v) /\ ReadsAmongOthers(v)
=============================================================================
