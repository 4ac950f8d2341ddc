----------------------------- MODULE MCApcValues -----------------------------
(* Instances of the allocator with values in its blocks. *)
EXTENDS ApcValues, ApcPersist

CONSTANTS i1, i2, i3, i4

Symmetry == Permutations(Id)

ScalarValue == Graph(<<>>, Scalar, FALSE)
Serialized == Graph(<<Array(<<Elem(NoKey, 2)>>), Object("o")>>, 1, FALSE)
\* $a = []; $a[] = &$a;
Cyclic == Graph(<<Array(<<Elem(NoKey, 2)>>), Reference(1)>>, 1, FALSE)
\* A hole, a key, an empty array, and a string that occurs twice.
Mixed == Graph(<<Array(<<Elem(NoKey, Undef), Elem("k", 2), Elem(NoKey, 2), Elem(NoKey, 3)>>),
                 String("s"), Array(<<>>)>>, 1, FALSE)

MCValues == {ScalarValue, Serialized, Cyclic, Mixed}
MCSizes == {SizeOf(v) + Hdr : v \in MCValues}

ASSUME ValuesStorable == \A v \in Values : Storable(v)

=============================================================================
