------------------------------ MODULE MCApcCache ------------------------------
(* Instances of the cache: both keys in one hash slot. Its values are tokens,  *)
(* which MCApcPersist justifies.                                              *)
EXTENDS ApcCache, MCApcPersist

CONSTANTS p1, p2, k1, k2

OneSlot == k1 :> 0 @@ k2 :> 0
Symmetry == Permutations(Proc)
=============================================================================
