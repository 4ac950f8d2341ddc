---------------------------- MODULE MCApcIterator ----------------------------
(* Instances of the iterator: two keys share the first slot. *)
EXTENDS ApcIterator, TLC

CONSTANTS k1, k2, k3

TwoSlots == k1 :> 0 @@ k2 :> 0 @@ k3 :> 1
=============================================================================
