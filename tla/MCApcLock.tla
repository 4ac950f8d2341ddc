------------------------------ MODULE MCApcLock ------------------------------
(* Instances of the lock: one thread in each process. *)
EXTENDS ApcLock, TLC

CONSTANTS t1, t2, t3, p1, p2, p3

TwoThreads   == t1 :> p1 @@ t2 :> p2
ThreeThreads == t1 :> p1 @@ t2 :> p2 @@ t3 :> p3

\* A permutation of the threads takes their processes along.
Symmetry ==
  {f \in Permutations(Thread \cup Process) :
     \A t \in Thread : f[t] \in Thread /\ f[PidOf[t]] = PidOf[f[t]]}
=============================================================================
