------------------------------ MODULE ApcRWLock ------------------------------
(***************************************************************************)
(* What apc_lock.h promises to the cache and to the allocator: a           *)
(* readers/writer lock shared by processes that may die.  A reader that    *)
(* dies keeps its share of the lock (nothing ever gives it back); a writer *)
(* that dies keeps the lock until a live process revokes it.  Acquiring,   *)
(* releasing and revoking are single steps here; ApcLock gives the atomic  *)
(* operations on shared memory that the Windows build implements them by.  *)
(***************************************************************************)
EXTENDS FiniteSets

CONSTANTS
  Thread,    \* threads that use the lock
  Process,   \* the processes they run in
  PidOf      \* PidOf[t]: the process of thread t

VARIABLES
  readHolders,   \* threads inside a read-side critical section
  writeHolders,  \* threads inside a write-side critical section
  running        \* running[p]: process p has not died

rwVars == <<readHolders, writeHolders, running>>

Runs(t) == running[PidOf[t]]

Init ==
  /\ readHolders = {}
  /\ writeHolders = {}
  /\ running = [p \in Process |-> TRUE]

AcquireRead(t) ==
  /\ Runs(t)
  /\ writeHolders = {}
  /\ t \notin readHolders
  /\ readHolders' = readHolders \cup {t}
  /\ UNCHANGED <<writeHolders, running>>

AcquireWrite(t) ==
  /\ Runs(t)
  /\ readHolders = {} /\ writeHolders = {}
  /\ writeHolders' = {t}
  /\ UNCHANGED <<readHolders, running>>

ReleaseRead(t) ==
  /\ Runs(t)
  /\ t \in readHolders
  /\ readHolders' = readHolders \ {t}
  /\ UNCHANGED <<writeHolders, running>>

ReleaseWrite(t) ==
  /\ Runs(t)
  /\ t \in writeHolders
  /\ writeHolders' = writeHolders \ {t}
  /\ UNCHANGED <<readHolders, running>>

\* Only a writer whose process is dead loses the lock without releasing it.
Revoke(t) ==
  /\ t \in writeHolders
  /\ ~Runs(t)
  /\ writeHolders' = writeHolders \ {t}
  /\ UNCHANGED <<readHolders, running>>

Die(p) ==
  /\ running[p]
  /\ running' = [running EXCEPT ![p] = FALSE]
  /\ UNCHANGED <<readHolders, writeHolders>>

Next ==
  \/ \E t \in Thread : \/ AcquireRead(t) \/ AcquireWrite(t)
                       \/ ReleaseRead(t) \/ ReleaseWrite(t)
                       \/ Revoke(t)
  \/ \E p \in Process : Die(p)

Spec == Init /\ [][Next]_rwVars
=============================================================================
