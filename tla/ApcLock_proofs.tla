---------------------------- MODULE ApcLock_proofs ----------------------------
(***************************************************************************)
(* For any number of threads and processes and any number of crashes, the  *)
(* lock of apc_lock.c excludes writers from readers and from each other,   *)
(* never takes the lock from a live writer, and implements the abstract    *)
(* lock of ApcRWLock -- as long as the pid of a dead process is not given  *)
(* to a new one (~PidReuse) and OpenProcess fails on no live process       *)
(* (~OpenMayFail).  The reader count needs only the former.  A dead        *)
(* process that counts as running (MayExit259) does no harm to safety.     *)
(***************************************************************************)
EXTENDS ApcLock, FiniteSetTheorems, TLAPS

(***************************************************************************)
(* The inductive invariant follows the one token the three words encode:   *)
(* who may lower the flag.  A thread has the token from its successful     *)
(* compare-and-swap on writer, or on the pid of a dead writer, until it    *)
(* stores writer = 0; it is hidden while writer_pid does not name it.  A   *)
(* dead writer has lost the token once its pid was swapped out.            *)
(***************************************************************************)
Hidden == {"w_pid", "w_unlock", "w_giveup", "r_clear", "w_clear"}
Published == {"w_drain", "writing", "w_abort"}

Dead(pid) == pid \in Process /\ ~alive[pid]

HasToken(t) ==
  \/ pc[t] \in Hidden
  \/ pc[t] \in Published /\ writer_pid = PidOf[t]

OneToken == \A t, u \in Thread : HasToken(t) /\ HasToken(u) => t = u
TokenRaisesFlag == \A t \in Thread : HasToken(t) => writer = 1
PidRaisesFlag == writer_pid # NoPid => writer = 1
HiddenHasNoPid == \A t \in Thread : pc[t] \in Hidden => writer_pid = NoPid
LivePublished ==
  \A t \in Thread : pc[t] \in Published /\ Live(t) => writer_pid = PidOf[t]
RevokersSawDead ==
  \A t \in Thread : pc[t] \in {"r_cas", "w_cas", "w_tcas"} => Dead(expected[t])
NoReaderWithWriter ==
  \A t, u \in Thread :
    pc[t] = "reading" /\ pc[u] = "writing" => writer_pid # PidOf[u]

TokenInv ==
  /\ OneToken
  /\ TokenRaisesFlag
  /\ PidRaisesFlag
  /\ HiddenHasNoPid
  /\ LivePublished
  /\ RevokersSawDead
  /\ NoReaderWithWriter

CountInv == TypeOK /\ ReadersCounted
IInv == CountInv /\ TokenInv

\* If OpenProcess never fails on a live process, who is found dead is dead.
LEMMA FoundDeadIsDead ==
  ASSUME TypeOK, ~OpenMayFail, NEW pid \in Pid, FoundDead(pid)
  PROVE  Dead(pid)
<1>1. pid \in Process /\ pid # NoPid
  BY DEF FoundDead, Pid
<1>2. ~alive[pid] \/ OpenMayFail
  BY <1>1 DEF FoundDead, ProcessAlive
<1>3. QED
  BY <1>1, <1>2 DEF Dead

-----------------------------------------------------------------------------
(* The threads that readers counts, and how a step moves one of them. *)

InCount == {"r_dbl", "r_back", "reading"}
CountedThreads == {t \in Thread : Counted(t)}

LEMMA CountedFinite ==
  /\ IsFiniteSet(CountedThreads)
  /\ Cardinality(CountedThreads) \in Nat
<1>1. CountedThreads \in SUBSET Thread
  BY DEF CountedThreads
<1>2. IsFiniteSet(CountedThreads)
  BY <1>1, ThreadAssumption, FS_Subset
<1>3. QED
  BY <1>2, FS_CardinalityType

\* A step that keeps the moved thread on its side of the count keeps the count.
LEMMA CountKept ==
  ASSUME TypeOK, NEW t \in Thread, NEW l,
         pc' = [pc EXCEPT ![t] = l], (l \in InCount) <=> Counted(t)
  PROVE  CountedThreads' = CountedThreads
BY DEF TypeOK, CountedThreads, Counted, InCount

\* Entering the count adds one thread to it, leaving it removes one.
LEMMA CountEntered ==
  ASSUME TypeOK, NEW t \in Thread, NEW l \in InCount, ~Counted(t),
         pc' = [pc EXCEPT ![t] = l]
  PROVE  Cardinality(CountedThreads') = Cardinality(CountedThreads) + 1
<1>1. CountedThreads' = CountedThreads \cup {t}
  BY DEF TypeOK, CountedThreads, Counted, InCount
<1>2. t \notin CountedThreads
  BY DEF CountedThreads
<1>3. QED
  BY <1>1, <1>2, CountedFinite, FS_AddElement

LEMMA CountLeft ==
  ASSUME TypeOK, NEW t \in Thread, NEW l, l \notin InCount, Counted(t),
         pc' = [pc EXCEPT ![t] = l]
  PROVE  /\ Cardinality(CountedThreads') = Cardinality(CountedThreads) - 1
         /\ Cardinality(CountedThreads) > 0
<1>1. CountedThreads' = CountedThreads \ {t}
  BY DEF TypeOK, CountedThreads, Counted, InCount
<1>2. t \in CountedThreads
  BY DEF CountedThreads
<1>3. Cardinality(CountedThreads') = Cardinality(CountedThreads) - 1
  BY <1>1, <1>2, CountedFinite, FS_RemoveElement
<1>4. Cardinality(CountedThreads) # 0
  BY <1>2, CountedFinite, FS_EmptySet
<1>5. QED
  BY <1>3, <1>4, CountedFinite

-----------------------------------------------------------------------------
(* readers is exact. *)

LEMMA ReadersStep ==
  ASSUME TypeOK, ReadersCounted, ~PidReuse, [Next]_vars
  PROVE  ReadersCounted' /\ readers' \in Nat
<1> USE DEF ReadersCounted
<1>0. readers = Cardinality(CountedThreads) /\ readers \in Nat
  BY CountedFinite DEF CountedThreads
<1> SUFFICES readers' = Cardinality(CountedThreads') /\ readers' \in Nat
  BY DEF CountedThreads
<1>1. ASSUME NEW t \in Thread, NEW l, Goto(t, l), UNCHANGED readers,
             (l \in InCount) <=> Counted(t)
      PROVE  readers' = Cardinality(CountedThreads') /\ readers' \in Nat
  BY <1>0, <1>1, CountKept DEF Goto
<1>2. ASSUME NEW t \in Thread, RInc(t)
      PROVE  readers' = Cardinality(CountedThreads') /\ readers' \in Nat
  <2>1. ~Counted(t) /\ pc' = [pc EXCEPT ![t] = "r_dbl"] /\ readers' = readers + 1
    BY <1>2 DEF RInc, At, Goto, Counted
  <2>2. Cardinality(CountedThreads') = Cardinality(CountedThreads) + 1
    <3>1. "r_dbl" \in InCount
      BY DEF InCount
    <3>2. QED
      BY <2>1, <3>1, CountEntered
  <2>3. QED
    BY <1>0, <2>1, <2>2
<1>3. ASSUME NEW t \in Thread, RBack(t) \/ RUnlock(t)
      PROVE  readers' = Cardinality(CountedThreads') /\ readers' \in Nat
  <2>1. PICK l \in {"r_wait", "idle"} : pc' = [pc EXCEPT ![t] = l]
    BY <1>3 DEF RBack, RUnlock, DropReader, Goto
  <2>2. Counted(t) /\ readers' = readers - 1
    BY <1>3 DEF RBack, RUnlock, DropReader, At, Counted
  <2>3. l \notin InCount
    BY DEF InCount
  <2>4. /\ Cardinality(CountedThreads') = Cardinality(CountedThreads) - 1
        /\ Cardinality(CountedThreads) > 0
    BY <2>1, <2>2, <2>3, CountLeft
  <2>5. QED
    BY <1>0, <2>2, <2>4
<1>4. ASSUME NEW t \in Thread, RDouble(t)
      PROVE  readers' = Cardinality(CountedThreads') /\ readers' \in Nat
  <2>1. PICK l \in {"reading", "r_back"} : Goto(t, l)
    BY <1>4 DEF RDouble
  <2>2. QED
    BY <1>1, <1>4, <2>1 DEF RDouble, At, Counted, InCount, lock
<1>5. ASSUME NEW t \in Thread,
             \/ RLock(t) \/ RWait(t) \/ RRead(t) \/ RCheck(t) \/ RReset(t)
             \/ RCas(t) \/ RClear(t) \/ WLock(t) \/ WTry(t) \/ WPid(t)
             \/ WDrain(t) \/ WDrainTimeout(t) \/ WAbort(t) \/ WGiveUp(t)
             \/ WRead(t) \/ WCheck(t) \/ WCas(t) \/ WTimer(t) \/ WTimerCas(t) \/ WReset(t) \/ WClear(t)
             \/ WUnlock(t) \/ WRelease(t)
      PROVE  readers' = Cardinality(CountedThreads') /\ readers' \in Nat
  <2>1. ~Counted(t) /\ UNCHANGED readers
    BY <1>5 DEF RLock, RWait, RRead, RCheck, RReset, RCas, RClear, WLock, WTry,
       WPid, WDrain, WDrainTimeout, WAbort, WGiveUp, WRead, WCheck, WCas, WTimer, WTimerCas,
       WReset, WClear, WUnlock, WRelease, ReadHolder, ResetTimer, CasHolder,
       ClearPid, ClearWriter, At, Counted, lock
  <2>2. \E l \in {"r_wait", "r_inc", "r_read", "r_check", "r_cas", "r_reset",
                  "r_clear", "w_try", "w_pid", "w_read", "w_drain", "writing",
                  "w_abort", "w_giveup", "idle", "w_check", "w_cas", "w_timer",
                  "w_clear", "w_tcas", "w_reset", "w_unlock"} : Goto(t, l)
    BY <1>5 DEF RLock, RWait, RRead, RCheck, RReset, RCas, RClear, WLock, WTry,
       WPid, WDrain, WDrainTimeout, WAbort, WGiveUp, WRead, WCheck, WCas, WTimer, WTimerCas,
       WReset, WClear, WUnlock, WRelease, ReadHolder, ResetTimer, CasHolder,
       ClearPid, ClearWriter
  <2>3. QED
    BY <1>1, <2>1, <2>2 DEF InCount
<1>6. ASSUME NEW p \in Process, Crash(p)
      PROVE  readers' = Cardinality(CountedThreads') /\ readers' \in Nat
  <2>1. UNCHANGED <<readers, pc>>
    BY <1>6 DEF Crash, lock
  <2>2. CountedThreads' = CountedThreads
    BY <2>1 DEF CountedThreads, Counted
  <2>3. QED
    BY <1>0, <2>1, <2>2
<1>7. ASSUME UNCHANGED vars
      PROVE  readers' = Cardinality(CountedThreads') /\ readers' \in Nat
  <2>1. CountedThreads' = CountedThreads /\ readers' = readers
    BY <1>7 DEF vars, CountedThreads, Counted
  <2>2. QED
    BY <1>0, <2>1
<1>8. \A p \in Process : ~ReusePid(p)
  BY DEF ReusePid
<1>9. QED
  BY <1>2, <1>3, <1>4, <1>5, <1>6, <1>7, <1>8 DEF Next, Step

-----------------------------------------------------------------------------
(* Types. *)

LEMMA TypeStep ==
  ASSUME TypeOK, readers' \in Nat, ~PidReuse, [Next]_vars
  PROVE  TypeOK'
<1> USE PidOfAssumption DEF TypeOK, Pid, lock, locals, System
<1>1. ASSUME NEW t \in Thread,
             RWait(t) \/ RRead(t) \/ RCheck(t) \/ RReset(t) \/ RCas(t)
      PROVE  TypeOK'
  BY <1>1 DEF RWait, RRead, RCheck, RReset, RCas, ReadHolder, ResetTimer,
     CasHolder, Goto, At, ForgetExpected, ReaderPC, WriterPC
<1>2. ASSUME NEW t \in Thread,
             \/ RLock(t) \/ RClear(t) \/ RInc(t) \/ RDouble(t) \/ RBack(t)
             \/ RUnlock(t)
      PROVE  TypeOK'
  BY <1>2 DEF RLock, RClear, RInc, RDouble, RBack, RUnlock, DropReader, Goto,
     At, ForgetExpected, ForgetLocals, ReaderPC, WriterPC
<1>3. ASSUME NEW t \in Thread,
             \/ WLock(t) \/ WTry(t) \/ WPid(t) \/ WDrain(t)
             \/ WDrainTimeout(t) \/ WAbort(t) \/ WGiveUp(t) \/ WUnlock(t) \/ WRelease(t) \/ WClear(t)
      PROVE  TypeOK'
  BY <1>3 DEF WLock, WTry, WPid, WDrain, WDrainTimeout, WAbort, WGiveUp, WUnlock, WRelease,
     WClear, ClearPid, ClearWriter, Goto, At, ForgetExpected, ForgetLocals,
     ReaderPC, WriterPC
<1>4. ASSUME NEW t \in Thread,
             \/ WRead(t) \/ WCheck(t) \/ WCas(t) \/ WTimer(t)
             \/ WTimerCas(t) \/ WReset(t)
      PROVE  TypeOK'
  BY <1>4 DEF WRead, WCheck, WCas, WTimer, WTimerCas, WReset, ReadHolder,
     ResetTimer, CasHolder, Goto, At, ForgetExpected, ReaderPC, WriterPC
<1>5. ASSUME NEW p \in Process, Crash(p)
      PROVE  TypeOK'
  BY <1>5, BoundAssumption DEF Crash
<1>6. CASE UNCHANGED vars
  BY <1>6 DEF vars
<1>7. \A p \in Process : ~ReusePid(p)
  BY DEF ReusePid
<1>8. QED
  BY <1>1, <1>2, <1>3, <1>4, <1>5, <1>6, <1>7 DEF Next, Step

-----------------------------------------------------------------------------
(* The token is never duplicated. *)

\* A step of a thread that holds no token, takes none, and leaves the three
\* words alone, as every step of the spin loops does.
LEMMA TokenKept ==
  ASSUME TypeOK, TokenInv, NEW t \in Thread, NEW l,
         pc' = [pc EXCEPT ![t] = l], UNCHANGED <<writer, writer_pid, alive>>,
         pc[t] \notin Hidden \cup Published, l \notin Hidden \cup Published,
         l # "reading" \/ writer = 0,
         l \in {"r_cas", "w_cas", "w_tcas"} => Dead(expected'[t]),
         \A u \in Thread : u # t => expected'[u] = expected[u]
  PROVE  TokenInv'
BY DEF TypeOK, TokenInv, OneToken, TokenRaisesFlag, PidRaisesFlag, HasToken,
   HiddenHasNoPid, LivePublished, RevokersSawDead, NoReaderWithWriter, Hidden,
   Published, Live, Dead

LEMMA TokenStep ==
  ASSUME IInv, ~PidReuse, ~OpenMayFail, [Next]_vars
  PROVE  TokenInv'
<1>0. TypeOK /\ TokenInv /\ readers = Cardinality(CountedThreads)
  BY DEF IInv, CountInv, ReadersCounted, CountedThreads
<1>a. \A pid \in Pid : FoundDead(pid) => Dead(pid)
  BY <1>0, FoundDeadIsDead
<1>b. /\ \A t \in Thread : expected[t] \in Pid
      /\ \A t \in Thread : timeoutPid[t] # NoTimer => timeoutPid[t] \in Pid
  BY <1>0 DEF TypeOK
<1> USE <1>0
\* The spin loops.
<1>1. ASSUME NEW t \in Thread,
             \/ RLock(t) \/ RWait(t) \/ RRead(t) \/ RCheck(t) \/ RReset(t)
             \/ RInc(t) \/ RDouble(t) \/ RBack(t)
      PROVE  TokenInv'
  <2>1. UNCHANGED <<writer, writer_pid, alive>>
        /\ pc[t] \notin Hidden \cup Published
        /\ \A u \in Thread : u # t => expected'[u] = expected[u]
    BY <1>1 DEF RLock, RWait, RRead, RCheck, RReset, RInc, RDouble, RBack,
       ReadHolder, ResetTimer, DropReader, At, ForgetLocals, ForgetExpected,
       Hidden, Published, System, lock, locals, TypeOK
  <2>2. PICK l \in {"r_wait", "r_inc", "r_read", "r_check", "r_cas", "r_reset",
                    "r_dbl", "reading", "r_back"} :
             /\ pc' = [pc EXCEPT ![t] = l]
             /\ l # "reading" \/ writer = 0
             /\ l = "r_cas" => Dead(expected'[t])
    BY <1>1, <1>a, <1>b
       DEF RLock, RWait, RRead, RCheck, RReset, RInc, RDouble, RBack,
           ReadHolder, ResetTimer, DropReader, Goto, Dead, locals, TypeOK
  <2>3. QED
    BY <2>1, <2>2, TokenKept DEF Hidden, Published
<1>2. ASSUME NEW t \in Thread,
             WLock(t) \/ WRead(t) \/ WCheck(t) \/ WTimer(t) \/ WReset(t)
      PROVE  TokenInv'
  <2>1. UNCHANGED <<writer, writer_pid, alive>>
        /\ pc[t] \notin Hidden \cup Published
        /\ \A u \in Thread : u # t => expected'[u] = expected[u]
    BY <1>2 DEF WLock, WRead, WCheck, WTimer, WReset, ReadHolder, ResetTimer,
       At, ForgetLocals, ForgetExpected, Hidden, Published, System, lock,
       locals, TypeOK
  <2>2. PICK l \in {"w_try", "w_check", "w_cas", "w_timer", "w_tcas",
                    "w_reset"} :
             /\ pc' = [pc EXCEPT ![t] = l]
             /\ l \in {"w_cas", "w_tcas"} => Dead(expected'[t])
    BY <1>2, <1>a, <1>b
       DEF WLock, WRead, WCheck, WTimer, WReset, ReadHolder, ResetTimer, Goto,
           Dead, locals, TypeOK
  <2>3. QED
    BY <2>1, <2>2, TokenKept DEF Hidden, Published
\* Revocation moves the token from a dead writer to its revoker.
<1>3. ASSUME NEW t \in Thread, RCas(t) \/ WCas(t) \/ WTimerCas(t)
      PROVE  TokenInv'
  <2>1. pc[t] \in {"r_cas", "w_cas", "w_tcas"} /\ Live(t)
    BY <1>3 DEF RCas, WCas, WTimerCas, CasHolder, At
  <2>2. Dead(expected[t])
    BY <2>1 DEF TokenInv, RevokersSawDead
  <2>3. UNCHANGED <<writer, alive>>
        /\ \A u \in Thread : u # t => expected'[u] = expected[u]
    BY <1>3 DEF RCas, WCas, WTimerCas, CasHolder, ForgetExpected, System, TypeOK
  <2>4. CASE writer_pid = expected[t]
    <3>1. PICK l \in {"r_clear", "w_clear"} :
            writer_pid' = NoPid /\ pc' = [pc EXCEPT ![t] = l]
      BY <1>3, <2>4 DEF RCas, WCas, WTimerCas, CasHolder, Goto
    <3>2. writer_pid \in Process /\ ~alive[writer_pid]
      BY <2>2, <2>4 DEF Dead
    <3>3. writer = 1
      BY <3>2, NoPidAssumption DEF TokenInv, PidRaisesFlag
    <3>4. \A u \in Thread : u # t => pc'[u] = pc[u]
      BY <3>1 DEF TypeOK
    <3>5. \A u \in Thread : pc'[u] \in Published => u # t /\ ~Live(u)
      BY <3>1, <3>2, <3>4 DEF TypeOK, TokenInv, LivePublished, Published, Live
    <3>6. \A u \in Thread : pc'[u] \in Hidden => u = t
      BY <3>2, <3>4, NoPidAssumption DEF TokenInv, HiddenHasNoPid
    <3>7. \A u \in Thread : writer_pid' # PidOf[u]
      BY <3>1, NoPidAssumption, PidOfAssumption
    <3>8. \A u \in Thread : HasToken(u)' => u = t
      BY <3>6, <3>7 DEF HasToken
    <3>9. QED
      BY <2>3, <3>1, <3>3, <3>4, <3>5, <3>6, <3>7, <3>8
         DEF TypeOK, TokenInv, OneToken, TokenRaisesFlag, PidRaisesFlag,
             HiddenHasNoPid, LivePublished, RevokersSawDead, Dead, Live,
             NoReaderWithWriter
  <2>5. CASE writer_pid # expected[t]
    <3>1. PICK l \in {"r_inc", "w_timer", "w_reset"} :
            UNCHANGED <<writer_pid, expected>> /\ pc' = [pc EXCEPT ![t] = l]
      BY <1>3, <2>5 DEF RCas, WCas, WTimerCas, CasHolder, Goto
    <3>2. QED
      BY <2>1, <2>3, <3>1, TokenKept DEF Hidden, Published
  <2>6. QED
    BY <2>4, <2>5
\* Lowering the flag gives the token up.
<1>4. ASSUME NEW t \in Thread, RClear(t) \/ WClear(t) \/ WGiveUp(t) \/ WRelease(t)
      PROVE  TokenInv'
  <2>1. pc[t] \in Hidden /\ writer' = 0 /\ UNCHANGED <<writer_pid, alive>>
        /\ \A u \in Thread : u # t => expected'[u] = expected[u]
    BY <1>4 DEF RClear, WClear, WGiveUp, WRelease, ClearWriter, At, Hidden,
       ForgetLocals, ForgetExpected, System, locals, TypeOK
  <2>2. PICK l \in {"r_inc", "w_try", "idle"} : pc' = [pc EXCEPT ![t] = l]
    BY <1>4 DEF RClear, WClear, WGiveUp, WRelease, ClearWriter, Goto
  <2>3. writer_pid = NoPid
    BY <2>1 DEF TokenInv, HiddenHasNoPid
  <2>4. \A u \in Thread : ~HasToken(u)'
    BY <2>1, <2>2, <2>3, NoPidAssumption, PidOfAssumption
       DEF TypeOK, TokenInv, OneToken, HasToken, Hidden, Published
  <2>5. QED
    BY <2>1, <2>2, <2>3, <2>4, NoPidAssumption, PidOfAssumption
       DEF TypeOK, TokenInv, OneToken, TokenRaisesFlag, PidRaisesFlag, HasToken,
       HiddenHasNoPid, LivePublished, RevokersSawDead, NoReaderWithWriter,
       Published, Live, Dead
<1>5. ASSUME NEW t \in Thread, WTry(t)
      PROVE  TokenInv'
  <2>0. pc[t] = "w_try" /\ UNCHANGED <<writer_pid, alive>>
        /\ \A u \in Thread : u # t => expected'[u] = expected[u]
    BY <1>5 DEF WTry, At, ForgetLocals, ForgetExpected, System, locals, TypeOK
  <2>1. CASE writer = 0
    <3>1. writer' = 1 /\ pc' = [pc EXCEPT ![t] = "w_pid"]
      BY <1>5, <2>1 DEF WTry, Goto
    <3>2. writer_pid = NoPid /\ \A u \in Thread : ~HasToken(u)
      BY <2>1 DEF TokenInv, PidRaisesFlag, TokenRaisesFlag
    <3>3. QED
      BY <2>0, <3>1, <3>2, NoPidAssumption, PidOfAssumption
         DEF TypeOK, TokenInv, OneToken, TokenRaisesFlag, PidRaisesFlag,
         HasToken, HiddenHasNoPid, LivePublished, RevokersSawDead,
         NoReaderWithWriter, Hidden, Published, Live, Dead
  <2>2. CASE writer # 0
    <3>1. pc' = [pc EXCEPT ![t] = "w_read"] /\ UNCHANGED writer
      BY <1>5, <2>2 DEF WTry, Goto
    <3>2. QED
      BY <2>0, <3>1, TokenKept DEF Hidden, Published
  <2>3. QED
    BY <2>1, <2>2
\* Publishing the pid keeps the token with its thread.
<1>6. ASSUME NEW t \in Thread, WPid(t)
      PROVE  TokenInv'
  <2>1. pc[t] = "w_pid" /\ Live(t) /\ writer_pid' = PidOf[t]
        /\ pc' = [pc EXCEPT ![t] = "w_drain"]
        /\ UNCHANGED <<writer, expected, alive>>
    BY <1>6 DEF WPid, At, Goto, System, locals
  <2>2. writer_pid = NoPid /\ writer = 1
    BY <2>1 DEF TokenInv, HiddenHasNoPid, TokenRaisesFlag, HasToken, Hidden
  <2>3. \A u \in Thread : pc[u] \in Published => ~Live(u)
    BY <2>2, NoPidAssumption, PidOfAssumption DEF TokenInv, LivePublished
  <2>4. \A u \in Thread : pc[u] \in Published => PidOf[u] # PidOf[t]
    BY <2>1, <2>3 DEF Live
  <2>5. \A u \in Thread : pc[u] \in Hidden => u = t
    BY <2>1 DEF TokenInv, OneToken, HasToken, Hidden
  <2>6. QED
    BY <2>1, <2>2, <2>3, <2>4, <2>5
       DEF TypeOK, TokenInv, OneToken, TokenRaisesFlag, PidRaisesFlag, HasToken,
       HiddenHasNoPid, LivePublished, RevokersSawDead, NoReaderWithWriter,
       Hidden, Published, Live, Dead
\* The writer enters only when no thread is counted, so none is reading.
<1>7. ASSUME NEW t \in Thread, WDrain(t) \/ WDrainTimeout(t)
      PROVE  TokenInv'
  <2>1. /\ pc[t] = "w_drain" /\ Live(t)
        /\ UNCHANGED <<writer, writer_pid, expected, alive>>
    BY <1>7 DEF WDrain, WDrainTimeout, At, System, lock, locals
  <2>2. PICK l \in {"writing", "w_abort"} :
          pc' = [pc EXCEPT ![t] = l] /\ (l = "writing" => readers = 0)
    BY <1>7 DEF WDrain, WDrainTimeout, Goto
  <2>3. readers = 0 => \A u \in Thread : pc[u] # "reading"
    BY CountedFinite, FS_EmptySet DEF CountedThreads, Counted
  <2>4. QED
    BY <2>1, <2>2, <2>3
       DEF TypeOK, TokenInv, OneToken, TokenRaisesFlag, PidRaisesFlag, HasToken,
       HiddenHasNoPid, LivePublished, RevokersSawDead, NoReaderWithWriter,
       Hidden, Published, Live, Dead
<1>8. ASSUME NEW t \in Thread, WAbort(t) \/ WUnlock(t)
      PROVE  TokenInv'
  <2>1. pc[t] \in Published /\ Live(t) /\ writer_pid' = NoPid
        /\ UNCHANGED <<writer, expected, alive>>
    BY <1>8 DEF WAbort, WUnlock, ClearPid, At, System, locals, Published
  <2>2. PICK l \in {"w_giveup", "w_unlock"} : pc' = [pc EXCEPT ![t] = l]
    BY <1>8 DEF WAbort, WUnlock, ClearPid, Goto
  <2>3. HasToken(t) /\ writer = 1 /\ writer_pid = PidOf[t]
    BY <2>1 DEF TokenInv, LivePublished, TokenRaisesFlag, HasToken
  <2>4. \A u \in Thread : pc[u] \in Hidden => u = t
    BY <2>3 DEF TokenInv, OneToken, HasToken
  <2>5. \A u \in Thread : pc[u] \in Published /\ Live(u) => u = t
    BY <2>3 DEF TokenInv, OneToken, HasToken, LivePublished
  <2>6. \A u \in Thread : u # t => pc'[u] = pc[u]
    BY <2>2 DEF TypeOK
  <2>7. pc'[t] \in Hidden /\ pc'[t] \notin Published
        /\ pc'[t] \notin {"r_cas", "w_cas", "w_tcas", "reading", "writing"}
    BY <2>2 DEF TypeOK, Hidden, Published
  <2>8. \A u \in Thread : writer_pid' # PidOf[u]
    BY <2>1, NoPidAssumption, PidOfAssumption
  <2>9. \A u \in Thread : HasToken(u)' => u = t
    BY <2>4, <2>6, <2>8 DEF HasToken
  <2>10. LivePublished'
    BY <2>1, <2>5, <2>6, <2>7 DEF LivePublished, Live
  <2>11. RevokersSawDead'
    BY <2>1, <2>6, <2>7 DEF TokenInv, RevokersSawDead, Dead
  <2>12. QED
    BY <2>1, <2>3, <2>8, <2>9, <2>10, <2>11
       DEF TokenInv, OneToken, TokenRaisesFlag, PidRaisesFlag, HiddenHasNoPid,
           NoReaderWithWriter
<1>9. ASSUME NEW t \in Thread, RUnlock(t)
      PROVE  TokenInv'
  <2>1. /\ pc[t] = "reading" /\ pc' = [pc EXCEPT ![t] = "idle"]
        /\ UNCHANGED <<writer, writer_pid, expected, alive>>
    BY <1>9 DEF RUnlock, DropReader, At, Goto, System, locals
  <2>2. QED
    BY <2>1, TokenKept DEF Hidden, Published
<1>10. ASSUME NEW p \in Process, Crash(p)
       PROVE  TokenInv'
  <2>1. /\ UNCHANGED <<writer, writer_pid, expected, pc>>
        /\ \A q \in Process : alive'[q] => alive[q]
    BY <1>10 DEF Crash, lock, locals, TypeOK
  <2>2. \A q \in Process : ~alive[q] => ~alive'[q]
    BY <1>10 DEF Crash, TypeOK
  <2>3. QED
    BY <2>1, <2>2, PidOfAssumption
       DEF TokenInv, OneToken, TokenRaisesFlag, PidRaisesFlag, HasToken,
       HiddenHasNoPid, LivePublished, RevokersSawDead, NoReaderWithWriter,
       Live, Dead
<1>11. CASE UNCHANGED vars
  BY <1>11 DEF vars, TokenInv, OneToken, TokenRaisesFlag, PidRaisesFlag,
     HasToken, HiddenHasNoPid, LivePublished, RevokersSawDead,
     NoReaderWithWriter, Live, Dead
<1>12. \A p \in Process : ~ReusePid(p)
  BY DEF ReusePid
<1>13. QED
  BY <1>1, <1>2, <1>3, <1>4, <1>5, <1>6, <1>7, <1>8, <1>9, <1>10, <1>11, <1>12
     DEF Next, Step

-----------------------------------------------------------------------------
(* The theorems. *)

LEMMA InitInv == Init => IInv
<1> SUFFICES ASSUME Init PROVE IInv
  OBVIOUS
<1>1. TypeOK
  BY BoundAssumption DEF Init, TypeOK, Pid
<1>2. TokenInv
  BY DEF Init, TokenInv, OneToken, TokenRaisesFlag, PidRaisesFlag, HasToken,
     HiddenHasNoPid, LivePublished, RevokersSawDead, NoReaderWithWriter,
     Hidden, Published
<1>3. {t \in Thread : Counted(t)} = {}
  BY DEF Init, Counted
<1>4. ReadersCounted
  BY <1>3, FS_EmptySet DEF Init, ReadersCounted
<1>5. QED
  BY <1>1, <1>2, <1>4 DEF IInv, CountInv

LEMMA CountStep ==
  ASSUME CountInv, ~PidReuse, [Next]_vars
  PROVE  CountInv'
BY ReadersStep, TypeStep DEF CountInv

LEMMA InvStep ==
  ASSUME IInv, ~PidReuse, ~OpenMayFail, [Next]_vars
  PROVE  IInv'
BY CountStep, TokenStep DEF IInv

\* Types and count, whatever process_alive() answers.
LEMMA CountInvariant ==
  ASSUME ~PidReuse PROVE Spec => []CountInv
<1>1. Init => CountInv
  BY InitInv DEF IInv
<1>2. CountInv /\ [Next]_vars => CountInv'
  BY CountStep
<1>3. QED
  BY <1>1, <1>2, PTL DEF Spec

\* The three words and the locals keep their types; readers never goes below 0
\* although it is decremented without a check.
THEOREM TypeCorrect ==
  ASSUME ~PidReuse PROVE Spec => []TypeOK
BY CountInvariant, PTL DEF CountInv

\* readers is the number of threads between increment and decrement, even
\* where live writers are taken for dead.
THEOREM ReadersExact ==
  ASSUME ~PidReuse PROVE Spec => []ReadersCounted
BY CountInvariant, PTL DEF CountInv

\* The invariant the other theorems follow from.
THEOREM LockInvariant ==
  ASSUME ~PidReuse, ~OpenMayFail PROVE Spec => []IInv
<1>1. IInv /\ [Next]_vars => IInv'
  BY InvStep
<1>2. QED
  BY InitInv, <1>1, PTL DEF Spec

\* Writers exclude readers and each other, for any number of threads,
\* processes, crashes and concurrent revocations, under the same conditions.
THEOREM Exclusion ==
  ASSUME ~PidReuse, ~OpenMayFail PROVE Spec => []MutualExclusion
<1>1. IInv => MutualExclusion
  BY DEF IInv, CountInv, TokenInv, OneToken, HasToken, LivePublished, NoReaderWithWriter,
     MutualExclusion, Writing, Reading, At, Published
<1>2. QED
  BY LockInvariant, <1>1, PTL

\* Only a dead writer's lock is revoked, if pids are not reused and OpenProcess
\* fails on no live process.
THEOREM LiveWriterKeepsLock ==
  ASSUME ~PidReuse, ~OpenMayFail PROVE Spec => []OnlyDeadWritersRevoked
<1>1. IInv => OnlyDeadWritersRevoked
  BY DEF IInv, CountInv, TokenInv, LivePublished, TokenRaisesFlag, HasToken, Published,
     OnlyDeadWritersRevoked
<1>2. QED
  BY LockInvariant, <1>1, PTL

-----------------------------------------------------------------------------
(* Refinement of the abstract lock. *)

Rd == {t \in Thread : pc[t] = "reading"}
Wr == {t \in Thread : pc[t] = "writing" /\ writer_pid = PidOf[t]}

\* What the invariant says of the two sets: Wr holds the token.
LEMMA HoldersFacts ==
  ASSUME IInv
  PROVE  /\ \A t \in Wr, u \in Thread : HasToken(u) => u = t
         /\ Wr # {} => writer = 1 /\ Rd = {}
         /\ \A t \in Thread : pc[t] \in Hidden => Wr = {}
BY NoPidAssumption, PidOfAssumption
   DEF IInv, CountInv, TokenInv, OneToken, HasToken, TokenRaisesFlag, HiddenHasNoPid,
       NoReaderWithWriter, Rd, Wr, Published

LEMMA InitAbstract == Init => Abstract!Init
BY NoPidAssumption, PidOfAssumption
   DEF Init, Abstract!Init

\* Steps that neither enter nor leave a critical section and leave writer_pid.
LEMMA AbstractStutter ==
  ASSUME TypeOK, NEW t \in Thread, NEW l,
         pc' = [pc EXCEPT ![t] = l], UNCHANGED <<writer_pid, alive>>,
         pc[t] \notin {"reading", "writing"}, l \notin {"reading", "writing"}
  PROVE  UNCHANGED <<Rd, Wr, alive>>
BY DEF TypeOK, Rd, Wr

LEMMA StepAbstract ==
  ASSUME IInv, ~PidReuse, ~OpenMayFail, [Next]_vars
  PROVE  [Abstract!Next]_(Abstract!rwVars)
<1> USE DEF Abstract!rwVars
<1>0. TypeOK
  BY DEF IInv, CountInv
<1> DEFINE Stutter == UNCHANGED <<Rd, Wr, alive>>
<1>a. Stutter => UNCHANGED Abstract!rwVars
  BY DEF Rd, Wr
<1>1. ASSUME NEW t \in Thread,
             \/ RLock(t) \/ RWait(t) \/ RRead(t) \/ RCheck(t) \/ RReset(t)
             \/ RClear(t) \/ RInc(t) \/ RBack(t) \/ WLock(t) \/ WTry(t)
             \/ WGiveUp(t) \/ WRead(t) \/ WCheck(t) \/ WTimer(t) \/ WReset(t)
             \/ WClear(t) \/ WRelease(t) \/ WDrainTimeout(t)
      PROVE  Stutter
  <2>1. pc[t] \notin {"reading", "writing"} /\ UNCHANGED <<writer_pid, alive>>
    BY <1>1 DEF RLock, RWait, RRead, RCheck, RReset, RClear, RInc, RBack, WLock,
       WTry, WGiveUp, WRead, WCheck, WTimer, WReset, WClear, WRelease,
       WDrainTimeout, ReadHolder, ResetTimer, DropReader, ClearWriter, At, lock, System
  <2>2. \E l \in {"r_wait", "r_inc", "r_read", "r_check", "r_cas", "r_reset",
                  "r_dbl", "w_try", "w_pid", "w_read", "idle", "w_check",
                  "w_cas", "w_timer", "w_tcas", "w_reset", "w_abort"} : Goto(t, l)
    BY <1>1 DEF RLock, RWait, RRead, RCheck, RReset, RClear, RInc, RBack, WLock,
       WTry, WGiveUp, WRead, WCheck, WTimer, WReset, WClear, WRelease,
       WDrainTimeout, ReadHolder, ResetTimer, DropReader, ClearWriter
  <2>3. QED
    BY <1>0, <2>1, <2>2, AbstractStutter DEF Goto
\* A reader enters after its double check saw no flag.
<1>2. ASSUME NEW t \in Thread, RDouble(t)
      PROVE  Stutter \/ Abstract!AcquireRead(t)
  <2>1. pc[t] = "r_dbl" /\ Live(t) /\ UNCHANGED <<writer_pid, alive>>
    BY <1>2 DEF RDouble, At, lock, System
  <2>2. CASE writer = 0
    <3>1. pc' = [pc EXCEPT ![t] = "reading"]
      BY <1>2, <2>2 DEF RDouble, Goto
    <3>2. Wr = {}
      BY <2>2, HoldersFacts
    <3>3. Rd' = Rd \cup {t} /\ Wr' = Wr /\ t \notin Rd
      BY <1>0, <2>1, <3>1 DEF TypeOK, Rd, Wr
    <3>4. QED
      BY <2>1, <3>2, <3>3
         DEF Abstract!AcquireRead, Abstract!Runs, Live, Rd, Wr
  <2>3. CASE writer # 0
    <3>1. pc' = [pc EXCEPT ![t] = "r_back"]
      BY <1>2, <2>3 DEF RDouble, Goto
    <3>2. QED
      BY <1>0, <2>1, <3>1, AbstractStutter
  <2>4. QED
    BY <2>2, <2>3
<1>3. ASSUME NEW t \in Thread, RUnlock(t)
      PROVE  Abstract!ReleaseRead(t)
  <2>1. /\ pc[t] = "reading" /\ Live(t) /\ pc' = [pc EXCEPT ![t] = "idle"]
        /\ UNCHANGED <<writer_pid, alive>>
    BY <1>3 DEF RUnlock, DropReader, At, Goto, System
  <2>2. Rd' = Rd \ {t} /\ Wr' = Wr /\ t \in Rd
    BY <1>0, <2>1 DEF TypeOK, Rd, Wr
  <2>3. QED
    BY <2>1, <2>2 DEF Abstract!ReleaseRead, Abstract!Runs, Live, Rd, Wr
\* A writer enters when the readers are drained; it has the only token.
<1>4. ASSUME NEW t \in Thread, WDrain(t)
      PROVE  Abstract!AcquireWrite(t)
  <2>1. /\ pc[t] = "w_drain" /\ Live(t) /\ readers = 0
        /\ pc' = [pc EXCEPT ![t] = "writing"] /\ UNCHANGED <<writer_pid, alive>>
    BY <1>4 DEF WDrain, At, Goto, lock, System
  <2>2. writer_pid = PidOf[t] /\ HasToken(t)
    BY <2>1 DEF IInv, CountInv, TokenInv, LivePublished, HasToken, Published
  <2>3. readers = Cardinality(CountedThreads)
    BY DEF IInv, CountInv, ReadersCounted, CountedThreads
  <2>4. Rd = {}
    BY <2>1, <2>3, CountedFinite, FS_EmptySet DEF CountedThreads, Counted, Rd
  <2>5. Wr = {}
    BY <2>1, <2>2, HoldersFacts DEF Wr
  <2>6. Rd' = Rd /\ Wr' = {t}
    BY <1>0, <2>1, <2>2, <2>5 DEF TypeOK, Rd, Wr
  <2>7. QED
    BY <2>1, <2>4, <2>5, <2>6
       DEF Abstract!AcquireWrite, Abstract!Runs, Live, Rd, Wr
\* The abstract lock is released when wunlock clears the pid.
<1>5. ASSUME NEW t \in Thread, WUnlock(t)
      PROVE  Abstract!ReleaseWrite(t)
  <2>1. /\ pc[t] = "writing" /\ Live(t) /\ pc' = [pc EXCEPT ![t] = "w_unlock"]
        /\ writer_pid' = NoPid /\ UNCHANGED alive
    BY <1>5 DEF WUnlock, ClearPid, At, Goto, System
  <2>2. t \in Wr
    BY <2>1 DEF IInv, CountInv, TokenInv, LivePublished, Wr, Published
  <2>3. Wr = {t}
    BY <2>2, HoldersFacts DEF Wr, HasToken, Published
  <2>4. Rd' = Rd /\ Wr' = {}
    BY <1>0, <2>1, NoPidAssumption, PidOfAssumption DEF TypeOK, Rd, Wr
  <2>5. QED
    BY <2>1, <2>3, <2>4 DEF Abstract!ReleaseWrite, Abstract!Runs, Live, Rd, Wr
\* Publishing or withdrawing the pid outside the critical section is hidden.
<1>6. ASSUME NEW t \in Thread, WPid(t) \/ WAbort(t)
      PROVE  Stutter
  <2>1. /\ pc[t] \in {"w_pid", "w_abort"} /\ Live(t) /\ UNCHANGED alive
        /\ writer_pid' \in {NoPid, PidOf[t]}
    BY <1>6 DEF WPid, WAbort, ClearPid, At, System
  <2>2. PICK l \in {"w_drain", "w_giveup"} : pc' = [pc EXCEPT ![t] = l]
    BY <1>6 DEF WPid, WAbort, ClearPid, Goto
  <2>3. HasToken(t)
    BY <2>1 DEF IInv, CountInv, TokenInv, LivePublished, HasToken, Published, Hidden
  <2>4. Wr = {}
    BY <2>1, <2>3, HoldersFacts DEF Wr
  <2>5. \A u \in Thread : pc[u] = "writing" => PidOf[u] # writer_pid'
    <3>1. SUFFICES ASSUME NEW u \in Thread, pc[u] = "writing",
                          PidOf[u] = writer_pid'
                   PROVE  FALSE
      OBVIOUS
    <3>2. PidOf[u] = PidOf[t]
      BY <2>1, <3>1, NoPidAssumption, PidOfAssumption
    <3>3. Live(u)
      BY <2>1, <3>2 DEF Live
    <3>4. u \in Wr
      BY <3>1, <3>3 DEF IInv, CountInv, TokenInv, LivePublished, Published, Wr
    <3>5. QED
      BY <2>4, <3>4
  <2>6. Rd' = Rd /\ Wr' = {}
    BY <1>0, <2>1, <2>2, <2>5 DEF TypeOK, Rd, Wr
  <2>7. QED
    BY <2>1, <2>4, <2>6
\* Swapping out the pid of a dead writer revokes the lock.
<1>7. ASSUME NEW t \in Thread, RCas(t) \/ WCas(t) \/ WTimerCas(t)
      PROVE  Stutter \/ \E u \in Thread : Abstract!Revoke(u)
  <2>1. pc[t] \in {"r_cas", "w_cas", "w_tcas"} /\ UNCHANGED alive
    BY <1>7 DEF RCas, WCas, WTimerCas, CasHolder, At, System
  <2>2. PICK l \in {"r_clear", "w_clear", "r_inc", "w_timer", "w_reset"} :
          /\ pc' = [pc EXCEPT ![t] = l]
          /\ \/ UNCHANGED writer_pid
             \/ writer_pid = expected[t] /\ writer_pid' = NoPid
    BY <1>7 DEF RCas, WCas, WTimerCas, CasHolder, Goto
  <2>3. CASE UNCHANGED writer_pid
    BY <1>0, <2>1, <2>2, <2>3, AbstractStutter
  <2>4. CASE writer_pid = expected[t] /\ writer_pid' = NoPid
    <3>1. Dead(writer_pid)
      BY <2>1, <2>4 DEF IInv, CountInv, TokenInv, RevokersSawDead
    <3>2. Rd' = Rd /\ Wr' = {}
      <4>1. \A u \in Thread : pc'[u] = "reading" <=> pc[u] = "reading"
        BY <1>0, <2>1, <2>2 DEF TypeOK
      <4>2. \A u \in Thread : writer_pid' # PidOf[u]
        BY <2>4, NoPidAssumption, PidOfAssumption
      <4>3. QED
        BY <4>1, <4>2 DEF Rd, Wr
    <3>3. CASE Wr = {}
      BY <2>1, <3>2, <3>3
    <3>4. ASSUME NEW u \in Wr
          PROVE  \E v \in Thread : Abstract!Revoke(v)
      <4>1. u \in Thread /\ ~alive[PidOf[u]]
        BY <3>1 DEF Wr, Dead
      <4>2. Wr = {u}
        BY HoldersFacts DEF Wr, HasToken, Published
      <4>3. Abstract!Revoke(u)
        BY <2>1, <3>2, <4>1, <4>2 DEF Abstract!Revoke, Abstract!Runs, Rd, Wr
      <4>4. QED
        BY <4>1, <4>3
    <3>5. QED
      BY <3>3, <3>4
  <2>5. QED
    BY <2>2, <2>3, <2>4
<1>8. ASSUME NEW p \in Process, Crash(p)
      PROVE  Abstract!Die(p)
  <2>1. Rd' = Rd /\ Wr' = Wr
    BY <1>8 DEF Crash, lock, Rd, Wr
  <2>2. QED
    BY <1>8, <2>1 DEF Crash, Abstract!Die, Rd, Wr
<1>9. CASE UNCHANGED vars
  BY <1>9, <1>a DEF vars, Rd, Wr
<1>10. \A p \in Process : ~ReusePid(p)
  BY DEF ReusePid
<1>11. QED
  BY <1>a, <1>1, <1>2, <1>3, <1>4, <1>5, <1>6, <1>7, <1>8, <1>9, <1>10
     DEF Next, Step, Abstract!Next

\* Seen through its critical sections, the protocol on the three shared words
\* is the abstract lock the cache and the allocator rely on.
THEOREM Refinement ==
  ASSUME ~PidReuse, ~OpenMayFail PROVE Spec => ImplementsRWLock
<1>1. IInv /\ [Next]_vars => [Abstract!Next]_(Abstract!rwVars)
  BY StepAbstract
<1>2. QED
  BY LockInvariant, InitAbstract, <1>1, PTL
     DEF Spec, ImplementsRWLock, Abstract!Spec
=============================================================================
