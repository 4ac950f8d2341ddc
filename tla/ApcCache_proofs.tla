---------------------------- MODULE ApcCache_proofs ----------------------------
(***************************************************************************)
(* Proofs about the cache.  First the control: who holds the write lock,   *)
(* at which step, and with which pointer.  Then the data: every critical   *)
(* section of the cache and of the allocator keeps the lists sound, the    *)
(* blocks apart, and every held entry in place.                            *)
(***************************************************************************)
EXTENDS ApcCache, ApcHeap_proofs

-----------------------------------------------------------------------------
(* Control *)

\* Types of what a process keeps; ptr and the entries are typed with the data.
LocalsOK ==
  /\ ncleanups \in Nat /\ now \in Time
  /\ owner \in Proc \cup {NoProc} /\ level \in [Proc -> {0, 1}]
  /\ pc \in [Proc -> PC] /\ op \in [Proc -> Op] /\ outer \in [Proc -> Key]
  /\ ptr = [p \in Proc |-> ptr[p]]
  /\ nuked \in [Proc -> BOOLEAN] /\ missed \in [Proc -> BOOLEAN]
  /\ snap \in [Proc -> [n : Nat, t : Time]]
  /\ count \in [Proc -> 0..MaxOps]

Expunging == {"avail", "compact", "contiguous"}
Holding == {"insert", "discard", "release", "copy"}
Storing == {"malloc", "snapshot", "expunge", "insert", "discard", "release"}
           \cup Expunging

ControlOf(p) ==
  /\ owner = p => pc[p] # "dead" /\ (level[p] = 1 \/ pc[p] \in Expunging)
  /\ pc[p] \in Expunging => owner = p
  /\ (level[p] = 1 /\ pc[p] # "dead") => owner = p /\ pc[p] # "idle"
  /\ pc[p] = "callback" => level[p] = 1 /\ op[p].kind = "entry"
  /\ pc[p] = "entry" => level[p] = 0 /\ op[p].kind = "entry"
  /\ pc[p] \in {"fetch", "exists", "delete"} => op[p].kind = pc[p]
  /\ pc[p] = "clear" => op[p].kind = "clear" /\ "clear" \in Ops
  /\ pc[p] = "update" => op[p].kind \in {"inc", "incagain"}
  /\ pc[p] \in Storing => op[p].len \in Lens
                       /\ op[p].kind \in {"store", "add", "inc", "entry"}
  /\ pc[p] = "update" /\ op[p].kind = "inc" => op[p].len \in Lens
  /\ pc[p] = "copy" => op[p].kind \in {"fetch", "entry"}
  /\ op[p].kind = "entry" => pc[p] \in {"entry", "dead"} \/ level[p] = 1
  /\ op[p].kind = "incagain" => pc[p] \in {"update", "dead"}
  /\ ptr[p] # 0 => pc[p] \in Holding \cup {"dead"}
Control == \A p \in Proc : ControlOf(p)

\* A step of p that leaves what the others keep, and gives or takes the lock
\* from nobody else, keeps the control of the others.
OthersKept(p) ==
  \A q \in Proc \ {p} : /\ pc'[q] = pc[q] /\ op'[q] = op[q] /\ ptr'[q] = ptr[q]
                        /\ level'[q] = level[q] /\ (owner' = q <=> owner = q)

LEMMA OnlyOne ==
  ASSUME Control, NEW p \in Proc, OthersKept(p), ControlOf(p)'
  PROVE  Control'
<1> SUFFICES ASSUME NEW q \in Proc PROVE ControlOf(q)'
  BY DEF Control
<1>1. CASE q = p
  BY <1>1
<1>2. CASE q # p
  BY <1>2 DEF Control, OthersKept, ControlOf
<1> QED
  BY <1>1, <1>2

\* Where a process is after its operation returned.
LEMMA Left ==
  ASSUME LocalsOK, NEW p \in Proc, Leave(p)
  PROVE  /\ InCallback(p) => pc'[p] = "callback" /\ op'[p].kind = "entry"
         /\ ~InCallback(p) => pc'[p] = "idle" /\ op'[p].kind = "none"
         /\ \A q \in Proc \ {p} : pc'[q] = pc[q] /\ op'[q] = op[q]
BY DEF LocalsOK, Leave, Goto, NoOp

LEMMA Returned ==
  ASSUME LocalsOK, NEW p \in Proc, Return(p)
  PROVE  /\ ptr'[p] = 0 /\ \A q \in Proc \ {p} : ptr'[q] = ptr[q]
         /\ op[p].kind = "inc" => /\ pc'[p] = "update" /\ op'[p].kind = "incagain"
                                  /\ UNCHANGED lockVars
         /\ op[p].kind = "entry" => /\ Leave(p) /\ owner' = NoProc /\ level'[p] = 0
                                    /\ \A q \in Proc \ {p} : level'[q] = level[q]
         /\ op[p].kind \notin {"inc", "entry"} => Leave(p) /\ UNCHANGED lockVars
         /\ \A q \in Proc \ {p} : pc'[q] = pc[q] /\ op'[q] = op[q]
BY DEF LocalsOK, Return, Leave, Goto, Op

LEMMA ReturnControl ==
  ASSUME LocalsOK, Control, NEW p \in Proc, Return(p),
         pc[p] \in {"malloc", "discard", "release", "copy", "callback"}
  PROVE  OthersKept(p) /\ ControlOf(p)'
<1> USE CacheAssumption DEF Holding, Expunging, Storing, ControlOf
<1>1. ControlOf(p) /\ level[p] \in {0, 1}
  BY DEF Control, LocalsOK
<1>2. CASE op[p].kind = "inc"
  BY <1>1, <1>2, Returned DEF OthersKept, lockVars
<1>3. CASE op[p].kind = "entry"
  <2>1. level[p] = 1 /\ owner = p /\ ~InCallback(p)
    BY <1>1, <1>3 DEF InCallback
  <2> QED
    BY <1>1, <1>3, <2>1, Returned, Left DEF OthersKept
<1>4. CASE op[p].kind \notin {"inc", "entry"}
  <2>1. /\ Leave(p) /\ UNCHANGED lockVars /\ ptr'[p] = 0
        /\ \A q \in Proc \ {p} : ptr'[q] = ptr[q]
    BY <1>4, Returned
  <2>2. InCallback(p) <=> level[p] = 1
    BY <1>1, <1>4 DEF InCallback
  <2> QED
    BY <1>1, <1>4, <2>1, <2>2, Left DEF OthersKept, lockVars
<1> QED
  BY <1>2, <1>3, <1>4

LEMMA LeaveControl ==
  ASSUME LocalsOK, Control, NEW p \in Proc, Leave(p), UNCHANGED <<lockVars, ptr>>,
         pc[p] \in {"fetch", "exists", "delete", "clear", "update", "entry"},
         pc[p] = "entry" => level[p] = 0
  PROVE  OthersKept(p) /\ ControlOf(p)'
<1> USE CacheAssumption DEF Holding, Expunging, Storing, ControlOf
<1>1. ControlOf(p) /\ level[p] \in {0, 1}
  BY DEF Control, LocalsOK
<1>2. InCallback(p) <=> level[p] = 1
  BY <1>1 DEF InCallback
<1> QED
  BY <1>1, <1>2, Left DEF OthersKept, lockVars

LEMMA ControlStep == LocalsOK /\ Control /\ [Next]_vars => Control'
<1> SUFFICES ASSUME LocalsOK, Control, [Next]_vars PROVE Control'
  OBVIOUS
<1> USE CacheAssumption
<1> USE DEF LocalsOK, At, Goto, PC, Kinds, Expunging, Holding, Storing, Op, NoOp, lockVars, localVars
<1>call. ASSUME NEW p \in Proc, NEW kind, NEW k \in Key, NEW ttl \in Ttls \cup {0}, NEW len \in Lens \cup {0},
               kind \in {"store", "add", "inc"} => len \in Lens, Call(p, kind, k, ttl, len)
         PROVE OthersKept(p) /\ ControlOf(p)'
  BY <1>call DEF Call, Control, ControlOf, OthersKept
<1>ret. ASSUME NEW p \in Proc, NEW ttl \in Ttls, NEW len \in Lens, CallbackReturns(p, ttl, len) PROVE OthersKept(p) /\ ControlOf(p)'
  BY <1>ret DEF CallbackReturns, Control, ControlOf, OthersKept
<1>Malloc. ASSUME NEW p \in Proc, Malloc(p) PROVE OthersKept(p) /\ ControlOf(p)'
  <2>1. OthersKept(p)
    BY <1>Malloc DEF Malloc, Control, ControlOf, OthersKept
  <2>2. ControlOf(p)'
    BY <1>Malloc DEF Malloc, Control, ControlOf
  <2> QED
    BY <2>1, <2>2
<1>MallocRetries. ASSUME NEW p \in Proc, MallocRetries(p) PROVE OthersKept(p) /\ ControlOf(p)'
  <2>1. OthersKept(p)
    BY <1>MallocRetries DEF MallocRetries, Control, ControlOf, OthersKept
  <2>2. ControlOf(p)'
    BY <1>MallocRetries DEF MallocRetries, Control, ControlOf
  <2> QED
    BY <2>1, <2>2
<1>MallocFails. ASSUME NEW p \in Proc, MallocFails(p) PROVE OthersKept(p) /\ ControlOf(p)'
  BY <1>MallocFails, ReturnControl DEF MallocFails, NoRoom
<1>InsertEntry. ASSUME NEW p \in Proc, InsertEntry(p) PROVE OthersKept(p) /\ ControlOf(p)'
  <2>1. OthersKept(p)
    BY <1>InsertEntry DEF InsertEntry, Control, ControlOf, OthersKept
  <2>2. ControlOf(p)'
    BY <1>InsertEntry DEF InsertEntry, Control, ControlOf
  <2> QED
    BY <2>1, <2>2
<1>InsertUnlocked. ASSUME NEW p \in Proc, InsertUnlocked(p) PROVE OthersKept(p) /\ ControlOf(p)'
  <2>1. OthersKept(p)
    BY <1>InsertUnlocked DEF InsertUnlocked, Control, ControlOf, OthersKept, LockFails
  <2>2. ControlOf(p)'
    BY <1>InsertUnlocked DEF InsertUnlocked, Control, ControlOf, LockFails
  <2> QED
    BY <2>1, <2>2
<1>Discard. ASSUME NEW p \in Proc, Discard(p) PROVE OthersKept(p) /\ ControlOf(p)'
  BY <1>Discard, ReturnControl DEF Discard
<1>Release. ASSUME NEW p \in Proc, Release(p) PROVE OthersKept(p) /\ ControlOf(p)'
  BY <1>Release, ReturnControl DEF Release
<1>Snapshot. ASSUME NEW p \in Proc, Snapshot(p) PROVE OthersKept(p) /\ ControlOf(p)'
  <2>1. OthersKept(p)
    BY <1>Snapshot DEF Snapshot, Control, ControlOf, OthersKept
  <2>2. ControlOf(p)'
    BY <1>Snapshot DEF Snapshot, Control, ControlOf
  <2> QED
    BY <2>1, <2>2
<1>SkipExpunge. ASSUME NEW p \in Proc, SkipExpunge(p) PROVE OthersKept(p) /\ ControlOf(p)'
  <2>1. OthersKept(p)
    BY <1>SkipExpunge DEF SkipExpunge, Control, ControlOf, OthersKept
  <2>2. ControlOf(p)'
    BY <1>SkipExpunge DEF SkipExpunge, Control, ControlOf
  <2> QED
    BY <2>1, <2>2
<1>ExpungeUnlocked. ASSUME NEW p \in Proc, ExpungeUnlocked(p) PROVE OthersKept(p) /\ ControlOf(p)'
  <2>1. OthersKept(p)
    BY <1>ExpungeUnlocked DEF ExpungeUnlocked, Control, ControlOf, OthersKept, LockFails
  <2>2. ControlOf(p)'
    BY <1>ExpungeUnlocked DEF ExpungeUnlocked, Control, ControlOf, LockFails
  <2> QED
    BY <2>1, <2>2
<1>Sweep. ASSUME NEW p \in Proc, Sweep(p) PROVE OthersKept(p) /\ ControlOf(p)'
  <2>1. OthersKept(p)
    BY <1>Sweep DEF Sweep, Control, ControlOf, OthersKept, TakeLock, CanLock
  <2>2. ControlOf(p)'
    BY <1>Sweep DEF Sweep, Control, ControlOf, TakeLock, CanLock
  <2> QED
    BY <2>1, <2>2
<1>CheckAvail. ASSUME NEW p \in Proc, CheckAvail(p) PROVE OthersKept(p) /\ ControlOf(p)'
  <2>1. ControlOf(p) /\ owner = p
    BY <1>CheckAvail DEF CheckAvail, Control, ControlOf
  <2>2. CASE Avail(mem) < Need(op[p])
    BY <1>CheckAvail, <2>1, <2>2 DEF CheckAvail, ControlOf, OthersKept, EndExpunge, DropLock
  <2>3. CASE ~(Avail(mem) < Need(op[p]))
    BY <1>CheckAvail, <2>1, <2>3 DEF CheckAvail, ControlOf, OthersKept
  <2> QED
    BY <2>2, <2>3
<1>Compact. ASSUME NEW p \in Proc, Compact(p) PROVE OthersKept(p) /\ ControlOf(p)'
  <2>1. OthersKept(p)
    BY <1>Compact DEF Compact, Control, ControlOf, OthersKept
  <2>2. ControlOf(p)'
    BY <1>Compact DEF Compact, Control, ControlOf
  <2> QED
    BY <2>1, <2>2
<1>CheckContiguous. ASSUME NEW p \in Proc, CheckContiguous(p) PROVE OthersKept(p) /\ ControlOf(p)'
  <2>1. OthersKept(p)
    BY <1>CheckContiguous DEF CheckContiguous, Control, ControlOf, OthersKept, EndExpunge, DropLock
  <2>2. ControlOf(p)'
    BY <1>CheckContiguous DEF CheckContiguous, Control, ControlOf, EndExpunge, DropLock
  <2> QED
    BY <2>1, <2>2
<1>Fetch. ASSUME NEW p \in Proc, Fetch(p) PROVE OthersKept(p) /\ ControlOf(p)'
  <2>1. OthersKept(p)
    BY <1>Fetch DEF Fetch, Control, ControlOf, OthersKept
  <2>2. ControlOf(p)'
    BY <1>Fetch DEF Fetch, Control, ControlOf
  <2> QED
    BY <2>1, <2>2
<1>Exists. ASSUME NEW p \in Proc, Exists(p) PROVE OthersKept(p) /\ ControlOf(p)'
  BY <1>Exists, LeaveControl DEF Exists
<1>Misses. ASSUME NEW p \in Proc, Misses(p) PROVE OthersKept(p) /\ ControlOf(p)'
  BY <1>Misses, LeaveControl DEF Misses
<1>Delete. ASSUME NEW p \in Proc, Delete(p) PROVE OthersKept(p) /\ ControlOf(p)'
  BY <1>Delete, LeaveControl DEF Delete
<1>Clear. ASSUME NEW p \in Proc, Clear(p) PROVE OthersKept(p) /\ ControlOf(p)'
  BY <1>Clear, LeaveControl DEF Clear
<1>RequestUnlocked. ASSUME NEW p \in Proc, RequestUnlocked(p) PROVE OthersKept(p) /\ ControlOf(p)'
  BY <1>RequestUnlocked, LeaveControl DEF RequestUnlocked, LockFails
<1>Update. ASSUME NEW p \in Proc, Update(p) PROVE OthersKept(p) /\ ControlOf(p)'
  BY <1>Update, LeaveControl DEF Update
<1>UpdateMisses. ASSUME NEW p \in Proc, UpdateMisses(p) PROVE OthersKept(p) /\ ControlOf(p)'
  <2>1. CASE op[p].kind = "inc"
    BY <1>UpdateMisses, <2>1 DEF UpdateMisses, Control, ControlOf, OthersKept
  <2>2. CASE op[p].kind # "inc"
    BY <1>UpdateMisses, <2>2, LeaveControl DEF UpdateMisses
  <2> QED
    BY <2>1, <2>2
<1>EntryHit. ASSUME NEW p \in Proc, EntryHit(p) PROVE OthersKept(p) /\ ControlOf(p)'
  <2>1. OthersKept(p)
    BY <1>EntryHit DEF EntryHit, Control, ControlOf, OthersKept, TakeLock, CanLock
  <2>2. ControlOf(p)'
    BY <1>EntryHit DEF EntryHit, Control, ControlOf, TakeLock, CanLock
  <2> QED
    BY <2>1, <2>2
<1>EntryMiss. ASSUME NEW p \in Proc, EntryMiss(p) PROVE OthersKept(p) /\ ControlOf(p)'
  <2>1. OthersKept(p)
    BY <1>EntryMiss DEF EntryMiss, Control, ControlOf, OthersKept, TakeLock, CanLock
  <2>2. ControlOf(p)'
    BY <1>EntryMiss DEF EntryMiss, Control, ControlOf, TakeLock, CanLock
  <2> QED
    BY <2>1, <2>2
<1>CallbackThrows. ASSUME NEW p \in Proc, CallbackThrows(p) PROVE OthersKept(p) /\ ControlOf(p)'
  BY <1>CallbackThrows, ReturnControl DEF CallbackThrows
<1>Crash. ASSUME NEW p \in Proc, Crash(p) PROVE OthersKept(p) /\ ControlOf(p)'
  <2>1. OthersKept(p)
    BY <1>Crash DEF Crash, Control, ControlOf, OthersKept
  <2>2. ControlOf(p)'
    BY <1>Crash DEF Crash, Control, ControlOf
  <2> QED
    BY <2>1, <2>2
<1>tick. CASE Tick \/ UNCHANGED vars
  BY <1>tick DEF Tick, vars, Control, ControlOf
<1>calls. ASSUME NEW p \in Proc, Calls(p) PROVE OthersKept(p) /\ ControlOf(p)'
  <2> HIDE DEF LocalsOK, At, Goto, PC, Kinds, Expunging, Holding, Storing, Op, lockVars, localVars
  <2>1. Ttls \subseteq Ttls \cup {0} /\ NoOp.key \in Key
    BY CacheAssumption
  <2> QED
    BY <1>calls, <1>call, <2>1 DEF Calls
<1> QED
  <2> HIDE DEF LocalsOK, At, Goto, PC, Kinds, Expunging, Holding, Storing, Op, NoOp, lockVars, localVars
  <2>1. ASSUME NEW p \in Proc, Continues(p) PROVE OthersKept(p) /\ ControlOf(p)'
    BY <2>1, <1>ret, <1>Malloc, <1>MallocRetries, <1>MallocFails, <1>InsertEntry, <1>InsertUnlocked, <1>Discard, <1>Release, <1>Snapshot, <1>SkipExpunge, <1>ExpungeUnlocked, <1>Sweep, <1>CheckAvail, <1>Compact, <1>CheckContiguous, <1>Fetch, <1>Exists, <1>Misses, <1>Delete, <1>Clear, <1>RequestUnlocked, <1>Update, <1>UpdateMisses, <1>EntryHit, <1>EntryMiss, <1>CallbackThrows, <1>Crash DEF Continues
  <2> QED
    BY <2>1, <1>calls, <1>Crash, <1>tick, OnlyOne DEF Next

LEMMA OpFields ==
  ASSUME NEW o \in Op
  PROVE  /\ [o EXCEPT !.kind = "incagain"] \in Op
         /\ \A k \in Key : [o EXCEPT !.kind = "entry", !.key = k] \in Op
         /\ \A t \in Time : [o EXCEPT !.ct = t] \in Op
BY DEF Op, Kinds

LEMMA NoOpTyped == NoOp \in Op
BY CacheAssumption DEF NoOp, Op, Time

LEMMA ReturnTyped ==
  ASSUME LocalsOK, NEW p \in Proc, Return(p), UNCHANGED <<ncleanups, now, outer, count>>
  PROVE  LocalsOK'
<1> USE CacheAssumption DEF PC, Kinds
<1>1. /\ NoOp \in Op /\ [NoOp EXCEPT !.kind = "entry", !.key = outer[p]] \in Op
      /\ [op[p] EXCEPT !.kind = "incagain"] \in Op
  BY NoOpTyped, OpFields DEF LocalsOK
<1>2. NoSnap \in [n : Nat, t : Time]
  BY DEF NoSnap, Time
<1> HIDE DEF PC
<1>3. {"idle", "callback", "update"} \subseteq PC
  BY DEF PC
<1> USE DEF LocalsOK
<1>4. CASE op[p].kind = "inc"
  <2>1. op' = [op EXCEPT ![p].kind = "incagain"] /\ pc' = [pc EXCEPT ![p] = "update"]
    BY <1>4 DEF Return, Goto
  <2>2. op' \in [Proc -> Op] /\ pc' \in [Proc -> PC]
    BY <1>1, <1>3, <2>1
  <2> QED
    BY <1>2, <1>4, <2>2 DEF Return, lockVars
<1>5. CASE op[p].kind # "inc"
  <2>1. Leave(p) /\ (UNCHANGED lockVars \/ (owner' = NoProc /\ level' = [level EXCEPT ![p] = 0]))
    BY <1>5 DEF Return
  <2>2. pc' \in [Proc -> PC] /\ op' \in [Proc -> Op]
    BY <1>1, <1>3, <2>1 DEF Leave, Goto
  <2>3. owner' \in Proc \cup {NoProc} /\ level' \in [Proc -> {0, 1}]
    BY <2>1 DEF lockVars
  <2> QED
    BY <1>2, <2>2, <2>3 DEF Return
<1> QED
  BY <1>4, <1>5

LEMMA LeaveTyped ==
  ASSUME LocalsOK, NEW p \in Proc, Leave(p)
  PROVE  pc' \in [Proc -> PC] /\ op' \in [Proc -> Op]
<1> USE CacheAssumption DEF Kinds
<1>1. NoOp \in Op /\ [NoOp EXCEPT !.kind = "entry", !.key = outer[p]] \in Op
  BY NoOpTyped, OpFields DEF LocalsOK
<1>3. {"idle", "callback"} \subseteq PC
  BY DEF PC
<1> QED
  BY <1>1, <1>3 DEF Leave, Goto, LocalsOK

LEMMA LocalsStep == LocalsOK /\ [Next]_vars => LocalsOK'
<1> SUFFICES ASSUME LocalsOK, [Next]_vars PROVE LocalsOK'
  OBVIOUS
<1> USE CacheAssumption
<1> USE DEF LocalsOK, At, Goto, PC, Kinds, lockVars, localVars
<1>call. ASSUME NEW p \in Proc, NEW kind, NEW k \in Key, NEW ttl \in Ttls \cup {0}, NEW len \in Lens \cup {0},
                Call(p, kind, k, ttl, len)
         PROVE  LocalsOK'
  <2>1. kind \in Kinds
    BY <1>call DEF Call
  <2>2. [kind |-> kind, key |-> k, ttl |-> ttl, t |-> now, ct |-> now, len |-> len] \in Op
    BY <2>1 DEF Op
  <2>3. op' \in [Proc -> Op]
    BY <1>call, <2>2 DEF Call
  <2>4. pc' \in [Proc -> PC]
    BY <1>call, <2>1 DEF Call
  <2>5. count' \in [Proc -> 0..MaxOps]
    BY <1>call DEF Call
  <2> QED
    BY <1>call, <2>3, <2>4, <2>5 DEF Call, cacheVars
<1>ret. ASSUME NEW p \in Proc, NEW ttl \in Ttls, NEW len \in Lens, CallbackReturns(p, ttl, len) PROVE LocalsOK'
  <2>1. [kind |-> "entry", key |-> outer[p], ttl |-> ttl, t |-> now, ct |-> now, len |-> len] \in Op
    BY DEF Op
  <2> QED
    BY <1>ret, <2>1 DEF CallbackReturns, cacheVars
<1>Malloc. ASSUME NEW p \in Proc, Malloc(p) PROVE LocalsOK'
  BY <1>Malloc DEF Malloc, cacheVars
<1>MallocRetries. ASSUME NEW p \in Proc, MallocRetries(p) PROVE LocalsOK'
  BY <1>MallocRetries DEF MallocRetries, cacheVars
<1>MallocFails. ASSUME NEW p \in Proc, MallocFails(p) PROVE LocalsOK'
  BY <1>MallocFails, ReturnTyped DEF MallocFails, cacheVars
<1>InsertEntry. ASSUME NEW p \in Proc, InsertEntry(p) PROVE LocalsOK'
  BY <1>InsertEntry DEF InsertEntry, cacheVars
<1>InsertUnlocked. ASSUME NEW p \in Proc, InsertUnlocked(p) PROVE LocalsOK'
  BY <1>InsertUnlocked DEF InsertUnlocked, cacheVars, LockFails
<1>Discard. ASSUME NEW p \in Proc, Discard(p) PROVE LocalsOK'
  BY <1>Discard, ReturnTyped DEF Discard, cacheVars
<1>Release. ASSUME NEW p \in Proc, Release(p) PROVE LocalsOK'
  BY <1>Release, ReturnTyped DEF Release, cacheVars
<1>Snapshot. ASSUME NEW p \in Proc, Snapshot(p) PROVE LocalsOK'
  BY <1>Snapshot DEF Snapshot, cacheVars
<1>SkipExpunge. ASSUME NEW p \in Proc, SkipExpunge(p) PROVE LocalsOK'
  BY <1>SkipExpunge DEF SkipExpunge, cacheVars
<1>ExpungeUnlocked. ASSUME NEW p \in Proc, ExpungeUnlocked(p) PROVE LocalsOK'
  <2>1. NoSnap \in [n : Nat, t : Time]
    BY DEF NoSnap, Time
  <2> QED
    BY <1>ExpungeUnlocked, <2>1 DEF ExpungeUnlocked, LockFails, cacheVars
<1>Sweep. ASSUME NEW p \in Proc, Sweep(p) PROVE LocalsOK'
  BY <1>Sweep DEF Sweep, cacheVars, TakeLock
<1>CheckAvail. ASSUME NEW p \in Proc, CheckAvail(p) PROVE LocalsOK'
  <2>1. EndExpunge(p) \/ (Goto(p, "compact") /\ UNCHANGED <<owner, ncleanups, localVars>>)
    BY <1>CheckAvail DEF CheckAvail, cacheVars
  <2>2. NoSnap \in [n : Nat, t : Time]
    BY DEF NoSnap, Time
  <2>3. CASE EndExpunge(p)
    <3>1. /\ ncleanups' \in Nat /\ owner' \in Proc \cup {NoProc}
          /\ nuked' \in [Proc -> BOOLEAN] /\ pc' \in [Proc -> PC]
      BY <2>3 DEF EndExpunge, DropLock
    <3>2. missed' \in [Proc -> BOOLEAN]
      BY <2>3 DEF EndExpunge
    <3>3. snap' \in [Proc -> [n : Nat, t : Time]]
      BY <2>2, <2>3 DEF EndExpunge
    <3> QED
      BY <1>CheckAvail, <3>1, <3>2, <3>3 DEF CheckAvail
  <2>4. CASE ~EndExpunge(p)
    BY <1>CheckAvail, <2>1, <2>4 DEF CheckAvail
  <2> QED
    BY <2>3, <2>4
<1>Compact. ASSUME NEW p \in Proc, Compact(p) PROVE LocalsOK'
  BY <1>Compact DEF Compact, cacheVars
<1>CheckContiguous. ASSUME NEW p \in Proc, CheckContiguous(p) PROVE LocalsOK'
  <2>1. EndExpunge(p) \/ (Goto(p, "compact") /\ UNCHANGED <<owner, ncleanups, localVars>>)
    BY <1>CheckContiguous DEF CheckContiguous, cacheVars
  <2>2. NoSnap \in [n : Nat, t : Time]
    BY DEF NoSnap, Time
  <2>3. CASE EndExpunge(p)
    <3>1. /\ ncleanups' \in Nat /\ owner' \in Proc \cup {NoProc}
          /\ nuked' \in [Proc -> BOOLEAN] /\ pc' \in [Proc -> PC]
      BY <2>3 DEF EndExpunge, DropLock
    <3>2. missed' \in [Proc -> BOOLEAN]
      BY <2>3 DEF EndExpunge
    <3>3. snap' \in [Proc -> [n : Nat, t : Time]]
      BY <2>2, <2>3 DEF EndExpunge
    <3> QED
      BY <1>CheckContiguous, <3>1, <3>2, <3>3 DEF CheckContiguous
  <2>4. CASE ~EndExpunge(p)
    BY <1>CheckContiguous, <2>1, <2>4 DEF CheckContiguous
  <2> QED
    BY <2>3, <2>4
<1>Fetch. ASSUME NEW p \in Proc, Fetch(p) PROVE LocalsOK'
  BY <1>Fetch DEF Fetch, cacheVars
<1>Exists. ASSUME NEW p \in Proc, Exists(p) PROVE LocalsOK'
  BY <1>Exists, LeaveTyped DEF Exists, cacheVars
<1>Misses. ASSUME NEW p \in Proc, Misses(p) PROVE LocalsOK'
  BY <1>Misses, LeaveTyped DEF Misses, cacheVars
<1>Delete. ASSUME NEW p \in Proc, Delete(p) PROVE LocalsOK'
  BY <1>Delete, LeaveTyped DEF Delete, cacheVars
<1>Clear. ASSUME NEW p \in Proc, Clear(p) PROVE LocalsOK'
  BY <1>Clear, LeaveTyped DEF Clear, cacheVars
<1>RequestUnlocked. ASSUME NEW p \in Proc, RequestUnlocked(p) PROVE LocalsOK'
  BY <1>RequestUnlocked, LeaveTyped DEF RequestUnlocked, cacheVars, LockFails
<1>Update. ASSUME NEW p \in Proc, Update(p) PROVE LocalsOK'
  BY <1>Update, LeaveTyped DEF Update, cacheVars
<1>UpdateMisses. ASSUME NEW p \in Proc, UpdateMisses(p) PROVE LocalsOK'
  <2>1. CASE op[p].kind = "inc"
    <3>1. [op[p] EXCEPT !.ct = now] \in Op
      BY OpFields
    <3>2. op' = [op EXCEPT ![p].ct = now]
      BY <1>UpdateMisses, <2>1 DEF UpdateMisses
    <3>3. op' \in [Proc -> Op]
      BY <3>1, <3>2
    <3> QED
      BY <1>UpdateMisses, <2>1, <3>3 DEF UpdateMisses, cacheVars
  <2>2. CASE op[p].kind # "inc"
    BY <1>UpdateMisses, <2>2, LeaveTyped DEF UpdateMisses, cacheVars
  <2> QED
    BY <2>1, <2>2
<1>EntryHit. ASSUME NEW p \in Proc, EntryHit(p) PROVE LocalsOK'
  BY <1>EntryHit DEF EntryHit, cacheVars, TakeLock
<1>EntryMiss. ASSUME NEW p \in Proc, EntryMiss(p) PROVE LocalsOK'
  <2>1. op[p].key \in Key
    BY DEF Op
  <2> QED
    BY <1>EntryMiss, <2>1 DEF EntryMiss, TakeLock, cacheVars
<1>CallbackThrows. ASSUME NEW p \in Proc, CallbackThrows(p) PROVE LocalsOK'
  BY <1>CallbackThrows, ReturnTyped DEF CallbackThrows, cacheVars
<1>Crash. ASSUME NEW p \in Proc, Crash(p) PROVE LocalsOK'
  BY <1>Crash DEF Crash, cacheVars
<1>tick. CASE Tick \/ UNCHANGED vars
  BY <1>tick DEF Tick, vars, Time, cacheVars
<1>calls. ASSUME NEW p \in Proc, Calls(p) PROVE LocalsOK'
  <2> HIDE DEF LocalsOK, At, Goto, PC, Kinds, lockVars, localVars
  <2>1. Ttls \subseteq Ttls \cup {0} /\ NoOp.key \in Key
    BY CacheAssumption DEF NoOp
  <2> QED
    BY <1>calls, <1>call, <2>1 DEF Calls
<1> QED
  <2> HIDE DEF LocalsOK, At, Goto, PC, Kinds, lockVars, localVars
  <2>1. ASSUME NEW p \in Proc, Continues(p) PROVE LocalsOK'
    BY <2>1, <1>ret, <1>Malloc, <1>MallocRetries, <1>MallocFails, <1>InsertEntry, <1>InsertUnlocked, <1>Discard, <1>Release, <1>Snapshot, <1>SkipExpunge, <1>ExpungeUnlocked, <1>Sweep, <1>CheckAvail, <1>Compact, <1>CheckContiguous, <1>Fetch, <1>Exists, <1>Misses, <1>Delete, <1>Clear, <1>RequestUnlocked, <1>Update, <1>UpdateMisses, <1>EntryHit, <1>EntryMiss, <1>CallbackThrows, <1>Crash DEF Continues
  <2> QED
    BY <2>1, <1>calls, <1>Crash, <1>tick DEF Next

LEMMA ControlInit == Init => LocalsOK /\ Control
<1> SUFFICES ASSUME Init PROVE LocalsOK /\ Control
  OBVIOUS
<1>1. NoOp.key \in Key /\ NoSnap \in [n : Nat, t : Time] /\ 0 \in 0..MaxOps
  BY CacheAssumption, NoOpTyped DEF Op, NoSnap, Time
<1>2. "idle" \in PC /\ 0 \in Time
  BY CacheAssumption DEF PC, Time
<1>3. LocalsOK
  BY <1>1, <1>2, NoOpTyped DEF Init, LocalsOK
<1>4. NoOp.kind = "none" /\ NoProc \notin Proc
  BY CacheAssumption DEF NoOp
<1>5. Control
  BY <1>4 DEF Init, Control, ControlOf, Expunging, Holding, Storing
<1> QED
  BY <1>3, <1>5

LEMMA ControlInductive == Spec => [](LocalsOK /\ Control)
BY ControlInit, LocalsStep, ControlStep, PTL DEF Spec

-----------------------------------------------------------------------------
(* What control alone gives *)

\* A live process holds the write lock exactly inside apcu_entry() and between
\* the steps of an expunge, and a process outside every operation has neither
\* lock nor level nor reference: every path out of apc_cache_store(),
\* default_expunge() and apcu_entry() gives back what it took.
THEOREM LockExactHolds == Spec => []LockExact
<1>1. LocalsOK /\ Control => LockExact
  <2> SUFFICES ASSUME LocalsOK, Control, NEW p \in Proc
               PROVE  /\ pc[p] # "dead" =>
                           (owner = p <=> level[p] > 0 \/ pc[p] \in Expunging)
                      /\ pc[p] = "idle" => level[p] = 0 /\ ptr[p] = 0
    BY DEF LockExact, Expunging
  <2>1. ControlOf(p) /\ level[p] \in {0, 1}
    BY DEF Control, LocalsOK
  <2> QED
    BY <2>1 DEF ControlOf, Expunging, Holding
<1> QED
  BY <1>1, ControlInductive, PTL

\* What a process that waits for the lock to expunge knows of the expunges that
\* ended meanwhile.
SnapshotOf(p) ==
  /\ pc[p] = "expunge" => /\ snap[p].n <= ncleanups
                          /\ missed[p] => snap[p].n < ncleanups
  /\ pc[p] \in Expunging => ~missed[p]
Snapshots == \A p \in Proc : SnapshotOf(p)

\* Steps that touch neither the snapshots nor the count of expunges.
SnapshotsKept(p) ==
  /\ UNCHANGED <<ncleanups, snap, missed>>
  /\ pc'[p] = "expunge" => pc[p] = "expunge"
  /\ pc'[p] \in Expunging => pc[p] \in Expunging
  /\ \A q \in Proc \ {p} : pc'[q] = pc[q]

LEMMA SnapshotsUntouched ==
  ASSUME Snapshots, NEW p \in Proc, SnapshotsKept(p)
  PROVE  Snapshots'
<1> SUFFICES ASSUME NEW q \in Proc PROVE SnapshotOf(q)'
  BY DEF Snapshots
<1>1. SnapshotOf(q)
  BY DEF Snapshots
<1> QED
  BY <1>1 DEF SnapshotOf, SnapshotsKept

LEMMA LeavesSnapshots ==
  ASSUME LocalsOK, Snapshots, NEW p \in Proc, Leave(p) \/ Return(p),
         UNCHANGED ncleanups,
         Leave(p) => Return(p) \/ UNCHANGED <<snap, missed>>
  PROVE  Snapshots'
<1> SUFFICES ASSUME NEW q \in Proc PROVE SnapshotOf(q)'
  BY DEF Snapshots
<1>1. SnapshotOf(q)
  BY DEF Snapshots
<1>2. CASE q = p
  <2>1. pc'[p] \in {"idle", "callback", "update"}
    BY Left, Returned
  <2> QED
    BY <1>2, <2>1 DEF SnapshotOf, Expunging
<1>3. CASE q # p
  <2>1. pc'[q] = pc[q]
    BY <1>3, Left, Returned
  <2>2. snap'[q] = snap[q] /\ missed'[q] = missed[q]
    BY <1>3 DEF Return, LocalsOK
  <2> QED
    BY <1>1, <2>1, <2>2 DEF SnapshotOf
<1> QED
  BY <1>2, <1>3

LEMMA EndsSnapshots ==
  ASSUME LocalsOK, Control, Snapshots, NEW p \in Proc, pc[p] \in Expunging, EndExpunge(p)
  PROVE  Snapshots'
<1> SUFFICES ASSUME NEW q \in Proc PROVE SnapshotOf(q)'
  BY DEF Snapshots
<1>1. SnapshotOf(q) /\ snap[q].n \in Nat /\ ncleanups \in Nat
  BY DEF Snapshots, LocalsOK
<1>2. CASE q = p
  BY <1>2 DEF EndExpunge, Goto, LocalsOK, SnapshotOf, Expunging
<1>3. CASE q # p
  <2>1. pc'[q] = pc[q] /\ snap'[q] = snap[q] /\ ncleanups' = ncleanups + 1
        /\ missed'[q] = (missed[q] \/ pc[q] = "expunge")
    BY <1>3 DEF EndExpunge, Goto, LocalsOK
  <2>2. pc[q] \notin Expunging
    BY <1>3 DEF Control, ControlOf
  <2> QED
    BY <1>1, <2>1, <2>2 DEF SnapshotOf
<1> QED
  BY <1>2, <1>3

LEMMA SnapshotsStep ==
  ASSUME "clear" \notin Ops
  PROVE  LocalsOK /\ Control /\ Snapshots /\ [Next]_vars => Snapshots'
<1> SUFFICES ASSUME LocalsOK, Control, Snapshots, [Next]_vars PROVE Snapshots'
  OBVIOUS
<1> USE DEF At, Goto
<1>1. \A p \in Proc : pc[p] # "clear" /\ pc \in [Proc -> PC]
  BY DEF Control, ControlOf, LocalsOK
<1>2. ASSUME NEW p \in Proc, Calls(p) PROVE Snapshots'
  <2>1. ASSUME NEW kind, NEW k, NEW ttl, NEW len, Call(p, kind, k, ttl, len)
        PROVE  Snapshots'
    <3>1. kind \in Kinds
      BY <2>1, CacheAssumption DEF Call, Kinds
    <3>2. SnapshotsKept(p)
      BY <1>1, <2>1, <3>1 DEF Call, SnapshotsKept, cacheVars, localVars, Kinds, Expunging
    <3> QED
      BY <3>2, SnapshotsUntouched
  <2> QED
    BY <1>2, <2>1 DEF Calls
<1>3. ASSUME NEW p \in Proc,
             \/ Malloc(p) \/ MallocRetries(p) \/ InsertEntry(p) \/ InsertUnlocked(p)
             \/ SkipExpunge(p) \/ Compact(p) \/ Fetch(p) \/ EntryHit(p) \/ EntryMiss(p)
             \/ Crash(p) \/ \E ttl \in Ttls, len \in Lens : CallbackReturns(p, ttl, len)
      PROVE  Snapshots'
  <2>1. SnapshotsKept(p)
    BY <1>1, <1>3 DEF SnapshotsKept, cacheVars, localVars, Expunging, Malloc,
       MallocRetries, InsertEntry, InsertUnlocked, SkipExpunge, Compact, Fetch,
       EntryHit, EntryMiss, Crash, CallbackReturns
  <2> QED
    BY <2>1, SnapshotsUntouched
<1>4. ASSUME NEW p \in Proc, MallocFails(p) \/ Discard(p) \/ Release(p) \/ CallbackThrows(p)
      PROVE  Snapshots'
  <2>1. Return(p) /\ UNCHANGED ncleanups
    BY <1>4 DEF MallocFails, Discard, Release, CallbackThrows, cacheVars
  <2> QED
    BY <2>1, LeavesSnapshots
<1>5. ASSUME NEW p \in Proc,
             \/ Exists(p) \/ Misses(p) \/ Delete(p) \/ RequestUnlocked(p) \/ Update(p)
      PROVE  Snapshots'
  <2>1. Leave(p) /\ UNCHANGED <<ncleanups, snap, missed>>
    BY <1>5 DEF Exists, Misses, Delete, RequestUnlocked, Update, cacheVars, localVars
  <2> QED
    BY <2>1, LeavesSnapshots
<1>6. ASSUME NEW p \in Proc, UpdateMisses(p) PROVE Snapshots'
  <2>1. UNCHANGED <<ncleanups, snap, missed>>
    BY <1>6 DEF UpdateMisses, cacheVars, localVars
  <2>2. CASE Leave(p)
    BY <2>1, <2>2, LeavesSnapshots
  <2>3. CASE ~Leave(p)
    <3>1. SnapshotsKept(p)
      BY <1>1, <1>6, <2>1, <2>3 DEF UpdateMisses, SnapshotsKept, Expunging
    <3> QED
      BY <3>1, SnapshotsUntouched
  <2> QED
    BY <2>2, <2>3
<1>7. ASSUME NEW p \in Proc, Snapshot(p) \/ ExpungeUnlocked(p) \/ Sweep(p) PROVE Snapshots'
  <2> SUFFICES ASSUME NEW q \in Proc PROVE SnapshotOf(q)'
    BY DEF Snapshots
  <2>1. SnapshotOf(q) /\ snap[q].n \in Nat /\ ncleanups \in Nat
    BY DEF Snapshots, LocalsOK
  <2>2. CASE Snapshot(p)
    BY <2>1, <2>2 DEF Snapshot, SnapshotOf, LocalsOK, Expunging, cacheVars
  <2>3. CASE ExpungeUnlocked(p)
    BY <2>1, <2>3 DEF ExpungeUnlocked, SnapshotOf, LocalsOK, Expunging, cacheVars
  <2>4. CASE Sweep(p)
    BY <2>1, <2>4 DEF Sweep, SnapshotOf, LocalsOK, Expunging, CleanedMeanwhile, localVars
  <2> QED
    BY <1>7, <2>2, <2>3, <2>4
<1>8. ASSUME NEW p \in Proc, CheckAvail(p) \/ CheckContiguous(p) PROVE Snapshots'
  <2>1. CASE EndExpunge(p)
    <3>1. pc[p] \in Expunging
      BY <1>8 DEF CheckAvail, CheckContiguous, Expunging
    <3> QED
      BY <2>1, <3>1, EndsSnapshots
  <2>2. CASE ~EndExpunge(p)
    <3>1. SnapshotsKept(p)
      BY <1>1, <1>8, <2>2 DEF CheckAvail, CheckContiguous, SnapshotsKept, Expunging,
         cacheVars, localVars
    <3> QED
      BY <3>1, SnapshotsUntouched
  <2> QED
    BY <2>1, <2>2
<1>9. CASE Tick \/ UNCHANGED vars
  BY <1>9 DEF Tick, vars, cacheVars, localVars, Snapshots, SnapshotOf
<1> QED
  <2>1. ASSUME NEW p \in Proc, Continues(p) PROVE Snapshots'
    BY <2>1, <1>1, <1>3, <1>4, <1>5, <1>6, <1>7, <1>8 DEF Continues, Clear
  <2> QED
    BY <2>1, <1>2, <1>3, <1>9 DEF Next

\* While nobody clears the cache (apcu_clear_cache() sets ncleanups back to 0,
\* and the comparison with it says nothing any more), no expunge works on a
\* snapshot older than the end of another one.
THEOREM OneExpungePerShortageHolds ==
  "clear" \notin Ops => (Spec => []OneExpungePerShortage)
<1> SUFFICES ASSUME "clear" \notin Ops PROVE Spec => []OneExpungePerShortage
  OBVIOUS
<1>1. Init => Snapshots
  BY DEF Init, Snapshots, SnapshotOf, Expunging
<1>2. LocalsOK /\ Control /\ Snapshots /\ [Next]_vars => Snapshots'
  BY SnapshotsStep
<1>3. Snapshots => OneExpungePerShortage
  BY DEF Snapshots, SnapshotOf, Expunging, OneExpungePerShortage
<1> QED
  BY <1>1, <1>2, <1>3, ControlInductive, PTL DEF Spec

-----------------------------------------------------------------------------
(* Lists *)

Distinct(s) == \A i, j \in DOMAIN s : s[i] = s[j] => i = j

LEMMA InList ==
  ASSUME NEW S, NEW s \in Seq(S), NEW x
  PROVE  x \in ToSet(s) <=> \E i \in 1..Len(s) : x = s[i]
BY DEF ToSet

LEMMA ElementsIn ==
  ASSUME NEW S, NEW s \in Seq(S)
  PROVE  ToSet(s) \subseteq S
BY DEF ToSet

\* What remains of the first i elements of s, when g says what remains of fewer.
KeptOf(s, A, g, i) ==
  IF i = 0 THEN <<>> ELSE IF s[i] \in A THEN g[i - 1] ELSE Append(g[i - 1], s[i])

LEMMA KeptExists ==
  ASSUME NEW S, NEW s \in Seq(S), NEW A
  PROVE  \E g : g = [i \in 0..Len(s) |-> KeptOf(s, A, g, i)]
<1> DEFINE Upto == {n \in 0..Len(s) : \E g : g = [i \in 0..n |-> KeptOf(s, A, g, i)]}
<1>1. 0 \in Upto
  <2> DEFINE g == [i \in 0..0 |-> <<>>]
  <2>1. g = [i \in 0..0 |-> KeptOf(s, A, g, i)]
    BY DEF KeptOf
  <2> QED
    BY <2>1
<1>2. ASSUME NEW n \in 1..Len(s), n - 1 \in Upto PROVE n \in Upto
  <2>1. PICK g : g = [i \in 0..(n - 1) |-> KeptOf(s, A, g, i)]
    BY <1>2
  <2> DEFINE f == [i \in 0..n |-> KeptOf(s, A, g, i)]
  <2>2. \A i \in 0..(n - 1) : f[i] = g[i]
    BY <2>1
  <2>3. \A i \in 0..n : i # 0 => i - 1 \in 0..(n - 1)
    OBVIOUS
  <2>4. \A i \in 0..n : KeptOf(s, A, f, i) = KeptOf(s, A, g, i)
    <3> HIDE DEF f
    <3> QED
      BY <2>2, <2>3 DEF KeptOf
  <2>5. f = [i \in 0..n |-> KeptOf(s, A, f, i)]
    BY <2>4
  <2> HIDE DEF f
  <2> QED
    BY <2>5
<1> HIDE DEF Upto
<1>3. Len(s) \in Nat /\ \A n \in 1..Len(s) : n - 1 \in Upto => n \in Upto
  BY <1>2
<1>4. 0..Len(s) \subseteq Upto
  BY <1>1, <1>3, StepByStep
<1> QED
  BY <1>3, <1>4 DEF Upto

LEMMA DropKept ==
  ASSUME NEW S, NEW s \in Seq(S), NEW A
  PROVE  \E g : g = [i \in 0..Len(s) |-> KeptOf(s, A, g, i)] /\ Drop(s, A) = g[Len(s)]
<1> DEFINE g == CHOOSE g : g = [i \in 0..Len(s) |-> KeptOf(s, A, g, i)]
<1>1. g = [i \in 0..Len(s) |-> KeptOf(s, A, g, i)]
  BY KeptExists
<1>2. Drop(s, A) = g[Len(s)]
  BY DEF Drop, KeptOf
<1> QED
  BY <1>1, <1>2

\* r lists what s lists outside A, once each if s does.
Filters(s, r, A) ==
  /\ r \in Seq(ToSet(s) \ A) /\ ToSet(r) = ToSet(s) \ A
  /\ Distinct(s) => Distinct(r)

LEMMA DropFilters ==
  ASSUME NEW S, NEW s \in Seq(S), NEW A
  PROVE  Filters(s, Drop(s, A), A)
<1>1. PICK g : g = [i \in 0..Len(s) |-> KeptOf(s, A, g, i)] /\ Drop(s, A) = g[Len(s)]
  BY DropKept
<1> DEFINE Early(n) == {s[i] : i \in 1..n} \ A
           Good == {n \in 0..Len(s) : /\ g[n] \in Seq(Early(n)) /\ ToSet(g[n]) = Early(n)
                                      /\ Distinct(s) => Distinct(g[n])}
<1>2. 0 \in Good
  <2>1. g[0] = <<>> /\ Early(0) = {}
    BY <1>1 DEF KeptOf
  <2>2. g[0] \in Seq(Early(0)) /\ ToSet(g[0]) = {} /\ Distinct(g[0])
    BY <2>1 DEF ToSet, Distinct
  <2>3. 0 \in 0..Len(s)
    OBVIOUS
  <2> HIDE DEF Early
  <2> QED
    BY <2>1, <2>2, <2>3
<1>3. ASSUME NEW n \in 1..Len(s), n - 1 \in Good PROVE n \in Good
  <2> DEFINE r == g[n - 1]
  <2>1. r \in Seq(Early(n - 1)) /\ ToSet(r) = Early(n - 1) /\ (Distinct(s) => Distinct(r))
    BY <1>3
  <2>2. g[n] = IF s[n] \in A THEN r ELSE Append(r, s[n])
    <3>1. g[n] = KeptOf(s, A, g, n)
      BY <1>1
    <3> QED
      BY <3>1 DEF KeptOf
  <2>3. Early(n) = Early(n - 1) \cup ({s[n]} \ A)
    <3>1. \A i \in 1..n : i = n \/ i \in 1..(n - 1)
      OBVIOUS
    <3> QED
      BY <3>1
  <2>4. Distinct(s) /\ s[n] \notin A => s[n] \notin Early(n - 1)
    BY DEF Distinct
  <2> HIDE DEF Early, r
  <2>5. CASE s[n] \in A
    <3>1. Early(n) = Early(n - 1) /\ g[n] = r
      BY <2>2, <2>3, <2>5
    <3> QED
      BY <2>1, <3>1
  <2>6. CASE s[n] \notin A
    <3>1. Early(n) = Early(n - 1) \cup {s[n]} /\ g[n] = Append(r, s[n])
      BY <2>2, <2>3, <2>6
    <3>2. r \in Seq(Early(n))
      BY <2>1, <3>1
    <3>3. g[n] \in Seq(Early(n)) /\ Len(g[n]) = Len(r) + 1
          /\ \A i \in 1..Len(r) : g[n][i] = r[i]
          /\ g[n][Len(r) + 1] = s[n]
      BY <3>1, <3>2
    <3>4. ToSet(g[n]) = Early(n)
      <4>1. \A x : x \in ToSet(g[n]) <=> \E i \in 1..(Len(r) + 1) : x = g[n][i]
        BY <3>3, InList
      <4>2. \A x : x \in Early(n - 1) <=> \E i \in 1..Len(r) : x = r[i]
        BY <2>1, InList
      <4>3. \A i \in 1..(Len(r) + 1) : i \in 1..Len(r) \/ i = Len(r) + 1
        BY <2>1
      <4>4. Len(r) + 1 \in 1..(Len(r) + 1) /\ \A i \in 1..Len(r) : i \in 1..(Len(r) + 1)
        BY <2>1
      <4> QED
        BY <3>1, <3>3, <4>1, <4>2, <4>3, <4>4
    <3>5. Distinct(s) => Distinct(g[n])
      <4> SUFFICES ASSUME Distinct(s), NEW i \in 1..(Len(r) + 1), NEW j \in 1..(Len(r) + 1),
                          g[n][i] = g[n][j]
                   PROVE  i = j
        BY <3>3 DEF Distinct
      <4>1. s[n] \notin ToSet(r) /\ Distinct(r)
        BY <2>1, <2>4, <2>6
      <4>2. \A l \in 1..Len(r) : r[l] # s[n]
        BY <2>1, <4>1, InList
      <4> QED
        BY <2>1, <3>3, <4>1, <4>2 DEF Distinct
    <3> QED
      BY <3>3, <3>4, <3>5
  <2> QED
    BY <2>5, <2>6
<1> HIDE DEF Good
<1>4. Len(s) \in Good
  <2>1. Len(s) \in Nat /\ \A n \in 1..Len(s) : n - 1 \in Good => n \in Good
    BY <1>3
  <2>2. 0..Len(s) \subseteq Good
    BY <1>2, <2>1, StepByStep
  <2> QED
    BY <2>1, <2>2
<1>5. Early(Len(s)) = ToSet(s) \ A
  BY DEF ToSet
<1> QED
  BY <1>1, <1>4, <1>5 DEF Good, Filters

\* t is one list after another.
Joins(S, s, r, t) ==
  /\ t \in Seq(S) /\ ToSet(t) = ToSet(s) \cup ToSet(r)
  /\ Distinct(s) /\ Distinct(r) /\ ToSet(s) \cap ToSet(r) = {} => Distinct(t)

LEMMA Joined ==
  ASSUME NEW S, NEW s \in Seq(S), NEW r \in Seq(S)
  PROVE  Joins(S, s, r, s \o r)
<1>1. /\ s \o r \in Seq(S) /\ Len(s \o r) = Len(s) + Len(r)
      /\ \A i \in 1..Len(s) : (s \o r)[i] = s[i]
      /\ \A i \in (Len(s) + 1)..(Len(s) + Len(r)) : (s \o r)[i] = r[i - Len(s)]
  OBVIOUS
<1>2. \A i \in 1..(Len(s) + Len(r)) : i \in 1..Len(s) \/ i - Len(s) \in 1..Len(r)
  OBVIOUS
<1>3. \A i \in 1..Len(r) : i + Len(s) \in (Len(s) + 1)..(Len(s) + Len(r)) /\ (i + Len(s)) - Len(s) = i
  OBVIOUS
<1> DEFINE t == s \o r
<1>4. \A i \in 1..Len(r) : t[i + Len(s)] = r[i]
  BY <1>1, <1>3
<1>5. \A i \in 1..(Len(s) + Len(r)) : i \in 1..Len(s) \/ (i - Len(s) \in 1..Len(r) /\ t[i] = r[i - Len(s)])
  BY <1>1, <1>2
<1> HIDE DEF t
<1>6. ToSet(t) = ToSet(s) \cup ToSet(r)
  <2>1. \A x : x \in ToSet(t) <=> \E i \in 1..(Len(s) + Len(r)) : x = t[i]
    <3>1. t \in Seq(S) /\ Len(t) = Len(s) + Len(r)
      BY <1>1 DEF t
    <3> QED
      BY <3>1, InList
  <2>2. \A x : x \in ToSet(s) <=> \E i \in 1..Len(s) : x = s[i]
    BY InList
  <2>3. \A x : x \in ToSet(r) <=> \E i \in 1..Len(r) : x = r[i]
    BY InList
  <2>4. ASSUME NEW x \in ToSet(t) PROVE x \in ToSet(s) \cup ToSet(r)
    BY <1>1, <1>5, <2>1, <2>2, <2>3 DEF t
  <2>5. ASSUME NEW x \in ToSet(s) PROVE x \in ToSet(t)
    <3>1. PICK i \in 1..Len(s) : x = s[i]
      BY <2>2
    <3>2. i \in 1..(Len(s) + Len(r)) /\ t[i] = x
      BY <1>1, <3>1 DEF t
    <3> QED
      BY <2>1, <3>2
  <2>6. ASSUME NEW x \in ToSet(r) PROVE x \in ToSet(t)
    <3>1. PICK i \in 1..Len(r) : x = r[i]
      BY <2>3
    <3>2. i + Len(s) \in 1..(Len(s) + Len(r)) /\ t[i + Len(s)] = x
      BY <1>4, <3>1
    <3> QED
      BY <2>1, <3>2
  <2> QED
    BY <2>4, <2>5, <2>6
<1>7. ASSUME Distinct(s), Distinct(r), ToSet(s) \cap ToSet(r) = {}
      PROVE  Distinct(t)
  <2> SUFFICES ASSUME NEW i \in 1..(Len(s) + Len(r)), NEW j \in 1..(Len(s) + Len(r)), t[i] = t[j]
               PROVE  i = j
    BY <1>1 DEF Distinct, t
  <2>1. \A k \in 1..Len(s), l \in 1..Len(r) : s[k] # r[l]
    BY <1>7, InList
  <2>2. CASE i \in 1..Len(s) /\ j \in 1..Len(s)
    BY <1>1, <1>7, <2>2 DEF Distinct, t
  <2>3. CASE i \notin 1..Len(s) /\ j \notin 1..Len(s)
    <3>1. i - Len(s) \in 1..Len(r) /\ j - Len(s) \in 1..Len(r) /\ r[i - Len(s)] = r[j - Len(s)]
      BY <1>5, <2>3
    <3>2. i - Len(s) = j - Len(s)
      BY <1>7, <3>1 DEF Distinct
    <3> QED
      BY <3>2
  <2>4. CASE i \in 1..Len(s) /\ j \notin 1..Len(s)
    BY <1>1, <1>5, <2>1, <2>4 DEF t
  <2>5. CASE i \notin 1..Len(s) /\ j \in 1..Len(s)
    BY <1>1, <1>5, <2>1, <2>5 DEF t
  <2> QED
    BY <2>2, <2>3, <2>4, <2>5
<1> QED
  BY <1>1, <1>6, <1>7 DEF Joins, t

-----------------------------------------------------------------------------
(* The shared state: what every function under the write lock keeps *)

\* c is a record with the fields of Shared.
IsShared(c) ==
  c \in [mem : {c.mem}, slots : {c.slots}, gc : {c.gc}, mem_size : {c.mem_size},
         nentries : {c.nentries}]

\* The list of a slot: entries of that slot, each key once, none of them removed.
ListSound(c, s) ==
  /\ c.slots[s] \in Seq(DOMAIN c.mem) /\ Distinct(c.slots[s])
  /\ \A a \in ToSet(c.slots[s]) : SlotOf[c.mem[a].key] = s /\ a \notin c.gc
  /\ \A a, b \in ToSet(c.slots[s]) : c.mem[a].key = c.mem[b].key => a = b

Entries(m) == m \in [DOMAIN m -> Entry] /\ IsHeap(m) /\ Disjoint(m)

Sound(c) ==
  /\ IsShared(c) /\ Entries(c.mem)
  /\ c.slots = [s \in Slot |-> c.slots[s]] /\ \A s \in Slot : ListSound(c, s)
  /\ c.gc \subseteq DOMAIN c.mem

\* Entries on no list: allocated, but not inserted yet.
Loose(c) == DOMAIN c.mem \ (AllLinked(c) \cup c.gc)

\* The entries at H are referenced, and none of them is overdue.
Pinned(c, H) ==
  \A a \in H : /\ a \in DOMAIN c.mem /\ c.mem[a].ref > 0
               /\ a \in c.gc => ~Overdue(c.mem[a])

State(c, H) == Sound(c) /\ Loose(c) \subseteq H /\ Pinned(c, H)

\* From c to d, the entries at H stay, with their keys and counts, and the others
\* carry the counts that others had.
Carries(c, d, H) ==
  /\ State(d, H)
  /\ \A a \in H : d.mem[a].key = c.mem[a].key /\ d.mem[a].ref = c.mem[a].ref
  /\ \A a \in DOMAIN d.mem \ H :
       \E b \in DOMAIN c.mem \ H : d.mem[a].ref = c.mem[b].ref

\* And nothing was inserted.
Keeps(c, d, H) == Carries(c, d, H) /\ Loose(d) = Loose(c)

LEMMA CarriesBoth ==
  ASSUME NEW c, NEW d, NEW e, NEW H, Carries(c, d, H), Carries(d, e, H)
  PROVE  Carries(c, e, H)
<1>1. ASSUME NEW a \in DOMAIN e.mem \ H
      PROVE  \E b \in DOMAIN c.mem \ H : e.mem[a].ref = c.mem[b].ref
  <2>1. PICK b \in DOMAIN d.mem \ H : e.mem[a].ref = d.mem[b].ref
    BY DEF Carries
  <2>2. PICK f \in DOMAIN c.mem \ H : d.mem[b].ref = c.mem[f].ref
    BY DEF Carries
  <2> QED
    BY <2>1, <2>2
<1> QED
  BY <1>1 DEF Carries

LEMMA KeepsBoth ==
  ASSUME NEW c, NEW d, NEW e, NEW H, Keeps(c, d, H), Keeps(d, e, H)
  PROVE  Keeps(c, e, H)
BY CarriesBoth DEF Keeps

\* g has some of the entries of m, with the same keys, lengths and counts.
Thins(m, g) ==
  /\ DOMAIN g \subseteq DOMAIN m /\ g \in [DOMAIN g -> Entry]
  /\ \A a \in DOMAIN g : g[a].key = m[a].key /\ g[a].len = m[a].len /\ g[a].ref = m[a].ref

LEMMA EntryHeap ==
  ASSUME NEW m, m \in [DOMAIN m -> Entry], DOMAIN m \subseteq 1..Cells
  PROVE  IsHeap(m)
<1>1. \A a \in DOMAIN m : m[a].len \in Lens
  BY DEF Entry
<1> QED
  BY <1>1, CacheAssumption DEF IsHeap, Hdr

LEMMA ThinEntries ==
  ASSUME NEW m, NEW g, Entries(m), Thins(m, g)
  PROVE  Entries(g)
<1>1. DOMAIN g \subseteq 1..Cells /\ g \in [DOMAIN g -> Entry]
  BY DEF Entries, Thins, IsHeap
<1>2. IsHeap(g)
  BY <1>1, EntryHeap
<1>3. Disjoint(g)
  BY DisjointSubset DEF Entries, Thins
<1> QED
  BY <1>1, <1>2, <1>3 DEF Entries

LEMMA ThinSound ==
  ASSUME NEW c, NEW d, Sound(c), IsShared(d), Thins(c.mem, d.mem),
         d.slots = [s \in Slot |-> d.slots[s]], d.gc \subseteq DOMAIN d.mem,
         \A s \in Slot : /\ d.slots[s] \in Seq(DOMAIN d.mem) /\ Distinct(d.slots[s])
                         /\ ToSet(d.slots[s]) \subseteq ToSet(c.slots[s])
                         /\ ToSet(d.slots[s]) \cap d.gc = {}
  PROVE  Sound(d)
<1>1. Entries(d.mem)
  BY ThinEntries DEF Sound
<1>2. ASSUME NEW s \in Slot PROVE ListSound(d, s)
  <2>1. ListSound(c, s)
    BY DEF Sound
  <2>2. ToSet(d.slots[s]) \subseteq DOMAIN d.mem
    <3>1. d.slots[s] \in Seq(DOMAIN d.mem)
      OBVIOUS
    <3> QED
      BY <3>1, InList
  <2>3. \A a \in ToSet(d.slots[s]) : d.mem[a].key = c.mem[a].key /\ a \in ToSet(c.slots[s])
    BY <2>2 DEF Thins
  <2>4. \A a \in ToSet(d.slots[s]) : a \notin d.gc
    OBVIOUS
  <2> QED
    BY <2>1, <2>3, <2>4 DEF ListSound
<1> QED
  BY <1>1, <1>2 DEF Sound

LEMMA InLinked ==
  ASSUME NEW c, NEW a
  PROVE  a \in AllLinked(c) <=> \E s \in Slot : a \in ToSet(c.slots[s])
BY DEF AllLinked

\* The lists of a sound state.
LEMMA SoundLists ==
  ASSUME NEW c, Sound(c)
  PROVE  /\ AllLinked(c) \subseteq DOMAIN c.mem /\ AllLinked(c) \cap c.gc = {}
         /\ \A s \in Slot : ToSet(c.slots[s]) \subseteq AllLinked(c)
         /\ \A s \in Slot, a \in AllLinked(c) :
              a \in ToSet(c.slots[s]) <=> SlotOf[c.mem[a].key] = s
<1>1. ASSUME NEW s \in Slot
      PROVE  \A a \in ToSet(c.slots[s]) :
               a \in DOMAIN c.mem /\ a \notin c.gc /\ SlotOf[c.mem[a].key] = s
  <2>1. ListSound(c, s) /\ c.slots[s] \in Seq(DOMAIN c.mem)
    BY DEF Sound, ListSound
  <2>2. ToSet(c.slots[s]) \subseteq DOMAIN c.mem
    BY <2>1, InList
  <2> QED
    BY <2>1, <2>2 DEF ListSound
<1> QED
  BY <1>1, InLinked

\* Where RemoveAll leaves each entry.
Removes(c, d, A) ==
  /\ IsShared(d) /\ DOMAIN d.mem = DOMAIN c.mem \ Unreferenced(c, A)
  /\ d.mem = [a \in DOMAIN d.mem |-> d.mem[a]]
  /\ \A a \in DOMAIN d.mem :
       d.mem[a] = IF a \in A THEN [c.mem[a] EXCEPT !.dtime = now] ELSE c.mem[a]
  /\ d.slots = [s \in Slot |-> d.slots[s]]
  /\ \A s \in Slot : Filters(c.slots[s], d.slots[s], A)
  /\ d.gc = c.gc \cup (A \ Unreferenced(c, A))

LEMMA RemoveAllRemoves ==
  ASSUME NEW c, Sound(c), NEW A
  PROVE  /\ Removes(c, RemoveAll(c, A), A)
         /\ RemoveAll(c, A).mem_size = Minus(c.mem_size, Bytes(c.mem, A))
         /\ RemoveAll(c, A).nentries = Minus(c.nentries, Cardinality(A))
<1> DEFINE d == RemoveAll(c, A)
<1>1. \A s \in Slot : Filters(c.slots[s], Drop(c.slots[s], A), A)
  <2> SUFFICES ASSUME NEW s \in Slot PROVE Filters(c.slots[s], Drop(c.slots[s], A), A)
    OBVIOUS
  <2>1. c.slots[s] \in Seq(DOMAIN c.mem)
    BY DEF Sound, ListSound
  <2> QED
    BY <2>1, DropFilters
<1>2. /\ d.mem = [a \in DOMAIN c.mem \ Unreferenced(c, A) |->
                    IF a \in A THEN [c.mem[a] EXCEPT !.dtime = now] ELSE c.mem[a]]
      /\ d.slots = [s \in Slot |-> Drop(c.slots[s], A)]
      /\ d.gc = c.gc \cup (A \ Unreferenced(c, A))
      /\ d.mem_size = Minus(c.mem_size, Bytes(c.mem, A))
      /\ d.nentries = Minus(c.nentries, Cardinality(A))
      /\ IsShared(d)
  BY DEF RemoveAll, IsShared
<1> HIDE DEF d
<1>3. /\ d.mem = [a \in DOMAIN d.mem |-> d.mem[a]]
      /\ DOMAIN d.mem = DOMAIN c.mem \ Unreferenced(c, A)
      /\ \A a \in DOMAIN d.mem :
           d.mem[a] = IF a \in A THEN [c.mem[a] EXCEPT !.dtime = now] ELSE c.mem[a]
  BY <1>2
<1>4. /\ d.slots = [s \in Slot |-> d.slots[s]]
      /\ \A s \in Slot : Filters(c.slots[s], d.slots[s], A)
  BY <1>1, <1>2
<1> QED
  BY <1>2, <1>3, <1>4 DEF Removes, d

LEMMA RemovesKeeps ==
  ASSUME now \in Time, NEW c, NEW H, State(c, H), NEW A \in SUBSET AllLinked(c),
         NEW d, Removes(c, d, A)
  PROVE  Keeps(c, d, H) /\ AllLinked(d) = AllLinked(c) \ A
<1> DEFINE freed == Unreferenced(c, A)
<1>1. /\ AllLinked(c) \subseteq DOMAIN c.mem /\ AllLinked(c) \cap c.gc = {}
      /\ \A s \in Slot : ToSet(c.slots[s]) \subseteq AllLinked(c)
  BY SoundLists DEF State
<1>2. freed \subseteq A /\ \A a \in freed : c.mem[a].ref <= 0
  BY DEF Unreferenced
<1>3. \A a \in DOMAIN c.mem : c.mem[a] \in Entry /\ c.mem[a].ref \in Int
  BY DEF State, Sound, Entries, Entry
<1>4. \A a \in A \ freed : c.mem[a].ref > 0
  BY <1>1, <1>3 DEF Unreferenced
<1>5. \A a \in DOMAIN d.mem :
        /\ a \in DOMAIN c.mem /\ d.mem[a] \in Entry
        /\ d.mem[a].key = c.mem[a].key /\ d.mem[a].len = c.mem[a].len
        /\ d.mem[a].ref = c.mem[a].ref
        /\ a \in A => d.mem[a].dtime = now
        /\ a \notin A => d.mem[a] = c.mem[a]
  <2> SUFFICES ASSUME NEW a \in DOMAIN d.mem
               PROVE  <1>5!(a)
    OBVIOUS
  <2>1. a \in DOMAIN c.mem
    BY DEF Removes
  <2>2. CASE a \in A
    <3>1. d.mem[a] = [c.mem[a] EXCEPT !.dtime = now]
      BY <2>2 DEF Removes
    <3>2. c.mem[a] \in Entry
      BY <1>3, <2>1
    <3> QED
      BY <2>1, <2>2, <3>1, <3>2 DEF Entry
  <2>3. CASE a \notin A
    <3>1. d.mem[a] = c.mem[a]
      BY <2>3 DEF Removes
    <3> QED
      BY <1>3, <2>1, <2>3, <3>1
  <2> QED
    BY <2>2, <2>3
<1>6. Thins(c.mem, d.mem)
  <2>1. d.mem \in [DOMAIN d.mem -> Entry]
    <3>1. d.mem = [a \in DOMAIN d.mem |-> d.mem[a]]
      BY DEF Removes
    <3> QED
      BY <1>5, <3>1
  <2> QED
    BY <1>5, <2>1 DEF Thins
<1>7. \A s \in Slot : /\ d.slots[s] \in Seq(DOMAIN d.mem) /\ Distinct(d.slots[s])
                      /\ ToSet(d.slots[s]) = ToSet(c.slots[s]) \ A
                      /\ ToSet(d.slots[s]) \cap d.gc = {}
  <2> SUFFICES ASSUME NEW s \in Slot
               PROVE  <1>7!(s)
    OBVIOUS
  <2>1. Filters(c.slots[s], d.slots[s], A) /\ Distinct(c.slots[s])
    BY DEF Removes, State, Sound, ListSound
  <2>2. ToSet(c.slots[s]) \ A \subseteq DOMAIN d.mem
    BY <1>1, <1>2 DEF Removes
  <2>3. d.slots[s] \in Seq(DOMAIN d.mem)
    BY <2>1, <2>2 DEF Filters
  <2>4. (ToSet(c.slots[s]) \ A) \cap d.gc = {}
    BY <1>1 DEF Removes
  <2> QED
    BY <2>1, <2>3, <2>4 DEF Filters
<1>8. AllLinked(d) = AllLinked(c) \ A
  BY <1>7 DEF AllLinked
<1>9. d.gc \subseteq DOMAIN d.mem
  BY <1>1, <1>2 DEF Removes, State, Sound
<1>10. Sound(d)
  BY <1>6, <1>7, <1>9, ThinSound DEF Removes, State
<1>11. Loose(d) = Loose(c)
  BY <1>1, <1>2, <1>8 DEF Loose, Removes
<1>12. Pinned(d, H)
  <2> SUFFICES ASSUME NEW a \in H
               PROVE  /\ a \in DOMAIN d.mem /\ d.mem[a].ref > 0
                      /\ a \in d.gc => ~Overdue(d.mem[a])
    BY DEF Pinned
  <2>1. a \in DOMAIN c.mem /\ c.mem[a].ref > 0 /\ (a \in c.gc => ~Overdue(c.mem[a]))
    BY DEF State, Pinned
  <2>2. a \notin freed
    BY <1>2, <1>3, <2>1
  <2>3. a \in DOMAIN d.mem
    BY <2>1, <2>2 DEF Removes
  <2>4. a \in A => ~Overdue(d.mem[a])
    BY <1>5, <2>3, CacheAssumption DEF Overdue, Time
  <2>5. a \notin A /\ a \in d.gc => a \in c.gc
    BY DEF Removes
  <2> QED
    BY <1>5, <2>1, <2>3, <2>4, <2>5
<1> QED
  BY <1>5, <1>8, <1>10, <1>11, <1>12 DEF Keeps, Carries, State, Pinned

\* The gc list is processed: what is unreferenced or overdue on it is freed.
LEMMA GcKeeps ==
  ASSUME NEW c, NEW H, State(c, H)
  PROVE  /\ Keeps(c, Gc(c), H) /\ AllLinked(Gc(c)) = AllLinked(c)
         /\ Gc(c).slots = c.slots /\ DOMAIN Gc(c).mem \subseteq DOMAIN c.mem
         /\ \A a \in DOMAIN Gc(c).mem : Gc(c).mem[a] = c.mem[a]
         /\ Gc(c).mem_size = c.mem_size /\ Gc(c).nentries = c.nentries
<1> DEFINE stays == {a \in c.gc : c.mem[a].ref > 0 /\ ~Overdue(c.mem[a])}
           d == Gc(c)
<1>1. /\ d.mem = Without(c.mem, c.gc \ stays) /\ d.gc = stays /\ d.slots = c.slots
      /\ d.mem_size = c.mem_size /\ d.nentries = c.nentries /\ IsShared(d)
  BY DEF Gc, IsShared, State, Sound
<1>2. /\ AllLinked(c) \subseteq DOMAIN c.mem /\ AllLinked(c) \cap c.gc = {}
      /\ \A s \in Slot : ToSet(c.slots[s]) \subseteq AllLinked(c)
  BY SoundLists DEF State
<1>3. Entries(c.mem)
  BY DEF State, Sound
<1>4. Loses(c.mem, d.mem, c.gc \ stays)
  BY <1>1, <1>3, WithoutHeap DEF Entries
<1> HIDE DEF d
<1>5. /\ DOMAIN d.mem = DOMAIN c.mem \ (c.gc \ stays)
      /\ \A a \in DOMAIN d.mem : d.mem[a] = c.mem[a] /\ a \in DOMAIN c.mem /\ c.mem[a] \in Entry
  BY <1>3, <1>4 DEF Loses, Entries
<1>6. Thins(c.mem, d.mem)
  <2>1. d.mem = [a \in DOMAIN d.mem |-> d.mem[a]]
    BY <1>1, <1>5 DEF Without
  <2> QED
    BY <1>5, <2>1 DEF Thins
<1>7. \A s \in Slot : /\ d.slots[s] \in Seq(DOMAIN d.mem) /\ Distinct(d.slots[s])
                      /\ ToSet(d.slots[s]) \subseteq ToSet(c.slots[s])
                      /\ ToSet(d.slots[s]) \cap d.gc = {}
  <2> SUFFICES ASSUME NEW s \in Slot
               PROVE  <1>7!(s)
    OBVIOUS
  <2>1. ToSet(c.slots[s]) \subseteq DOMAIN d.mem /\ ToSet(c.slots[s]) \cap d.gc = {}
    BY <1>1, <1>2, <1>5
  <2>2. c.slots[s] \in Seq(DOMAIN c.mem) /\ Distinct(c.slots[s])
    BY DEF State, Sound, ListSound
  <2>3. c.slots[s] \in Seq(DOMAIN d.mem)
    BY <2>1, <2>2 DEF ToSet
  <2> QED
    BY <1>1, <2>1, <2>2, <2>3
<1>8. d.slots = [s \in Slot |-> d.slots[s]] /\ d.gc \subseteq DOMAIN d.mem
  BY <1>1, <1>5 DEF State, Sound
<1>9. Sound(d)
  BY <1>1, <1>6, <1>7, <1>8, ThinSound DEF State
<1>10. AllLinked(d) = AllLinked(c)
  BY <1>1 DEF AllLinked
<1>11. Loose(d) = Loose(c)
  BY <1>1, <1>5, <1>10 DEF Loose
<1>12. Pinned(d, H)
  <2> SUFFICES ASSUME NEW a \in H
               PROVE  /\ a \in DOMAIN d.mem /\ d.mem[a].ref > 0
                      /\ a \in d.gc => ~Overdue(d.mem[a])
    BY DEF Pinned
  <2>1. a \in DOMAIN c.mem /\ c.mem[a].ref > 0 /\ (a \in c.gc => ~Overdue(c.mem[a]))
    BY DEF State, Pinned
  <2> QED
    BY <1>1, <1>5, <2>1
<1> QED
  BY <1>1, <1>5, <1>9, <1>10, <1>11, <1>12 DEF Keeps, Carries, State, Pinned, d

\* Every entry is removed.
LEMMA ExpungeKeeps ==
  ASSUME now \in Time, NEW c, NEW H, State(c, H)
  PROVE  Keeps(c, RealExpunge(c), H) /\ AllLinked(RealExpunge(c)) = {}
<1> DEFINE r == RemoveAll(c, AllLinked(c))
           d == RealExpunge(c)
<1>1. Removes(c, r, AllLinked(c))
  BY RemoveAllRemoves DEF State
<1> HIDE DEF r
<1>2. d.mem = r.mem /\ d.slots = r.slots /\ d.gc = r.gc /\ IsShared(d)
  BY <1>1 DEF RealExpunge, Removes, IsShared, r
<1> HIDE DEF d
<1>3. Removes(c, d, AllLinked(c))
  BY <1>1, <1>2 DEF Removes
<1> QED
  BY <1>3, RemovesKeeps DEF d

\* Defragmentation: entries that are referenced stay where they are, and every
\* list follows the others.
Redirects(c, d, to) ==
  /\ IsShared(d) /\ Entries(d.mem)
  /\ \A a, b \in DOMAIN c.mem : to[a] = to[b] => a = b
  /\ \A a \in DOMAIN c.mem : c.mem[a].ref > 0 => to[a] = a
  /\ DOMAIN d.mem = {to[a] : a \in DOMAIN c.mem}
  /\ \A a \in DOMAIN c.mem : d.mem[to[a]] = c.mem[a]
  /\ d.slots = [s \in Slot |-> [i \in DOMAIN c.slots[s] |-> to[c.slots[s][i]]]]
  /\ d.gc = {to[a] : a \in c.gc}

LEMMA DefragRedirects ==
  ASSUME NEW c, Sound(c)
  PROVE  /\ \E to : Redirects(c, Defrag(c), to)
         /\ Defrag(c).mem_size = c.mem_size /\ Defrag(c).nentries = c.nentries
<1> DEFINE pinned == {a \in DOMAIN c.mem : c.mem[a].ref > 0}
           used == Lengths(c.mem)
           to == Slide(c.mem, pinned, used)
           d == Defrag(c)
<1>1. /\ d.mem = Moved(c.mem, to)
      /\ d.slots = [s \in Slot |-> [i \in DOMAIN c.slots[s] |-> to[c.slots[s][i]]]]
      /\ d.gc = {to[a] : a \in c.gc}
      /\ d.mem_size = c.mem_size /\ d.nentries = c.nentries /\ IsShared(d)
  BY DEF Defrag, IsShared, Sound
<1>2. IsHeap(c.mem) /\ Disjoint(c.mem) /\ c.mem \in [DOMAIN c.mem -> Entry]
  BY DEF Sound, Entries
<1>3. \A a \in DOMAIN c.mem : used[a] = c.mem[a].len /\ used[a] \in 1..c.mem[a].len
  BY <1>2 DEF Lengths, IsHeap
<1> HIDE DEF used, d
<1>4. \A a \in DOMAIN c.mem : c.mem[a].len = NewLen(c.mem, used, to, a)
  BY <1>3 DEF NewLen
<1>5. /\ \A a, b \in DOMAIN c.mem : to[a] = to[b] => a = b
      /\ IsHeap(Moved(c.mem, to)) /\ Disjoint(Moved(c.mem, to))
  BY <1>2, <1>3, <1>4, SlideHeap
<1>6. \A a \in DOMAIN c.mem \cap pinned : to[a] = a
  BY <1>2, <1>3, SlideFacts
<1> HIDE DEF to
<1>7. /\ DOMAIN d.mem = {to[a] : a \in DOMAIN c.mem}
      /\ \A a \in DOMAIN c.mem : d.mem[to[a]] = c.mem[a]
  <2>1. /\ DOMAIN Moved(c.mem, to) = {to[a] : a \in DOMAIN c.mem}
        /\ \A a \in DOMAIN c.mem : Moved(c.mem, to)[to[a]] = c.mem[a]
    BY <1>5, MovedBlocks
  <2> QED
    BY <1>1, <2>1
<1>8. Entries(d.mem)
  <2>1. d.mem = [a \in DOMAIN d.mem |-> d.mem[a]]
    BY <1>1, <1>7 DEF Moved
  <2>2. \A a \in DOMAIN d.mem : d.mem[a] \in Entry
    BY <1>2, <1>7
  <2>3. d.mem \in [DOMAIN d.mem -> Entry]
    BY <2>1, <2>2
  <2> QED
    BY <1>1, <1>5, <2>3 DEF Entries
<1>9. Redirects(c, d, to)
  BY <1>1, <1>5, <1>6, <1>7, <1>8 DEF Redirects
<1> QED
  BY <1>1, <1>9 DEF d

LEMMA RedirectsKeeps ==
  ASSUME NEW c, NEW H, State(c, H), NEW d, NEW to, Redirects(c, d, to)
  PROVE  Keeps(c, d, H) /\ AllLinked(d) = {to[a] : a \in AllLinked(c)}
<1>1. /\ AllLinked(c) \subseteq DOMAIN c.mem /\ AllLinked(c) \cap c.gc = {}
      /\ \A s \in Slot : ToSet(c.slots[s]) \subseteq AllLinked(c)
      /\ c.gc \subseteq DOMAIN c.mem
  BY SoundLists DEF State, Sound
<1>2. ASSUME NEW s \in Slot
      PROVE  /\ d.slots[s] \in Seq(DOMAIN d.mem) /\ Distinct(d.slots[s])
             /\ ToSet(d.slots[s]) = {to[a] : a \in ToSet(c.slots[s])}
  <2> DEFINE l == c.slots[s]
  <2>1. l \in Seq(DOMAIN c.mem) /\ Distinct(l)
    BY DEF State, Sound, ListSound
  <2>2. d.slots[s] = [i \in 1..Len(l) |-> to[l[i]]]
    BY <2>1 DEF Redirects
  <2>3. \A i \in 1..Len(l) : l[i] \in DOMAIN c.mem /\ to[l[i]] \in DOMAIN d.mem
    BY <2>1 DEF Redirects
  <2> HIDE DEF l
  <2>4. d.slots[s] \in Seq(DOMAIN d.mem) /\ Len(d.slots[s]) = Len(l)
    BY <2>1, <2>2, <2>3
  <2>5. Distinct(d.slots[s])
    BY <2>1, <2>2, <2>3 DEF Distinct, Redirects
  <2>6. ToSet(d.slots[s]) = {to[a] : a \in ToSet(l)}
    <3>1. \A x : x \in ToSet(d.slots[s]) <=> \E i \in 1..Len(l) : x = to[l[i]]
      BY <2>2, <2>4, InList
    <3>2. \A x : x \in ToSet(l) <=> \E i \in 1..Len(l) : x = l[i]
      BY <2>1, InList
    <3> QED
      BY <3>1, <3>2
  <2> QED
    BY <2>4, <2>5, <2>6 DEF l
<1>3. AllLinked(d) = {to[a] : a \in AllLinked(c)}
  <2>1. \A x : x \in AllLinked(d) <=> \E s \in Slot : \E a \in ToSet(c.slots[s]) : x = to[a]
    <3>1. \A x : x \in AllLinked(d) <=> \E s \in Slot : x \in ToSet(d.slots[s])
      BY InLinked
    <3>2. \A s \in Slot : \A x : x \in ToSet(d.slots[s]) <=> \E a \in ToSet(c.slots[s]) : x = to[a]
      BY <1>2
    <3> QED
      BY <3>1, <3>2
  <2>2. \A a : a \in AllLinked(c) <=> \E s \in Slot : a \in ToSet(c.slots[s])
    BY InLinked
  <2>3. \A x : x \in AllLinked(d) <=> \E a \in AllLinked(c) : x = to[a]
    BY <2>1, <2>2
  <2> QED
    BY <2>3
<1>4. ASSUME NEW s \in Slot PROVE ListSound(d, s)
  <2>1. ListSound(c, s)
    BY DEF State, Sound
  <2>2. \A x \in ToSet(d.slots[s]) : \E a \in ToSet(c.slots[s]) :
          x = to[a] /\ a \in DOMAIN c.mem /\ d.mem[x] = c.mem[a] /\ a \notin c.gc
    <3>1. \A x \in ToSet(d.slots[s]) : \E a \in ToSet(c.slots[s]) : x = to[a]
      BY <1>2
    <3>2. \A a \in ToSet(c.slots[s]) : a \in DOMAIN c.mem /\ a \notin c.gc
      BY <1>1
    <3> QED
      BY <3>1, <3>2 DEF Redirects
  <2>3. \A x \in ToSet(d.slots[s]) : SlotOf[d.mem[x].key] = s
    BY <2>1, <2>2 DEF ListSound
  <2>4. \A x \in ToSet(d.slots[s]) : x \notin d.gc
    <3> SUFFICES ASSUME NEW a \in DOMAIN c.mem, a \notin c.gc PROVE to[a] \notin d.gc
      BY <2>2
    <3> QED
      BY <1>1 DEF Redirects
  <2>5. \A x, y \in ToSet(d.slots[s]) : d.mem[x].key = d.mem[y].key => x = y
    BY <2>1, <2>2 DEF ListSound
  <2> QED
    BY <1>2, <2>3, <2>4, <2>5 DEF ListSound
<1>5. Sound(d)
  <2>1. d.slots = [s \in Slot |-> d.slots[s]]
    BY DEF Redirects
  <2>2. d.gc \subseteq DOMAIN d.mem
    BY <1>1 DEF Redirects
  <2> QED
    BY <1>4, <2>1, <2>2 DEF Sound, Redirects
<1>6. \A a \in H : a \in DOMAIN c.mem /\ c.mem[a].ref > 0 /\ to[a] = a /\ d.mem[a] = c.mem[a]
                   /\ a \in DOMAIN d.mem
  BY DEF State, Pinned, Redirects
<1>7. Loose(d) = Loose(c)
  <2>1. Loose(c) \subseteq H
    BY DEF State
  <2>2. \A a \in DOMAIN c.mem : to[a] \in AllLinked(d) <=> a \in AllLinked(c)
    BY <1>1, <1>3 DEF Redirects
  <2>3. \A a \in DOMAIN c.mem : to[a] \in d.gc <=> a \in c.gc
    BY <1>1 DEF Redirects
  <2>4. \A a \in DOMAIN c.mem : to[a] \in Loose(d) <=> a \in Loose(c)
    BY <2>2, <2>3 DEF Loose, Redirects
  <2>5. \A x \in Loose(d) : \E a \in DOMAIN c.mem : x = to[a]
    BY DEF Loose, Redirects
  <2>6. Loose(c) \subseteq DOMAIN c.mem
    BY DEF Loose
  <2>7. Loose(c) \subseteq Loose(d)
    BY <1>6, <2>1, <2>4, <2>6
  <2>8. Loose(d) \subseteq Loose(c)
    BY <1>6, <2>1, <2>4, <2>5
  <2> QED
    BY <2>7, <2>8
<1>8. Pinned(d, H)
  <2> SUFFICES ASSUME NEW a \in H
               PROVE  /\ a \in DOMAIN d.mem /\ d.mem[a].ref > 0
                      /\ a \in d.gc => ~Overdue(d.mem[a])
    BY DEF Pinned
  <2>1. a \in c.gc => ~Overdue(c.mem[a])
    BY DEF State, Pinned
  <2>2. a \in d.gc => a \in c.gc
    BY <1>1, <1>6 DEF Redirects
  <2> QED
    BY <1>6, <2>1, <2>2
<1>9. ASSUME NEW x \in DOMAIN d.mem \ H
      PROVE  \E b \in DOMAIN c.mem \ H : d.mem[x].ref = c.mem[b].ref
  <2>1. PICK b \in DOMAIN c.mem : x = to[b]
    BY DEF Redirects
  <2>2. b \notin H
    BY <1>6, <2>1
  <2> QED
    BY <2>1, <2>2 DEF Redirects
<1> QED
  BY <1>3, <1>5, <1>6, <1>7, <1>8, <1>9 DEF Keeps, Carries, State

LEMMA DefragKeeps ==
  ASSUME NEW c, NEW H, State(c, H)
  PROVE  Keeps(c, Defrag(c), H)
BY DefragRedirects, RedirectsKeeps DEF State

-----------------------------------------------------------------------------
(* Insertion *)

\* f and r are what s lists before and after its i-th element.
Splits(S, s, i, f, r) ==
  /\ f \in Seq(S) /\ Distinct(f) /\ r \in Seq(S) /\ Distinct(r)
  /\ \A x : x \in ToSet(f) <=> \E j \in 1..(i - 1) : x = s[j]
  /\ \A x : x \in ToSet(r) <=> \E j \in (i + 1)..Len(s) : x = s[j]

LEMMA SplitList ==
  ASSUME NEW S, NEW s \in Seq(S), Distinct(s), NEW i \in 1..(Len(s) + 1)
  PROVE  Splits(S, s, i, SubSeq(s, 1, i - 1), SubSeq(s, i + 1, Len(s)))
<1> DEFINE f == SubSeq(s, 1, i - 1)
           r == SubSeq(s, i + 1, Len(s))
<1>1. /\ f \in Seq(S) /\ Len(f) = i - 1 /\ \A j \in 1..(i - 1) : f[j] = s[j]
  OBVIOUS
<1>2. r \in Seq(S)
  OBVIOUS
<1>3. /\ Len(r) = IF i <= Len(s) THEN Len(s) - i ELSE 0
      /\ \A j \in 1..Len(r) : r[j] = s[j + i] /\ j + i \in (i + 1)..Len(s)
  <2>1. CASE i <= Len(s)
    BY <2>1
  <2>2. CASE i = Len(s) + 1
    <3>1. r = <<>>
      BY <2>2
    <3> QED
      BY <2>2, <3>1
  <2> QED
    BY <2>1, <2>2
<1> HIDE DEF f, r
<1>4. Distinct(f)
  BY <1>1 DEF Distinct
<1>5. Distinct(r)
  <2> SUFFICES ASSUME NEW j \in 1..Len(r), NEW k \in 1..Len(r), r[j] = r[k] PROVE j = k
    BY <1>2 DEF Distinct
  <2>1. s[j + i] = s[k + i] /\ j + i \in 1..Len(s) /\ k + i \in 1..Len(s)
    BY <1>3
  <2>2. j + i = k + i
    BY <2>1 DEF Distinct
  <2> QED
    BY <1>2, <2>2
<1>6. \A x : x \in ToSet(f) <=> \E j \in 1..(i - 1) : x = s[j]
  <2>1. \A x : x \in ToSet(f) <=> \E j \in 1..(i - 1) : x = f[j]
    BY <1>1, InList
  <2> QED
    BY <1>1, <2>1
<1>7. \A x : x \in ToSet(r) <=> \E j \in (i + 1)..Len(s) : x = s[j]
  <2>1. \A x : x \in ToSet(r) <=> \E j \in 1..Len(r) : x = r[j]
    BY <1>2, InList
  <2>2. \A j \in (i + 1)..Len(s) : j - i \in 1..Len(r) /\ s[j] = r[j - i]
    <3> SUFFICES ASSUME NEW j \in (i + 1)..Len(s)
                 PROVE  j - i \in 1..Len(r) /\ s[j] = r[j - i]
      OBVIOUS
    <3>1. j - i \in 1..Len(r) /\ (j - i) + i = j
      BY <1>3
    <3> QED
      BY <1>3, <3>1
  <2>3. ASSUME NEW x PROVE x \in ToSet(r) <=> \E j \in (i + 1)..Len(s) : x = s[j]
    <3>1. ASSUME NEW n \in 1..Len(r), x = r[n] PROVE \E j \in (i + 1)..Len(s) : x = s[j]
      BY <1>3, <3>1
    <3>2. ASSUME NEW j \in (i + 1)..Len(s), x = s[j] PROVE \E n \in 1..Len(r) : x = r[n]
      BY <2>2, <3>2
    <3> QED
      BY <2>1, <3>1, <3>2
  <2> QED
    BY <2>3
<1> QED
  BY <1>1, <1>2, <1>4, <1>5, <1>6, <1>7 DEF Splits, f, r

\* The scan stops at the first entry with the key.
LEMMA PositionFirst ==
  ASSUME NEW c, NEW s \in Seq(DOMAIN c.mem), NEW k
  PROVE  /\ Position(c, s, k) \in 1..(Len(s) + 1)
         /\ \A j \in 1..(Position(c, s, k) - 1) : c.mem[s[j]].key # k
         /\ Position(c, s, k) <= Len(s) => c.mem[s[Position(c, s, k)]].key = k
<1> DEFINE hits == {i \in 1..Len(s) : c.mem[s[i]].key = k}
           i == Position(c, s, k)
<1>1. i \in hits \cup {Len(s) + 1} /\ \A n \in hits \cup {Len(s) + 1} : i <= n
  <2>1. hits \cup {Len(s) + 1} \in SUBSET Nat /\ hits \cup {Len(s) + 1} # {}
    OBVIOUS
  <2> HIDE DEF hits
  <2>2. LET m == Min(hits \cup {Len(s) + 1})
        IN  m \in hits \cup {Len(s) + 1} /\ \A n \in hits \cup {Len(s) + 1} : m <= n
    BY <2>1, MinInSet
  <2> QED
    BY <2>2 DEF Position, hits
<1> HIDE DEF i
<1>2. i \in 1..(Len(s) + 1) /\ (i <= Len(s) => i \in hits)
  BY <1>1
<1>3. \A j \in 1..(i - 1) : j \in 1..Len(s) /\ ~(i <= j)
  BY <1>2
<1> QED
  BY <1>1, <1>2, <1>3 DEF i

\* What a scan removes and leaves, when the new entry with key k goes into s.
Scanned(c, s, k, a, stale, R, l) ==
  /\ R \subseteq ToSet(s) /\ stale \subseteq ToSet(s)
  /\ l \in Seq(DOMAIN c.mem) /\ Distinct(l) /\ ToSet(l) = (ToSet(s) \ R) \cup {a}
  /\ \A x \in ToSet(s) \ R : c.mem[x].key # k

LEMMA Scan ==
  ASSUME NEW c, NEW s \in Seq(DOMAIN c.mem), Distinct(s), NEW k,
         \A x, y \in ToSet(s) : c.mem[x].key = c.mem[y].key => x = y,
         NEW a, a \notin ToSet(s), a \in DOMAIN c.mem,
         NEW i, i = Position(c, s, k),
         NEW stale \in SUBSET ToSet(SubSeq(s, 1, i - 1)),
         NEW R, R = IF i <= Len(s) THEN stale \cup {s[i]} ELSE stale,
         NEW l, l = Drop(SubSeq(s, 1, i - 1), stale) \o <<a>> \o SubSeq(s, i + 1, Len(s))
  PROVE  Scanned(c, s, k, a, stale, R, l)
<1> DEFINE f == SubSeq(s, 1, i - 1)
           r == SubSeq(s, i + 1, Len(s))
<1>1. /\ i \in 1..(Len(s) + 1) /\ \A j \in 1..(i - 1) : c.mem[s[j]].key # k
      /\ i <= Len(s) => c.mem[s[i]].key = k
  BY PositionFirst
<1>2. /\ f \in Seq(DOMAIN c.mem) /\ Distinct(f) /\ r \in Seq(DOMAIN c.mem) /\ Distinct(r)
      /\ \A x : x \in ToSet(f) <=> \E j \in 1..(i - 1) : x = s[j]
      /\ \A x : x \in ToSet(r) <=> \E j \in (i + 1)..Len(s) : x = s[j]
  <2>1. Splits(DOMAIN c.mem, s, i, f, r)
    BY <1>1, SplitList
  <2> HIDE DEF f, r
  <2> QED
    BY <2>1 DEF Splits
<1> HIDE DEF f, r
<1>3. \A x : x \in ToSet(s) <=> \E j \in 1..Len(s) : x = s[j]
  BY InList
<1>4. /\ \A j \in 1..(i - 1) : j \in 1..Len(s) /\ j # i
      /\ \A j \in (i + 1)..Len(s) : j \in 1..Len(s) /\ j # i /\ j \notin 1..(i - 1) /\ i <= Len(s)
      /\ \A j \in 1..Len(s) : j \in 1..(i - 1) \/ j \in (i + 1)..Len(s) \/ j = i
      /\ i <= Len(s) => i \in 1..Len(s) /\ i \notin 1..(i - 1) /\ i \notin (i + 1)..Len(s)
  BY <1>1
<1>5. \A j, n \in 1..Len(s) : s[j] = s[n] => j = n
  BY DEF Distinct
<1>6. /\ ToSet(f) \subseteq ToSet(s) /\ ToSet(r) \subseteq ToSet(s) /\ ToSet(f) \cap ToSet(r) = {}
      /\ i <= Len(s) => s[i] \in ToSet(s) /\ s[i] \notin ToSet(f) /\ s[i] \notin ToSet(r)
      /\ \A x \in ToSet(s) : x \in ToSet(f) \/ x \in ToSet(r) \/ (i <= Len(s) /\ x = s[i])
  <2>1. ToSet(f) \subseteq ToSet(s) /\ ToSet(r) \subseteq ToSet(s)
    BY <1>2, <1>3, <1>4
  <2>2. \A j \in 1..(i - 1), n \in (i + 1)..Len(s) : s[j] # s[n]
    BY <1>4, <1>5
  <2>3. ToSet(f) \cap ToSet(r) = {}
    BY <1>2, <2>2
  <2>4. ASSUME i <= Len(s)
        PROVE  s[i] \in ToSet(s) /\ s[i] \notin ToSet(f) /\ s[i] \notin ToSet(r)
    <3>1. i \in 1..Len(s) /\ s[i] \in ToSet(s)
      BY <1>3, <1>4, <2>4
    <3>2. \A j \in 1..(i - 1) : s[j] # s[i]
      BY <1>4, <1>5, <3>1
    <3>3. \A j \in (i + 1)..Len(s) : s[j] # s[i]
      BY <1>4, <1>5, <3>1
    <3> QED
      BY <1>2, <3>1, <3>2, <3>3
  <2>5. ASSUME NEW x \in ToSet(s)
        PROVE  x \in ToSet(f) \/ x \in ToSet(r) \/ (i <= Len(s) /\ x = s[i])
    <3>1. PICK j \in 1..Len(s) : x = s[j]
      BY <1>3
    <3> QED
      BY <1>2, <1>4, <3>1
  <2> QED
    BY <2>1, <2>3, <2>4, <2>5
<1>7. stale \subseteq ToSet(f)
  BY DEF f
<1>8. ToSet(s) \ R = (ToSet(f) \ stale) \cup ToSet(r)
  <2>1. CASE i <= Len(s)
    BY <1>6, <1>7, <2>1
  <2>2. CASE ~(i <= Len(s))
    <3>1. ToSet(r) = {}
      BY <1>2, <1>4, <2>2
    <3> QED
      BY <1>6, <1>7, <2>2, <3>1
  <2> QED
    BY <2>1, <2>2
<1>9. R \subseteq ToSet(s) /\ stale \subseteq ToSet(s)
  BY <1>6, <1>7
<1> DEFINE left == Drop(f, stale)
<1>10. left \in Seq(DOMAIN c.mem) /\ Distinct(left) /\ ToSet(left) = ToSet(f) \ stale
  <2>1. Filters(f, left, stale)
    BY <1>2, DropFilters
  <2>2. ToSet(f) \ stale \subseteq DOMAIN c.mem
    BY <1>2, ElementsIn
  <2> QED
    BY <1>2, <2>1, <2>2 DEF Filters
<1> HIDE DEF left
<1> DEFINE D == DOMAIN c.mem
           q == <<a>>
<1>11. q \in Seq(D) /\ Distinct(q) /\ ToSet(q) = {a}
  <2>1. q \in Seq(D) /\ Len(q) = 1 /\ q[1] = a
    <3>1. a \in D
      OBVIOUS
    <3> HIDE DEF D
    <3>2. <<a>> \in Seq(D)
      BY <3>1
    <3>3. Len(<<a>>) = 1
      OBVIOUS
    <3>4. <<a>>[1] = a
      OBVIOUS
    <3> QED
      BY <3>2, <3>3, <3>4
  <2> HIDE DEF q
  <2>2. \A x : x \in ToSet(q) <=> \E j \in 1..Len(q) : x = q[j]
    BY <2>1, InList
  <2> QED
    BY <2>1, <2>2 DEF Distinct
<1>12. left \in Seq(D) /\ f \in Seq(D) /\ r \in Seq(D)
  BY <1>2, <1>10
<1> HIDE DEF D, q
<1> DEFINE h == left \o q
<1>13. h \in Seq(D) /\ Distinct(h) /\ ToSet(h) = (ToSet(f) \ stale) \cup {a}
  <2>1. ToSet(left) \cap ToSet(q) = {}
    BY <1>6, <1>10, <1>11
  <2>2. Joins(D, left, q, h)
    BY <1>11, <1>12, Joined
  <2> HIDE DEF h
  <2> QED
    BY <1>10, <1>11, <2>1, <2>2 DEF Joins
<1> HIDE DEF h
<1>15. l \in Seq(D) /\ Distinct(l) /\ ToSet(l) = (ToSet(f) \ stale) \cup {a} \cup ToSet(r)
  <2>1. l = h \o r
    BY DEF left, f, r, h, q
  <2>2. ToSet(h) \cap ToSet(r) = {}
    BY <1>6, <1>13
  <2>3. Joins(D, h, r, l)
    <3>1. Joins(D, h, r, h \o r)
      BY <1>12, <1>13, Joined
    <3> QED
      BY <2>1, <3>1
  <2> QED
    BY <1>2, <1>13, <2>2, <2>3 DEF Joins
<1>14. \A x \in ToSet(s) \ R : c.mem[x].key # k
  <2> SUFFICES ASSUME NEW x \in ToSet(s) \ R, c.mem[x].key = k PROVE FALSE
    OBVIOUS
  <2>1. CASE x \in ToSet(f)
    BY <1>1, <1>2, <2>1
  <2>2. CASE x \in ToSet(r)
    <3>1. i <= Len(s) /\ s[i] \in ToSet(s) /\ c.mem[s[i]].key = k /\ s[i] # x
      BY <1>1, <1>2, <1>4, <1>6, <2>2
    <3> QED
      BY <3>1
  <2> QED
    BY <1>8, <2>1, <2>2
<1> QED
  BY <1>8, <1>9, <1>14, <1>15 DEF Scanned, D

\* d is c with the entry a, which was on no list, linked in its slot.
Links(c, d, a) ==
  /\ IsShared(d) /\ d.mem = c.mem /\ d.gc = c.gc
  /\ d.slots = [s \in Slot |-> d.slots[s]]
  /\ \A s \in Slot \ {SlotOf[c.mem[a].key]} : d.slots[s] = c.slots[s]
  /\ LET s == SlotOf[c.mem[a].key]
     IN  /\ d.slots[s] \in Seq(DOMAIN c.mem) /\ Distinct(d.slots[s])
         /\ ToSet(d.slots[s]) = ToSet(c.slots[s]) \cup {a}

LEMMA LinksCarries ==
  ASSUME NEW c, NEW H, State(c, H), NEW a \in Loose(c), NEW d, Links(c, d, a),
         \A x \in ToSet(c.slots[SlotOf[c.mem[a].key]]) : c.mem[x].key # c.mem[a].key
  PROVE  Carries(c, d, H) /\ AllLinked(d) = AllLinked(c) \cup {a}
<1> DEFINE sa == SlotOf[c.mem[a].key]
<1>1. a \in DOMAIN c.mem /\ a \notin AllLinked(c) /\ a \notin c.gc
  BY DEF Loose
<1>2. c.mem[a].key \in Key /\ sa \in Slot
  BY <1>1 DEF State, Sound, Entries, Entry, Slot
<1>3. \A s \in Slot : ToSet(d.slots[s]) = IF s = sa THEN ToSet(c.slots[s]) \cup {a}
                                          ELSE ToSet(c.slots[s])
  BY DEF Links
<1>4. AllLinked(d) = AllLinked(c) \cup {a}
  <2>1. \A x : x \in AllLinked(c) <=> \E s \in Slot : x \in ToSet(c.slots[s])
    BY InLinked
  <2>2. \A x : x \in AllLinked(d) <=> \E s \in Slot : x \in ToSet(d.slots[s])
    BY InLinked
  <2> QED
    BY <1>2, <1>3, <2>1, <2>2
<1>5. ASSUME NEW s \in Slot PROVE ListSound(d, s)
  <2>1. ListSound(c, s)
    BY DEF State, Sound
  <2>2. CASE s # sa
    BY <2>1, <2>2 DEF Links, ListSound
  <2>3. CASE s = sa
    <3>1. d.slots[s] \in Seq(DOMAIN d.mem) /\ Distinct(d.slots[s]) /\ d.mem = c.mem /\ d.gc = c.gc
      BY <2>3 DEF Links
    <3>2. ToSet(d.slots[s]) = ToSet(c.slots[s]) \cup {a}
      BY <1>3, <2>3
    <3>3. \A x, y \in ToSet(d.slots[s]) : d.mem[x].key = d.mem[y].key => x = y
      BY <2>1, <2>3, <3>1, <3>2 DEF ListSound
    <3>4. \A x \in ToSet(d.slots[s]) : SlotOf[d.mem[x].key] = s /\ x \notin d.gc
      BY <1>1, <2>1, <2>3, <3>1, <3>2 DEF ListSound
    <3> QED
      BY <3>1, <3>3, <3>4 DEF ListSound
  <2> QED
    BY <2>2, <2>3
<1>6. Sound(d)
  BY <1>5 DEF Sound, State, Links
<1>7. Loose(d) \subseteq H
  BY <1>4 DEF Loose, Links, State
<1>8. Pinned(d, H)
  BY DEF Pinned, Links, State
<1> QED
  BY <1>4, <1>6, <1>7, <1>8 DEF Carries, State, Links

\* r is what the insertion of a into c returns: the entries at A are removed, those
\* with the new key and some that expired; the new entry is linked unless it is
\* exclusive and there is a live entry with its key.
Inserted(c, r, a, excl, A, cut) ==
  /\ A \subseteq AllLinked(c) /\ Removes(Gc(c), cut, A)
  /\ cut.mem_size = Minus(c.mem_size, Bytes(Gc(c).mem, A))
  /\ cut.nentries = Minus(c.nentries, Cardinality(A))
  /\ \A x \in A : c.mem[x].key = c.mem[a].key \/ Expired(c.mem[x], c.mem[a].ctime)
  /\ ~r.ok => r.c = cut /\ excl /\
       \E x \in AllLinked(c) \ A :
         c.mem[x].key = c.mem[a].key /\ ~HardExpired(c.mem[x], c.mem[a].ctime)
  /\ r.ok =>
       /\ r.c.mem = cut.mem /\ AllLinked(r.c) = AllLinked(cut) \cup {a}
       /\ r.c.gc = cut.gc
       /\ r.c.mem_size = cut.mem_size + (c.mem[a].len - Hdr)
       /\ r.c.nentries = cut.nentries + 1
       /\ \A x \in AllLinked(c) : c.mem[x].key = c.mem[a].key =>
            x \in A /\ (excl => HardExpired(c.mem[x], c.mem[a].ctime))

\* apc_cache_wlocked_insert(): what it links is the new entry and nothing else,
\* in its slot, where no other entry has its key.
LEMMA InsertKeeps ==
  ASSUME now \in Time, NEW c, NEW H, State(c, H), NEW a \in Loose(c), NEW excl
  PROVE  /\ Carries(c, Insert(c, a, excl).c, H)
         /\ Insert(c, a, excl).ok \in BOOLEAN
         /\ Insert(c, a, excl).ok =>
              Loose(Insert(c, a, excl).c) = Loose(c) \ {a}
         /\ ~Insert(c, a, excl).ok => Loose(Insert(c, a, excl).c) = Loose(c)
         /\ \E A, cut : Inserted(c, Insert(c, a, excl), a, excl, A, cut)
<1> DEFINE g == Gc(c)
           new == g.mem[a]
           slot == SlotOf[new.key]
           s == g.slots[slot]
           i == Position(g, s, new.key)
           found == i <= Len(s)
           passed == SubSeq(s, 1, i - 1)
           stale == {b \in ToSet(passed) : Expired(g.mem[b], new.ctime)}
           ok == ~(found /\ excl /\ ~HardExpired(g.mem[s[i]], new.ctime))
           R == IF found THEN stale \cup {s[i]} ELSE stale
           linked == Drop(passed, stale) \o <<a>> \o SubSeq(s, i + 1, Len(s))
           A == IF found /\ ok THEN stale \cup {s[i]} ELSE stale
           cut == RemoveAll(g, A)
           d == [cut EXCEPT !.slots[slot] = linked,
                            !.mem_size = @ + (new.len - Hdr),
                            !.nentries = @ + 1]
<1>0. /\ AllLinked(g) = AllLinked(c) /\ DOMAIN g.mem \subseteq DOMAIN c.mem
      /\ \A x \in DOMAIN g.mem : g.mem[x] = c.mem[x]
      /\ g.mem_size = c.mem_size /\ g.nentries = c.nentries
  BY GcKeeps
<1>1. Insert(c, a, excl) = [ok |-> ok, c |-> IF ok THEN d ELSE cut]
  BY DEF Insert
<1>2. Keeps(c, g, H) /\ State(g, H) /\ Sound(g) /\ a \in Loose(g) /\ a \in H
  BY GcKeeps DEF Keeps, Carries, State
<1>3. A = (IF ok THEN R ELSE stale) /\ ok \in BOOLEAN
  OBVIOUS
<1> HIDE DEF g, ok
<1>4. /\ a \in DOMAIN g.mem /\ a \notin AllLinked(g) /\ new \in Entry /\ slot \in Slot
      /\ s \in Seq(DOMAIN g.mem) /\ Distinct(s) /\ ToSet(s) \subseteq AllLinked(g)
      /\ a \notin ToSet(s)
      /\ \A x, y \in ToSet(s) : g.mem[x].key = g.mem[y].key => x = y
  <2>1. a \in DOMAIN g.mem /\ a \notin AllLinked(g)
    BY <1>2 DEF Loose
  <2>2. new \in Entry /\ slot \in Slot
    BY <1>2, <2>1 DEF Sound, Entries, Entry, Slot
  <2>3. ListSound(g, slot)
    BY <1>2, <2>2 DEF Sound
  <2>4. ToSet(s) \subseteq AllLinked(g)
    BY <1>2, <2>2, SoundLists
  <2> QED
    BY <2>1, <2>2, <2>3, <2>4 DEF ListSound
<1>5. stale \subseteq ToSet(passed)
  OBVIOUS
<1> HIDE DEF stale
<1>6. Scanned(g, s, new.key, a, stale, R, linked)
  <2> DEFINE k == new.key
             p == Position(g, s, k)
  <2>1. stale \in SUBSET ToSet(SubSeq(s, 1, p - 1))
    BY <1>5
  <2>2. R = IF p <= Len(s) THEN stale \cup {s[p]} ELSE stale
    OBVIOUS
  <2>3. linked = Drop(SubSeq(s, 1, p - 1), stale) \o <<a>> \o SubSeq(s, p + 1, Len(s))
    OBVIOUS
  <2>4. p = Position(g, s, k)
    OBVIOUS
  <2> HIDE DEF R, linked, p, k, s
  <2> QED
    BY <1>4, <2>1, <2>2, <2>3, <2>4, Scan DEF k
<1>7. A \subseteq AllLinked(g) /\ (ok => A = R)
  BY <1>3, <1>4, <1>6 DEF Scanned
<1> HIDE DEF R, linked, A
<1>8. Removes(g, cut, A) /\ Keeps(g, cut, H) /\ AllLinked(cut) = AllLinked(g) \ A
  <2>1. Removes(g, cut, A)
    BY <1>2, RemoveAllRemoves
  <2>2. A \in SUBSET AllLinked(g)
    BY <1>7
  <2> HIDE DEF cut
  <2>3. Keeps(g, cut, H) /\ AllLinked(cut) = AllLinked(g) \ A
    BY <1>2, <2>1, <2>2, RemovesKeeps
  <2> QED
    BY <2>1, <2>3
<1>9. Keeps(c, cut, H)
  BY <1>2, <1>8, KeepsBoth
<1>pos. i \in 1..(Len(s) + 1) /\ (i <= Len(s) => g.mem[s[i]].key = new.key /\ s[i] \in ToSet(s))
  <2>1. i \in 1..(Len(s) + 1) /\ (i <= Len(s) => g.mem[s[i]].key = new.key)
    <3> DEFINE k == new.key
    <3> HIDE DEF k, s
    <3> QED
      BY <1>4, PositionFirst DEF k
  <2>2. i <= Len(s) => i \in 1..Len(s)
    <3>1. Len(s) \in Nat
      <4> HIDE DEF s
      <4> QED
        BY <1>4
    <3> HIDE DEF i, s
    <3> QED
      BY <2>1, <3>1
  <2> HIDE DEF i
  <2> QED
    BY <1>4, <2>1, <2>2, InList
<1>front. \A x \in ToSet(passed) : g.mem[x].key # new.key
  <2> DEFINE k == new.key
  <2>1. \A j \in 1..(i - 1) : g.mem[s[j]].key # k
    <3> HIDE DEF s, k
    <3> QED
      BY <1>4, PositionFirst DEF k
  <2>2. \A x : x \in ToSet(passed) <=> \E j \in 1..(i - 1) : x = s[j]
    <3> DEFINE f == passed
               S == DOMAIN g.mem
    <3>1. Splits(S, s, i, f, SubSeq(s, i + 1, Len(s)))
      <4>1. s \in Seq(S) /\ Distinct(s) /\ i \in 1..(Len(s) + 1)
        BY <1>4, <1>pos
      <4> HIDE DEF i, s, S
      <4> QED
        BY <4>1, SplitList
    <3> QED
      BY <3>1 DEF Splits
  <2> HIDE DEF passed, s, i
  <2> QED
    BY <2>1, <2>2
<1>part. /\ A \subseteq AllLinked(c) /\ Removes(Gc(c), cut, A)
         /\ cut.mem_size = Minus(c.mem_size, Bytes(Gc(c).mem, A))
         /\ cut.nentries = Minus(c.nentries, Cardinality(A))
  <2>1. cut.mem_size = Minus(g.mem_size, Bytes(g.mem, A)) /\ cut.nentries = Minus(g.nentries, Cardinality(A))
    BY <1>2, RemoveAllRemoves
  <2> HIDE DEF cut
  <2> QED
    BY <1>0, <1>7, <1>8, <2>1 DEF g
<1> HIDE DEF cut
<1>new. new = c.mem[a] /\ ToSet(s) \subseteq AllLinked(c)
        /\ \A x \in AllLinked(c) : g.mem[x] = c.mem[x] /\ x \in DOMAIN g.mem
  <2>1. AllLinked(g) \subseteq DOMAIN g.mem
    BY <1>2, SoundLists
  <2> QED
    BY <1>0, <1>4, <2>1
<1>gone. \A x \in A : c.mem[x].key = c.mem[a].key \/ Expired(c.mem[x], c.mem[a].ctime)
  <2> SUFFICES ASSUME NEW x \in A PROVE c.mem[x].key = c.mem[a].key \/ Expired(c.mem[x], c.mem[a].ctime)
    OBVIOUS
  <2>1. g.mem[x] = c.mem[x]
    BY <1>new, <1>part
  <2>2. x \in stale \/ (found /\ x = s[i])
    BY DEF A
  <2>3. CASE x \in stale
    BY <1>new, <2>1, <2>3 DEF stale
  <2>4. CASE found /\ x = s[i]
    BY <1>pos, <1>new, <2>1, <2>4
  <2> QED
    BY <2>2, <2>3, <2>4
<1>10. CASE ~ok
  <2> HIDE DEF d
  <2>1. Insert(c, a, excl).ok = FALSE /\ Insert(c, a, excl).c = cut
    BY <1>1, <1>3, <1>10
  <2>2. found /\ excl /\ ~HardExpired(g.mem[s[i]], new.ctime)
    BY <1>10 DEF ok
  <2>3. s[i] \in AllLinked(c) \ A /\ c.mem[s[i]].key = c.mem[a].key
        /\ ~HardExpired(c.mem[s[i]], c.mem[a].ctime)
    <3>1. s[i] \in AllLinked(c) /\ g.mem[s[i]] = c.mem[s[i]] /\ g.mem[s[i]].key = new.key
      BY <1>pos, <1>new, <2>2
    <3>2. s[i] \notin A
      <4>1. A = stale
        BY <1>3, <1>10
      <4>2. \A x \in ToSet(passed) : g.mem[x].key # new.key
        BY <1>front
      <4> QED
        BY <1>5, <3>1, <4>1, <4>2
    <3> QED
      BY <1>new, <2>2, <3>1, <3>2
  <2>4. Inserted(c, Insert(c, a, excl), a, excl, A, cut)
    BY <1>part, <1>gone, <2>1, <2>2, <2>3 DEF Inserted
  <2> QED
    BY <1>9, <2>1, <2>4 DEF Keeps
<1>11. CASE ok
  <2>1. cut.mem[a].key = new.key /\ a \in DOMAIN cut.mem /\ a \in Loose(cut)
    BY <1>2, <1>8 DEF Keeps, Carries, Loose
  <2>2. /\ d.mem = cut.mem /\ d.gc = cut.gc /\ d.slots = [cut.slots EXCEPT ![slot] = linked]
        /\ IsShared(d)
    BY <1>8 DEF Removes, IsShared
  <2> HIDE DEF d, s
  <2>3. /\ d.slots = [t \in Slot |-> d.slots[t]]
        /\ \A t \in Slot \ {slot} : d.slots[t] = cut.slots[t]
        /\ d.slots[slot] = linked
    BY <1>4, <1>8, <2>2 DEF Removes
  <2>4. Filters(s, cut.slots[slot], A)
    BY <1>4, <1>8 DEF Removes, s
  <2>5. ToSet(cut.slots[slot]) = ToSet(s) \ R
    BY <1>7, <1>11, <2>4 DEF Filters
  <2>6. ToSet(linked) = ToSet(cut.slots[slot]) \cup {a} /\ Distinct(linked)
    BY <1>6, <2>5 DEF Scanned
  <2>7. linked \in Seq(DOMAIN cut.mem)
    <3>1. ToSet(cut.slots[slot]) \subseteq DOMAIN cut.mem
      <4>1. Sound(cut)
        BY <1>8 DEF Keeps, Carries, State
      <4> QED
        BY <1>4, <4>1, SoundLists
    <3>2. ToSet(linked) \subseteq DOMAIN cut.mem /\ linked \in Seq(DOMAIN g.mem)
      BY <1>6, <2>1, <2>6, <3>1 DEF Scanned
    <3> QED
      BY <3>2 DEF ToSet
  <2>8. Links(cut, d, a)
    BY <2>1, <2>2, <2>3, <2>6, <2>7 DEF Links
  <2>9. \A x \in ToSet(cut.slots[slot]) : cut.mem[x].key # new.key
    <3> SUFFICES ASSUME NEW x \in ToSet(cut.slots[slot]) PROVE cut.mem[x].key # new.key
      OBVIOUS
    <3>1. x \in ToSet(s) \ R /\ g.mem[x].key # new.key /\ x \in DOMAIN cut.mem
      <4>1. Sound(cut)
        BY <1>8 DEF Keeps, Carries, State
      <4> QED
        BY <1>4, <1>6, <2>5, <4>1, SoundLists DEF Scanned
    <3>2. cut.mem[x] = IF x \in A THEN [g.mem[x] EXCEPT !.dtime = now] ELSE g.mem[x]
      BY <1>8, <3>1 DEF Removes
    <3>3. x \notin A
      BY <1>7, <1>11, <3>1
    <3> QED
      BY <3>1, <3>2, <3>3
  <2>10. State(cut, H) /\ Loose(cut) = Loose(c)
    BY <1>9 DEF Keeps, Carries
  <2>11. Carries(cut, d, H) /\ AllLinked(d) = AllLinked(cut) \cup {a}
    BY <2>1, <2>8, <2>9, <2>10, LinksCarries
  <2>12. Carries(c, d, H)
    BY <1>9, <2>11, CarriesBoth DEF Keeps
  <2>13. Loose(d) = Loose(c) \ {a}
    BY <2>2, <2>10, <2>11 DEF Loose
  <2>14. Insert(c, a, excl).ok = TRUE /\ Insert(c, a, excl).c = d
    BY <1>1, <1>3, <1>11
  <2>15. /\ d.mem_size = cut.mem_size + (c.mem[a].len - Hdr) /\ d.nentries = cut.nentries + 1
         /\ d.gc = cut.gc
    BY <1>8, <1>new DEF d, Removes, IsShared
  <2>16. ASSUME NEW x \in AllLinked(c), c.mem[x].key = c.mem[a].key
         PROVE  x \in A /\ (excl => HardExpired(c.mem[x], c.mem[a].ctime))
    <3>1. g.mem[x] = c.mem[x] /\ g.mem[x].key = new.key
      BY <1>new, <2>16
    <3>2. x \in ToSet(s)
      <4>1. x \in ToSet(g.slots[slot]) <=> SlotOf[g.mem[x].key] = slot
        BY <1>0, <1>2, <1>4, SoundLists
      <4> QED
        BY <3>1, <4>1 DEF s
    <3>3. x \in R
      BY <1>6, <3>1, <3>2 DEF Scanned
    <3>4. x \in A
      BY <1>7, <1>11, <3>3
    <3>5. x \notin stale
      BY <1>5, <1>front, <3>1
    <3>6. found /\ x = s[i]
      BY <3>4, <3>5 DEF A
    <3> QED
      BY <1>11, <1>new, <3>1, <3>4, <3>6 DEF ok
  <2>17. Inserted(c, Insert(c, a, excl), a, excl, A, cut)
    BY <1>part, <1>gone, <2>2, <2>11, <2>14, <2>15, <2>16 DEF Inserted
  <2> QED
    BY <2>12, <2>13, <2>14, <2>17
<1> QED
  BY <1>3, <1>10, <1>11

-----------------------------------------------------------------------------
(* Pointers: which entries the processes hold *)

\* The processes whose references last.  A dead process never lets go, and what
\* it held is freed when apc.gc_ttl is over, if there is one.
Counted(p) == GcTtl = 0 \/ pc[p] # "dead"

Holders(a) == {p \in Proc : Counted(p) /\ ptr[p] = a}

Held == {a \in 1..Cells : Holders(a) # {}} \cup Loose(Shared)

PointerOf(p) ==
  /\ ptr[p] \in 0..Cells
  /\ Counted(p) /\ ptr[p] # 0 => mem[ptr[p]].key = op[p].key
  /\ pc[p] \in {"insert", "discard"} => ptr[p] \in Loose(Shared) /\ Holders(ptr[p]) = {p}
  /\ pc[p] \in {"release", "copy"} => ptr[p] # 0 /\ ptr[p] \notin Loose(Shared)

\* The count of an entry covers its holders, and is exact when no count lapses.
RefCovers(a) ==
  /\ mem[a].ref >= Cardinality(Holders(a))
  /\ GcTtl = 0 => mem[a].ref = Cardinality(Holders(a))

Owned(a) == \E p \in Proc : ptr[p] = a /\ pc[p] \in {"insert", "discard", "dead"}

DataInv ==
  /\ State(Shared, Held)
  /\ \A p \in Proc : PointerOf(p)
  /\ \A a \in DOMAIN mem : RefCovers(a)
  /\ \A a \in Loose(Shared) : Owned(a)

LEMMA SharedIs ==
  /\ Shared.mem = mem /\ Shared.slots = slots /\ Shared.gc = gc
  /\ Shared.mem_size = mem_size /\ Shared.nentries = nentries /\ IsShared(Shared)
BY DEF Shared, IsShared

LEMMA SharedBecomes ==
  ASSUME NEW c, IsShared(c), SetShared(c)
  PROVE  Shared' = c
BY DEF SetShared, IsShared, Shared

\* The other processes stay where they are, with what they have.
OthersStay(p) ==
  \A q \in Proc \ {p} : pc'[q] = pc[q] /\ op'[q] = op[q] /\ ptr'[q] = ptr[q]

LEMMA HoldersFinite ==
  ASSUME NEW a
  PROVE  IsFiniteSet(Holders(a)) /\ Cardinality(Holders(a)) \in Nat
BY CacheAssumption, FS_Subset, FS_CardinalityType DEF Holders

\* What the invariant says of the entries that are held.
LEMMA HeldFacts ==
  ASSUME DataInv
  PROVE  /\ Held \subseteq DOMAIN mem /\ DOMAIN mem \subseteq 1..Cells /\ Cells \in Nat
         /\ Loose(Shared) \subseteq Held
         /\ \A a \in 1..Cells : a \notin Held => Holders(a) = {}
         /\ \A a \in DOMAIN mem : mem[a] \in Entry /\ mem[a].ref \in Int
         /\ \A p \in Proc : Counted(p) /\ ptr[p] # 0 => ptr[p] \in Held /\ p \in Holders(ptr[p])
<1>1. Held \subseteq DOMAIN mem
  BY SharedIs DEF DataInv, State, Pinned
<1>2. Entries(mem)
  BY SharedIs DEF DataInv, State, Sound
<1>3. DOMAIN mem \subseteq 1..Cells /\ Cells \in Nat
  BY <1>2, CellsAssumption DEF Entries, IsHeap
<1>4. \A a \in DOMAIN mem : mem[a] \in Entry /\ mem[a].ref \in Int
  BY <1>2 DEF Entries, Entry
<1>5. ASSUME NEW p \in Proc, Counted(p), ptr[p] # 0
      PROVE  ptr[p] \in Held /\ p \in Holders(ptr[p])
  <2>1. ptr[p] \in 1..Cells
    BY <1>3, <1>5 DEF DataInv, PointerOf
  <2> QED
    BY <1>5, <2>1 DEF Held, Holders
<1> QED
  BY <1>1, <1>3, <1>4, <1>5 DEF Held

\* A critical section of p that leaves all pointers: its effect on the lists and
\* the blocks is the business of Carries, and at most its own new entry is linked.
Moves(p) ==
  \/ ptr[p] = 0 /\ pc'[p] \notin Holding /\ Loose(Shared') = Loose(Shared)
  \/ /\ pc[p] = "insert" /\ op'[p] = op[p]
     /\ pc'[p] = "discard" /\ Loose(Shared') = Loose(Shared)
  \/ /\ pc[p] = "insert" /\ op'[p] = op[p]
     /\ pc'[p] = "release" /\ Loose(Shared') = Loose(Shared) \ {ptr[p]}

LEMMA CarryStep ==
  ASSUME DataInv, NEW p \in Proc, OthersStay(p), ptr'[p] = ptr[p], now' = now,
         pc[p] # "dead", pc'[p] # "dead", Carries(Shared, Shared', Held), Moves(p)
  PROVE  DataInv'
<1>1. \A q \in Proc : Counted(q)' = Counted(q) /\ ptr'[q] = ptr[q]
  BY DEF Counted, OthersStay
<1>2. \A a : Holders(a)' = Holders(a)
  BY <1>1 DEF Holders
<1>3. Held' = Held
  <2>1. CASE Loose(Shared') = Loose(Shared)
    BY <1>2, <2>1 DEF Held
  <2>2. CASE pc[p] = "insert" /\ Loose(Shared') = Loose(Shared) \ {ptr[p]}
    <3>1. PointerOf(p)
      BY DEF DataInv
    <3>2. ptr[p] \in Loose(Shared) /\ ptr[p] \in 1..Cells /\ Holders(ptr[p]) # {}
      <4>1. ptr[p] \in Loose(Shared) /\ Holders(ptr[p]) = {p}
        BY <2>2, <3>1 DEF PointerOf
      <4> QED
        BY <4>1, HeldFacts
    <3>3. \A a : a \in Held' <=> a \in Held
      BY <1>2, <2>2, <3>2 DEF Held
    <3> QED
      BY <3>3
  <2> QED
    BY <2>1, <2>2 DEF Moves
<1>4. State(Shared, Held)'
  BY <1>3 DEF Carries, State, Pinned, Overdue
<1>5. \A a \in Held : mem'[a].key = mem[a].key /\ mem'[a].ref = mem[a].ref
  BY SharedIs DEF Carries, Shared
<1>6. ASSUME NEW q \in Proc PROVE PointerOf(q)'
  <2>1. PointerOf(q) /\ PointerOf(p)
    BY DEF DataInv
  <2>2. Counted(q) /\ ptr[q] # 0 => mem'[ptr[q]].key = op[q].key
    BY <1>5, <2>1, HeldFacts DEF PointerOf
  <2>3. CASE q # p
    <3>1. pc'[q] = pc[q] /\ op'[q] = op[q]
      BY <2>3 DEF OthersStay
    <3>2. ptr[q] \in Loose(Shared') => ptr[q] \in Loose(Shared)
      BY DEF Moves
    <3>3. ptr[q] \in Loose(Shared) /\ pc[q] \in {"insert", "discard"} => ptr[q] \in Loose(Shared')
      <4>1. CASE Loose(Shared') = Loose(Shared)
        BY <4>1
      <4>2. CASE pc[p] = "insert" /\ Loose(Shared') = Loose(Shared) \ {ptr[p]}
        <5>1. Holders(ptr[p]) = {p}
          BY <2>1, <4>2 DEF PointerOf
        <5>2. pc[q] \in {"insert", "discard"} => Holders(ptr[q]) = {q}
          BY <2>1 DEF PointerOf
        <5> QED
          BY <2>3, <4>2, <5>1, <5>2
      <4> QED
        BY <4>1, <4>2 DEF Moves
    <3> QED
      BY <1>1, <1>2, <2>1, <2>2, <3>1, <3>2, <3>3 DEF PointerOf
  <2>4. CASE q = p
    <3>1. CASE ptr[p] = 0 /\ pc'[p] \notin Holding
      BY <1>1, <2>1, <2>4, <3>1 DEF PointerOf, Holding
    <3>2. CASE pc[p] = "insert" /\ op'[p] = op[p] /\ pc'[p] = "discard" /\ Loose(Shared') = Loose(Shared)
      BY <1>1, <1>2, <2>1, <2>2, <2>4, <3>2 DEF PointerOf
    <3>3. CASE /\ pc[p] = "insert" /\ op'[p] = op[p] /\ pc'[p] = "release"
               /\ Loose(Shared') = Loose(Shared) \ {ptr[p]}
      <4>1. ptr[p] \in Loose(Shared) /\ ptr[p] # 0
        BY <2>1, <3>3, HeldFacts DEF PointerOf
      <4> QED
        BY <1>1, <1>2, <2>1, <2>2, <2>4, <3>3, <4>1 DEF PointerOf
    <3> QED
      BY <3>1, <3>2, <3>3 DEF Moves
  <2> QED
    BY <2>3, <2>4
<1>7. ASSUME NEW a \in DOMAIN mem' PROVE RefCovers(a)'
  <2>1. a \in 1..Cells
    BY <1>4 DEF State, Sound, Entries, IsHeap, Shared
  <2>2. CASE a \in Held
    <3>1. RefCovers(a)
      BY <2>2, HeldFacts DEF DataInv
    <3> QED
      BY <1>2, <1>5, <2>2, <3>1 DEF RefCovers
  <2>3. CASE a \notin Held
    <3>1. PICK b \in DOMAIN mem \ Held : mem'[a].ref = mem[b].ref
      BY <2>3 DEF Carries, Shared
    <3>2. Holders(a) = {} /\ Holders(b) = {}
      BY <2>1, <2>3, HeldFacts
    <3>3. RefCovers(b)
      BY DEF DataInv
    <3> QED
      BY <1>2, <3>1, <3>2, <3>3 DEF RefCovers
  <2> QED
    BY <2>2, <2>3
<1>8. ASSUME NEW a \in Loose(Shared') PROVE Owned(a)'
  <2>1. a \in Loose(Shared) /\ Owned(a) /\ a # 0
    <3>1. a \in Loose(Shared)
      BY DEF Moves
    <3> QED
      BY <3>1, HeldFacts DEF DataInv
  <2>2. PICK q \in Proc : ptr[q] = a /\ pc[q] \in {"insert", "discard", "dead"}
    BY <2>1 DEF Owned
  <2>3. q # p => pc'[q] = pc[q]
    BY DEF OthersStay
  <2>4. q = p => pc'[q] \in {"insert", "discard", "dead"}
    BY <2>1, <2>2 DEF Moves
  <2> QED
    BY <1>1, <2>2, <2>3, <2>4 DEF Owned
<1> QED
  BY <1>4, <1>6, <1>7, <1>8 DEF DataInv

\* d is c with the count of the entry at a changed by n.
Alters(c, d, a, n) ==
  /\ IsShared(d) /\ d.slots = c.slots /\ d.gc = c.gc
  /\ a \in DOMAIN c.mem /\ DOMAIN d.mem = DOMAIN c.mem
  /\ d.mem \in [DOMAIN d.mem -> Entry]
  /\ d.mem[a].key = c.mem[a].key /\ d.mem[a].len = c.mem[a].len
  /\ d.mem[a].dtime = c.mem[a].dtime /\ d.mem[a].ref = c.mem[a].ref + n
  /\ \A b \in DOMAIN c.mem \ {a} : d.mem[b] = c.mem[b]

LEMMA AltersSound ==
  ASSUME NEW c, Sound(c), NEW d, NEW a, NEW n, Alters(c, d, a, n)
  PROVE  Sound(d) /\ Loose(d) = Loose(c)
<1>1. \A b \in DOMAIN c.mem : d.mem[b].key = c.mem[b].key /\ d.mem[b].len = c.mem[b].len
  BY DEF Alters
<1>2. Entries(d.mem)
  <2>1. DOMAIN d.mem = DOMAIN c.mem /\ d.mem \in [DOMAIN d.mem -> Entry] /\ DOMAIN c.mem \subseteq 1..Cells
    BY DEF Alters, Sound, Entries, IsHeap
  <2>2. IsHeap(d.mem)
    BY <2>1, EntryHeap
  <2>3. Disjoint(d.mem)
    BY <1>1, <2>1, DisjointSubset DEF Sound, Entries
  <2> QED
    BY <2>1, <2>2, <2>3 DEF Entries
<1>3. \A s \in Slot : ListSound(d, s)
  <2> SUFFICES ASSUME NEW s \in Slot PROVE ListSound(d, s)
    OBVIOUS
  <2>1. ListSound(c, s)
    BY DEF Sound
  <2>2. ToSet(c.slots[s]) \subseteq DOMAIN c.mem
    BY <2>1, ElementsIn DEF ListSound
  <2> QED
    BY <1>1, <2>1, <2>2 DEF ListSound, Alters
<1>4. Sound(d)
  BY <1>2, <1>3 DEF Sound, Alters
<1> QED
  BY <1>4 DEF Alters, Loose, AllLinked

LEMMA AltersKeeps ==
  ASSUME NEW c, NEW H, State(c, H), NEW d, NEW a, Alters(c, d, a, 0)
  PROVE  Keeps(c, d, H)
<1>1. Sound(d) /\ Loose(d) = Loose(c)
  BY AltersSound DEF State
<1>2. \A b \in DOMAIN c.mem : /\ d.mem[b].key = c.mem[b].key /\ d.mem[b].ref = c.mem[b].ref
                              /\ d.mem[b].dtime = c.mem[b].dtime
  <2>1. \A b \in DOMAIN c.mem : c.mem[b].ref \in Int
    BY DEF State, Sound, Entries, Entry
  <2> QED
    BY <2>1 DEF Alters
<1>3. Pinned(d, H)
  BY <1>2 DEF Alters, State, Pinned, Overdue
<1> QED
  BY <1>1, <1>2, <1>3 DEF Keeps, Carries, State, Pinned, Alters

LEMMA KeepsSame ==
  ASSUME NEW c, NEW H, State(c, H)
  PROVE  Keeps(c, c, H)
BY DEF Keeps, Carries

\* find_incref: p comes to hold a linked entry with its key.
LEMMA PinStep ==
  ASSUME DataInv, NEW p \in Proc, OthersStay(p), now' = now, pc[p] # "dead",
         NEW a \in AllLinked(Shared), mem[a].key = op[p].key, Alters(Shared, Shared', a, 1),
         ptr[p] = 0, ptr'[p] = a, pc'[p] = "copy", op'[p] = op[p]
  PROVE  DataInv'
<1>1. Sound(Shared') /\ Loose(Shared') = Loose(Shared)
  BY AltersSound DEF DataInv, State
<1>2. \A q \in Proc : Counted(q)' = Counted(q)
  BY DEF Counted, OthersStay
<1>3. a \in DOMAIN mem /\ a \in 1..Cells /\ a \notin gc /\ a \notin Loose(Shared)
  BY SharedIs, SoundLists, HeldFacts DEF DataInv, State, Loose
<1>4. \A b : b # 0 /\ b # a => Holders(b)' = Holders(b)
  BY <1>2 DEF Holders, OthersStay
<1>5. Holders(a)' = Holders(a) \cup {p} /\ p \notin Holders(a)
  <2>1. Counted(p)
    BY DEF Counted
  <2>2. p \notin Holders(a) /\ a # 0
    BY <1>3 DEF Holders
  <2> QED
    BY <1>2, <2>1, <2>2 DEF Holders, OthersStay
<1>6. Held' = Held \cup {a}
  <2>1. \A b : b \in Held' <=> b \in Held \/ b = a
    BY <1>1, <1>3, <1>4, <1>5 DEF Held
  <2> QED
    BY <2>1
<1>7. /\ DOMAIN mem' = DOMAIN mem /\ gc' = gc /\ mem'[a].key = mem[a].key /\ mem'[a].ref = mem[a].ref + 1
      /\ \A b \in DOMAIN mem \ {a} : mem'[b] = mem[b]
  BY SharedIs DEF Alters, Shared
<1>8. RefCovers(a) /\ mem[a].ref \in Int /\ Cardinality(Holders(a)) \in Nat
      /\ Cardinality(Holders(a) \cup {p}) = Cardinality(Holders(a)) + 1
  BY <1>3, <1>5, HeldFacts, HoldersFinite, FS_AddElement DEF DataInv
<1>9. Pinned(Shared, Held)'
  <2>1. Pinned(Shared, Held)
    BY DEF DataInv, State
  <2>2. mem'[a].ref > 0
    BY <1>7, <1>8 DEF RefCovers
  <2> QED
    BY <1>3, <1>6, <1>7, <2>1, <2>2, SharedIs DEF Pinned, Overdue, Shared
<1>10. State(Shared, Held)'
  <2>1. Loose(Shared') \subseteq Held'
    BY <1>1, <1>6, HeldFacts
  <2> QED
    BY <1>1, <1>9, <2>1 DEF State
<1>11. ASSUME NEW q \in Proc PROVE PointerOf(q)'
  <2>1. PointerOf(q)
    BY DEF DataInv
  <2>2. CASE q = p
    BY <1>1, <1>3, <1>7, <2>2 DEF PointerOf
  <2>3. CASE q # p
    <3>1. pc'[q] = pc[q] /\ op'[q] = op[q] /\ ptr'[q] = ptr[q]
      BY <2>3 DEF OthersStay
    <3>2. Counted(q) /\ ptr[q] # 0 => ptr[q] \in DOMAIN mem
      BY HeldFacts
    <3>3. ptr[q] \in Loose(Shared) => ptr[q] # a /\ ptr[q] # 0
      BY <1>3, HeldFacts
    <3> QED
      BY <1>1, <1>2, <1>4, <1>7, <2>1, <3>1, <3>2, <3>3 DEF PointerOf
  <2> QED
    BY <2>2, <2>3
<1>12. ASSUME NEW b \in DOMAIN mem' PROVE RefCovers(b)'
  <2>1. CASE b = a
    BY <1>5, <1>7, <1>8, <2>1 DEF RefCovers
  <2>2. CASE b # a
    <3>1. RefCovers(b) /\ b # 0
      BY <1>7, HeldFacts DEF DataInv
    <3> QED
      BY <1>4, <1>7, <2>2, <3>1 DEF RefCovers
  <2> QED
    BY <2>1, <2>2
<1>13. ASSUME NEW b \in Loose(Shared') PROVE Owned(b)'
  <2>1. Owned(b) /\ b # 0
    BY <1>1, HeldFacts DEF DataInv
  <2> QED
    BY <2>1 DEF Owned, OthersStay
<1> QED
  BY <1>10, <1>11, <1>12, <1>13 DEF DataInv

\* apc_cache_entry_release(): p lets go of an entry that is linked or removed.
UnpinGuard(p) ==
  /\ pc[p] \in {"release", "copy"} /\ ptr'[p] = 0 /\ pc'[p] \notin Holding \cup {"dead"}

LEMMA UnpinStep ==
  ASSUME DataInv, NEW p \in Proc, OthersStay(p), now' = now, UnpinGuard(p),
         Alters(Shared, Shared', ptr[p], -1)
  PROVE  DataInv'
<1>0. PICK a : a = ptr[p]
  OBVIOUS
<1>1. Sound(Shared') /\ Loose(Shared') = Loose(Shared)
  BY AltersSound DEF DataInv, State
<1>2. \A q \in Proc : Counted(q)' = Counted(q)
  BY DEF Counted, OthersStay, UnpinGuard
<1>3. Counted(p) /\ a # 0 /\ a \notin Loose(Shared)
  <2>1. PointerOf(p)
    BY DEF DataInv
  <2> QED
    BY <1>0, <2>1 DEF PointerOf, Counted, UnpinGuard
<1>4. a \in Held /\ a \in DOMAIN mem /\ p \in Holders(a)
  BY <1>0, <1>3, HeldFacts
<1>5. \A b : b # 0 /\ b # a => Holders(b)' = Holders(b)
  BY <1>0, <1>2 DEF Holders, OthersStay, UnpinGuard
<1>6. Holders(a)' = Holders(a) \ {p}
  BY <1>0, <1>2, <1>3 DEF Holders, OthersStay, UnpinGuard
<1>7. /\ DOMAIN mem' = DOMAIN mem /\ gc' = gc /\ mem'[a].key = mem[a].key
      /\ mem'[a].ref = mem[a].ref - 1 /\ mem'[a].dtime = mem[a].dtime
      /\ \A b \in DOMAIN mem \ {a} : mem'[b] = mem[b]
  <2>1. mem'[a].ref = mem[a].ref + (-1)
    BY <1>0, SharedIs DEF Alters, Shared
  <2> QED
    BY <1>0, <1>4, <2>1, HeldFacts, SharedIs DEF Alters, Shared
<1>8. RefCovers(a) /\ mem[a].ref \in Int /\ Cardinality(Holders(a)) \in Nat
      /\ Cardinality(Holders(a) \ {p}) = Cardinality(Holders(a)) - 1
  BY <1>4, HeldFacts, HoldersFinite, FS_RemoveElement DEF DataInv
<1>9. Held' \subseteq Held
  <2> SUFFICES ASSUME NEW b \in Held' PROVE b \in Held
    OBVIOUS
  <2>1. CASE b = a
    BY <1>4, <2>1
  <2>2. CASE b # a
    BY <1>1, <1>5, <2>2 DEF Held
  <2> QED
    BY <2>1, <2>2
<1>10. a \in Held' => mem'[a].ref > 0
  <2> SUFFICES ASSUME a \in Held' PROVE mem'[a].ref > 0
    OBVIOUS
  <2>1. Holders(a) \ {p} # {}
    BY <1>0, <1>1, <1>3, <1>6 DEF Held
  <2>2. Cardinality(Holders(a) \ {p}) # 0
    BY <2>1, HoldersFinite, FS_RemoveElement, FS_EmptySet
  <2>3. mem[a].ref >= Cardinality(Holders(a))
    BY <1>8 DEF RefCovers
  <2>4. mem[a].ref \in Int /\ Cardinality(Holders(a)) \in Nat /\ Cardinality(Holders(a)) - 1 # 0
    BY <1>8, <2>2
  <2>5. Cardinality(Holders(a)) # 0
    BY <1>4, HoldersFinite, FS_EmptySet
  <2>6. mem[a].ref - 1 > 0
    BY <2>3, <2>4, <2>5
  <2> QED
    BY <1>7, <2>6
<1>11. Pinned(Shared, Held)'
  <2>1. Pinned(Shared, Held)
    BY DEF DataInv, State
  <2> QED
    BY <1>7, <1>9, <1>10, <2>1, SharedIs DEF Pinned, Overdue, Shared
<1>12. State(Shared, Held)'
  <2>1. Loose(Shared') \subseteq Held'
    BY <1>1, HeldFacts DEF Held
  <2> QED
    BY <1>1, <1>11, <2>1 DEF State
<1>13. ASSUME NEW q \in Proc PROVE PointerOf(q)'
  <2>1. PointerOf(q)
    BY DEF DataInv
  <2>2. CASE q = p
    BY HeldFacts, <2>2 DEF PointerOf, UnpinGuard, Holding
  <2>3. CASE q # p
    <3>1. pc'[q] = pc[q] /\ op'[q] = op[q] /\ ptr'[q] = ptr[q]
      BY <2>3 DEF OthersStay
    <3>2. Counted(q) /\ ptr[q] # 0 => ptr[q] \in DOMAIN mem
      BY HeldFacts
    <3>3. ptr[q] \in Loose(Shared) => ptr[q] # a /\ ptr[q] # 0
      BY <1>0, <1>3, HeldFacts
    <3> QED
      BY <1>1, <1>2, <1>5, <1>7, <2>1, <3>1, <3>2, <3>3 DEF PointerOf
  <2> QED
    BY <2>2, <2>3
<1>14. ASSUME NEW b \in DOMAIN mem' PROVE RefCovers(b)'
  <2>1. CASE b = a
    BY <1>6, <1>7, <1>8, <2>1 DEF RefCovers
  <2>2. CASE b # a
    <3>1. RefCovers(b) /\ b # 0
      BY <1>7, HeldFacts DEF DataInv
    <3> QED
      BY <1>5, <1>7, <2>2, <3>1 DEF RefCovers
  <2> QED
    BY <2>1, <2>2
<1>15. ASSUME NEW b \in Loose(Shared') PROVE Owned(b)'
  <2>1. Owned(b) /\ b # 0
    BY <1>1, HeldFacts DEF DataInv
  <2> QED
    BY <2>1 DEF Owned, OthersStay, UnpinGuard
<1> QED
  BY <1>12, <1>13, <1>14, <1>15 DEF DataInv

\* apc_sma_malloc() succeeded: p holds a new entry that no list has.
LEMMA NewStep ==
  ASSUME DataInv, NEW p \in Proc, OthersStay(p), now' = now, pc[p] # "dead",
         pc'[p] = "insert", ptr[p] = 0, op'[p] = op[p],
         NEW r \in Entry, r.key = op[p].key, r.ref = 1, Gains(mem, mem', ptr'[p], r),
         mem' = [b \in DOMAIN mem' |-> mem'[b]],
         UNCHANGED <<slots, gc>>
  PROVE  DataInv'
<1>0. PICK a : a = ptr'[p]
  OBVIOUS
<1>1. /\ a \notin DOMAIN mem /\ a \in 1..Cells /\ DOMAIN mem' = DOMAIN mem \cup {a}
      /\ mem'[a] = r /\ \A b \in DOMAIN mem : mem'[b] = mem[b]
  BY <1>0 DEF Gains
<1>2. \A q \in Proc : Counted(q)' = Counted(q)
  BY DEF Counted, OthersStay
<1>3. Holders(a) = {} /\ Holders(a)' = {p}
  <2>1. Holders(a) = {}
    BY <1>1, HeldFacts
  <2>2. Counted(p)
    BY DEF Counted
  <2> QED
    BY <1>0, <1>1, <1>2, <2>1, <2>2 DEF Holders, OthersStay
<1>4. \A b : b # 0 /\ b # a => Holders(b)' = Holders(b)
  BY <1>0, <1>2 DEF Holders, OthersStay
<1>5. a \notin AllLinked(Shared) /\ a \notin gc
  BY <1>1, SharedIs, SoundLists DEF DataInv, State, Sound
<1>6. Entries(mem')
  <2>1. Entries(mem)
    BY SharedIs DEF DataInv, State, Sound
  <2>2. \A b \in DOMAIN mem' : mem'[b] \in Entry
    BY <1>1, <2>1 DEF Entries
  <2>3. mem' \in [DOMAIN mem' -> Entry]
    BY <2>2
  <2> QED
    BY <2>1, <2>3 DEF Gains, Entries
<1>7. ASSUME NEW s \in Slot PROVE ListSound(Shared', s)
  <2>1. ListSound(Shared, s)
    BY DEF DataInv, State, Sound
  <2>2. ToSet(slots[s]) \subseteq DOMAIN mem
    BY <2>1, ElementsIn, SharedIs DEF ListSound
  <2>3. slots[s] \in Seq(DOMAIN mem')
    BY <1>1, <2>1, SharedIs DEF ListSound
  <2> QED
    BY <1>1, <2>1, <2>2, <2>3, SharedIs DEF ListSound, Shared
<1>8. Sound(Shared')
  <2>1. /\ slots = [s \in Slot |-> slots[s]] /\ gc \subseteq DOMAIN mem
    BY SharedIs DEF DataInv, State, Sound
  <2>2. IsShared(Shared')
    BY DEF Shared, IsShared
  <2>3. Shared'.mem = mem' /\ Shared'.slots = slots /\ Shared'.gc = gc
    BY DEF Shared
  <2> HIDE DEF Shared
  <2> QED
    BY <1>1, <1>6, <1>7, <2>1, <2>2, <2>3 DEF Sound
<1>9. Loose(Shared') = Loose(Shared) \cup {a}
  BY <1>1, <1>5, SharedIs DEF Loose, AllLinked, Shared
<1>10. Held' = Held \cup {a}
  <2>1. \A b : b \in Held' <=> b \in Held \/ b = a
    BY <1>1, <1>3, <1>4, <1>9 DEF Held
  <2> QED
    BY <2>1
<1>11. Pinned(Shared, Held)'
  <2>1. Pinned(Shared, Held)
    BY DEF DataInv, State
  <2> QED
    BY <1>1, <1>5, <1>10, <2>1, HeldFacts, SharedIs DEF Pinned, Overdue, Shared
<1>12. State(Shared, Held)'
  <2>1. Loose(Shared') \subseteq Held'
    BY <1>9, <1>10, HeldFacts
  <2> QED
    BY <1>8, <1>11, <2>1 DEF State
<1>13. ASSUME NEW q \in Proc PROVE PointerOf(q)'
  <2>1. PointerOf(q)
    BY DEF DataInv
  <2>2. CASE q = p
    BY <1>0, <1>1, <1>3, <1>9, <2>2 DEF PointerOf
  <2>3. CASE q # p
    <3>1. pc'[q] = pc[q] /\ op'[q] = op[q] /\ ptr'[q] = ptr[q]
      BY <2>3 DEF OthersStay
    <3>2. Counted(q) /\ ptr[q] # 0 => ptr[q] \in DOMAIN mem
      BY HeldFacts
    <3>3. ptr[q] \in Loose(Shared) => ptr[q] # a /\ ptr[q] # 0
      BY <1>1, HeldFacts
    <3>4. pc[q] \in {"release", "copy"} => ptr[q] # a
      <4>1. pc[q] \in {"release", "copy"} => Counted(q) /\ ptr[q] # 0
        BY <2>1 DEF PointerOf, Counted
      <4> QED
        BY <1>1, <3>2, <4>1
    <3> QED
      BY <1>1, <1>2, <1>4, <1>9, <2>1, <3>1, <3>2, <3>3, <3>4 DEF PointerOf
  <2> QED
    BY <2>2, <2>3
<1>14. ASSUME NEW b \in DOMAIN mem' PROVE RefCovers(b)'
  <2>1. CASE b = a
    BY <1>1, <1>3, <2>1, FS_Singleton DEF RefCovers
  <2>2. CASE b # a
    <3>1. RefCovers(b) /\ b # 0
      BY <1>1, <2>2, HeldFacts DEF DataInv
    <3> QED
      BY <1>1, <1>4, <2>2, <3>1 DEF RefCovers
  <2> QED
    BY <2>1, <2>2
<1>15. ASSUME NEW b \in Loose(Shared') PROVE Owned(b)'
  <2>1. CASE b = a
    BY <1>0, <2>1 DEF Owned
  <2>2. CASE b # a
    <3>1. Owned(b) /\ b # 0
      BY <1>9, <2>2, HeldFacts DEF DataInv
    <3> QED
      BY <3>1 DEF Owned, OthersStay
  <2> QED
    BY <2>1, <2>2
<1> QED
  BY <1>12, <1>13, <1>14, <1>15 DEF DataInv

\* free_entry() of an entry that was not inserted.
LEMMA DiscardStep ==
  ASSUME DataInv, NEW p \in Proc, OthersStay(p), now' = now, pc[p] = "discard",
         ptr'[p] = 0, pc'[p] \notin Holding \cup {"dead"},
         Loses(mem, mem', {ptr[p]}), mem' = [b \in DOMAIN mem' |-> mem'[b]],
         UNCHANGED <<slots, gc>>
  PROVE  DataInv'
<1>0. PICK a : a = ptr[p]
  OBVIOUS
<1>1. /\ DOMAIN mem' = DOMAIN mem \ {a} /\ \A b \in DOMAIN mem' : mem'[b] = mem[b]
  BY <1>0 DEF Loses
<1>2. \A q \in Proc : Counted(q)' = Counted(q)
  BY DEF Counted, OthersStay
<1>3. a \in Loose(Shared) /\ Holders(a) = {p} /\ a # 0
  <2>1. PointerOf(p)
    BY DEF DataInv
  <2>2. a \in Loose(Shared) /\ Holders(a) = {p}
    BY <1>0, <2>1 DEF PointerOf
  <2> QED
    BY <2>2, HeldFacts
<1>4. \A b : b # 0 /\ b # a => Holders(b)' = Holders(b)
  BY <1>0, <1>2 DEF Holders, OthersStay
<1>5. Holders(a)' = {}
  BY <1>0, <1>2, <1>3 DEF Holders, OthersStay
<1>6. Thins(mem, mem')
  <2>1. Entries(mem)
    BY SharedIs DEF DataInv, State, Sound
  <2>2. mem' \in [DOMAIN mem' -> Entry]
    BY <1>1, <2>1 DEF Entries
  <2> QED
    BY <1>1, <2>2 DEF Thins
<1>7. Sound(Shared')
  <2>1. /\ slots = [s \in Slot |-> slots[s]] /\ gc \subseteq DOMAIN mem /\ a \notin gc
    BY <1>3, SharedIs DEF DataInv, State, Sound, Loose
  <2>2. ASSUME NEW s \in Slot
        PROVE  /\ slots[s] \in Seq(DOMAIN mem') /\ Distinct(slots[s])
               /\ ToSet(slots[s]) \cap gc = {}
    <3>1. ListSound(Shared, s)
      BY DEF DataInv, State, Sound
    <3>2. a \notin ToSet(slots[s])
      BY <1>3, SharedIs, InLinked DEF Loose
    <3>3. slots[s] \in Seq(DOMAIN mem) /\ Distinct(slots[s]) /\ ToSet(slots[s]) \cap gc = {}
      BY <3>1, SharedIs DEF ListSound
    <3>4. slots[s] \in Seq(DOMAIN mem')
      BY <1>1, <3>2, <3>3 DEF ToSet
    <3> QED
      BY <3>3, <3>4
  <2>3. IsShared(Shared')
    BY DEF Shared, IsShared
  <2>4. Shared'.mem = mem' /\ Shared'.slots = slots /\ Shared'.gc = gc
    BY DEF Shared
  <2>5. Shared'.gc \subseteq DOMAIN Shared'.mem
    BY <1>1, <2>1, <2>4
  <2>6. Thins(Shared.mem, Shared'.mem)
    BY <1>6, <2>4, SharedIs
  <2> HIDE DEF Shared
  <2> QED
    BY <2>1, <2>2, <2>3, <2>4, <2>5, <2>6, SharedIs, ThinSound DEF DataInv, State
<1>8. Loose(Shared') = Loose(Shared) \ {a}
  BY <1>1, SharedIs DEF Loose, AllLinked, Shared
<1>9. Held' = Held \ {a}
  <2>1. \A b : b \in Held' <=> b \in Held /\ b # a
    BY <1>3, <1>4, <1>5, <1>8, HeldFacts DEF Held
  <2> QED
    BY <2>1
<1>10. Pinned(Shared, Held)'
  <2>1. Pinned(Shared, Held)
    BY DEF DataInv, State
  <2> QED
    BY <1>1, <1>9, <2>1, SharedIs DEF Pinned, Overdue, Shared
<1>11. State(Shared, Held)'
  <2>1. Loose(Shared') \subseteq Held'
    BY <1>8, <1>9, HeldFacts
  <2> QED
    BY <1>7, <1>10, <2>1 DEF State
<1>12. ASSUME NEW q \in Proc PROVE PointerOf(q)'
  <2>1. PointerOf(q)
    BY DEF DataInv
  <2>2. CASE q = p
    BY HeldFacts, <2>2 DEF PointerOf, Holding
  <2>3. CASE q # p
    <3>1. pc'[q] = pc[q] /\ op'[q] = op[q] /\ ptr'[q] = ptr[q]
      BY <2>3 DEF OthersStay
    <3>2. Counted(q) /\ ptr[q] # 0 => ptr[q] \in DOMAIN mem /\ ptr[q] # a
      BY <1>3, <2>3, HeldFacts
    <3>3. ptr[q] \in Loose(Shared) => ptr[q] # 0
      BY HeldFacts
    <3>4. pc[q] \in {"insert", "discard"} => Counted(q)
      BY DEF Counted
    <3> QED
      BY <1>1, <1>2, <1>4, <1>8, <2>1, <3>1, <3>2, <3>3, <3>4 DEF PointerOf
  <2> QED
    BY <2>2, <2>3
<1>13. ASSUME NEW b \in DOMAIN mem' PROVE RefCovers(b)'
  <2>1. RefCovers(b) /\ b # 0 /\ b # a
    BY <1>1, HeldFacts DEF DataInv
  <2> QED
    BY <1>1, <1>4, <2>1 DEF RefCovers
<1>14. ASSUME NEW b \in Loose(Shared') PROVE Owned(b)'
  <2>1. Owned(b) /\ b # 0 /\ b # a
    BY <1>8, HeldFacts DEF DataInv
  <2> QED
    BY <1>0, <2>1 DEF Owned, OthersStay
<1> QED
  BY <1>11, <1>12, <1>13, <1>14 DEF DataInv

\* A process is killed: its references lapse if apc.gc_ttl lets them.
LEMMA KillStep ==
  ASSUME DataInv, NEW p \in Proc, OthersStay(p), UNCHANGED <<now, mem, slots, gc, mem_size, nentries>>,
         pc'[p] = "dead", op'[p] = op[p], ptr'[p] = ptr[p]
  PROVE  DataInv'
<1>1. Shared' = Shared
  BY DEF Shared
<1>2. \A q \in Proc : (Counted(q)' => Counted(q)) /\ (q # p \/ GcTtl = 0 => Counted(q)' = Counted(q))
  BY DEF Counted, OthersStay
<1>3. \A a : Holders(a)' \subseteq Holders(a) /\ (GcTtl = 0 => Holders(a)' = Holders(a))
             /\ Holders(a) \ {p} \subseteq Holders(a)'
  BY <1>2 DEF Holders, OthersStay
<1>4. Held' \subseteq Held
  BY <1>1, <1>3 DEF Held
<1>5. State(Shared, Held)'
  <2>1. Loose(Shared') \subseteq Held' /\ Sound(Shared')
    BY <1>1, HeldFacts DEF Held, DataInv, State
  <2> QED
    BY <1>1, <1>4, <2>1 DEF State, Pinned, Overdue, DataInv
<1>6. ASSUME NEW q \in Proc PROVE PointerOf(q)'
  <2>1. PointerOf(q)
    BY DEF DataInv
  <2>2. CASE q = p
    BY <1>2, <2>1, <2>2 DEF PointerOf
  <2>3. CASE q # p
    <3>1. pc'[q] = pc[q] /\ op'[q] = op[q] /\ ptr'[q] = ptr[q]
      BY <2>3 DEF OthersStay
    <3>2. Holders(ptr[q]) = {q} => Holders(ptr[q])' = {q}
      <4>1. PICK b : b = ptr[q]
        OBVIOUS
      <4>2. Holders(b) = {q} => Holders(b)' = {q}
        BY <1>3, <2>3
      <4> QED
        BY <3>1, <4>1, <4>2
    <3> QED
      BY <1>1, <1>2, <2>1, <3>1, <3>2 DEF PointerOf
  <2> QED
    BY <2>2, <2>3
<1>7. ASSUME NEW a \in DOMAIN mem' PROVE RefCovers(a)'
  <2>1. RefCovers(a) /\ mem[a].ref \in Int
    BY HeldFacts DEF DataInv
  <2>2. Cardinality(Holders(a)') <= Cardinality(Holders(a)) /\ Cardinality(Holders(a)') \in Nat
    BY <1>3, HoldersFinite, FS_Subset, FS_CardinalityType
  <2> QED
    BY <1>3, <2>1, <2>2, HoldersFinite DEF RefCovers
<1>8. ASSUME NEW a \in Loose(Shared') PROVE Owned(a)'
  BY <1>1 DEF DataInv, Owned, OthersStay
<1> QED
  BY <1>5, <1>6, <1>7, <1>8 DEF DataInv

\* Time passes, but not so much that an entry that is held is overdue.
LEMMA TimeStep ==
  ASSUME DataInv, UNCHANGED <<mem, slots, gc, mem_size, nentries, pc, op, ptr>>,
         now' \in Time, GcTtl = 0 \/ Prompt'
  PROVE  DataInv'
<1>1. Shared' = Shared
  BY DEF Shared
<1>2. \A a : Holders(a)' = Holders(a)
  BY DEF Holders, Counted
<1>3. Held' = Held
  BY <1>1, <1>2 DEF Held
<1>4. ASSUME NEW a \in Held, a \in gc PROVE ~Overdue(mem[a])'
  <2>1. CASE GcTtl = 0
    BY <2>1 DEF Overdue
  <2>2. CASE GcTtl # 0 /\ Prompt'
    <3>1. a \notin Loose(Shared)
      BY <1>4, SharedIs DEF Loose
    <3>2. PICK q \in Proc : ptr[q] = a /\ pc[q] # "dead"
      BY <2>2, <3>1 DEF Held, Holders, Counted
    <3>3. now' - mem[a].dtime <= GcTtl
      BY <1>4, <2>2, <3>2 DEF Prompt
    <3>4. ~(now' - mem[a].dtime > GcTtl)
      <4>1. mem[a].dtime \in Int /\ now' \in Int /\ GcTtl \in Int
        BY <1>4, HeldFacts, CacheAssumption DEF Entry, Time
      <4> QED
        BY <3>3, <4>1
    <3> QED
      BY <3>4 DEF Overdue
  <2> QED
    BY <2>1, <2>2
<1>5. State(Shared, Held)'
  <2>1. Pinned(Shared, Held)'
    <3> SUFFICES ASSUME NEW a \in Held
                 PROVE  /\ a \in DOMAIN mem /\ mem[a].ref > 0
                        /\ a \in gc => ~Overdue(mem[a])'
      BY <1>3, SharedIs DEF Pinned, Shared
    <3> QED
      BY <1>4, SharedIs DEF DataInv, State, Pinned
  <2> QED
    BY <1>1, <1>3, <2>1 DEF State, DataInv
<1> QED
  BY <1>1, <1>2, <1>5 DEF DataInv, PointerOf, RefCovers, Owned, Counted

-----------------------------------------------------------------------------
(* Every step keeps the data *)

\* p neither gets nor gives up an entry, and the others do nothing.
Quiet(p) ==
  /\ OthersStay(p) /\ now' = now
  /\ ptr[p] = 0 /\ ptr'[p] = 0
  /\ pc[p] # "dead" /\ pc'[p] \notin Holding \cup {"dead"}

LEMMA QuietStep ==
  ASSUME DataInv, NEW p \in Proc, Quiet(p), NEW d, Keeps(Shared, d, Held), SetShared(d)
  PROVE  DataInv'
<1>1. IsShared(d)
  BY DEF Keeps, Carries, State, Sound
<1>2. Shared' = d
  BY <1>1, SharedBecomes
<1>3. Carries(Shared, Shared', Held) /\ Moves(p)
  BY <1>2 DEF Keeps, Moves, Quiet
<1> QED
  BY <1>3, CarryStep DEF Quiet

LEMMA QuietSame ==
  ASSUME DataInv, NEW p \in Proc, Quiet(p), UNCHANGED <<mem, slots, gc, mem_size, nentries>>
  PROVE  DataInv'
<1>1. SetShared(Shared)
  BY DEF SetShared, Shared
<1>2. Keeps(Shared, Shared, Held)
  BY KeepsSame DEF DataInv
<1> QED
  BY <1>1, <1>2, QuietStep

\* p returns without an entry.
LEMMA QuietReturn ==
  ASSUME LocalsOK, NEW p \in Proc, Return(p), now' = now, ptr[p] = 0, pc[p] # "dead"
  PROVE  Quiet(p)
<1>1. pc'[p] \in {"update", "callback", "idle"}
  BY Returned, Left
<1> QED
  BY <1>1, Returned DEF Quiet, OthersStay, Holding

LEMMA QuietLeave ==
  ASSUME LocalsOK, Control, NEW p \in Proc, Leave(p), UNCHANGED <<now, ptr>>,
         pc[p] \in {"fetch", "exists", "delete", "clear", "update", "entry"}
  PROVE  Quiet(p)
<1>1. ptr[p] = 0
  BY DEF Control, ControlOf, Holding
<1>2. pc'[p] \in {"callback", "idle"}
  BY Left
<1> QED
  BY <1>1, <1>2, Left DEF Quiet, OthersStay, Holding

\* An entry is touched: its key, length and place stay.
LEMMA TouchAlters ==
  ASSUME DataInv, now' = now, NEW a \in DOMAIN mem, NEW n \in Int, NEW t \in Time,
         UNCHANGED <<slots, gc>>, mem' = Touched(a, t, n)
  PROVE  Alters(Shared, Shared', a, n)
<1>1. mem \in [DOMAIN mem -> Entry] /\ mem[a] \in Entry
  BY SharedIs DEF DataInv, State, Sound, Entries
<1>2. DOMAIN mem' = DOMAIN mem /\ \A b \in DOMAIN mem \ {a} : mem'[b] = mem[b]
  BY DEF Touched
<1>3. mem'[a] = [mem[a] EXCEPT !.atime = t, !.ref = @ + n]
  BY <1>1 DEF Touched
<1>4. /\ mem'[a] \in Entry /\ mem'[a].key = mem[a].key /\ mem'[a].len = mem[a].len
      /\ mem'[a].dtime = mem[a].dtime /\ mem'[a].ref = mem[a].ref + n
  <2>1. PICK e \in Entry : e = mem[a]
    BY <1>1
  <2>2. PICK r \in Int : r = e.ref + n
    BY DEF Entry
  <2>3. mem'[a] = [e EXCEPT !.atime = t, !.ref = r]
    BY <1>3, <2>1, <2>2
  <2> QED
    BY <2>1, <2>2, <2>3 DEF Entry
<1>5. mem' \in [DOMAIN mem' -> Entry]
  BY <1>1, <1>2, <1>4 DEF Touched
<1>6. IsShared(Shared')
  BY DEF Shared, IsShared
<1>7. Shared'.mem = mem' /\ Shared'.slots = slots /\ Shared'.gc = gc
  BY DEF Shared
<1> HIDE DEF Shared
<1> QED
  BY <1>2, <1>4, <1>5, <1>6, <1>7, SharedIs DEF Alters

\* What a lookup finds is linked, with the key.
LEMMA FoundLinked ==
  ASSUME LocalsOK, DataInv, NEW p \in Proc, NEW a \in Found(op[p].key, op[p].t)
  PROVE  /\ a \in AllLinked(Shared) /\ a \in DOMAIN mem /\ mem[a].key = op[p].key
         /\ op[p].t \in Time
<1>1. op[p] \in Op
  BY DEF LocalsOK
<1>2. op[p].t \in Time /\ SlotOf[op[p].key] \in Slot
  BY <1>1 DEF Op, Slot
<1>3. a \in ToSet(slots[SlotOf[op[p].key]]) /\ mem[a].key = op[p].key
  BY DEF Found, Linked
<1> QED
  BY <1>2, <1>3, SharedIs, SoundLists DEF DataInv, State

LEMMA LinkedListed ==
  ASSUME LocalsOK, NEW p \in Proc
  PROVE  Linked(op[p].key) \in SUBSET AllLinked(Shared)
<1>1. SlotOf[op[p].key] \in Slot
  BY DEF LocalsOK, Op, Slot
<1> QED
  BY <1>1, SharedIs, InLinked DEF Linked

LEMMA RemoveKeeps ==
  ASSUME LocalsOK, DataInv, NEW A \in SUBSET AllLinked(Shared)
  PROVE  Keeps(Shared, RemoveAll(Shared, A), Held)
<1>1. Removes(Shared, RemoveAll(Shared, A), A)
  BY RemoveAllRemoves DEF DataInv, State
<1> QED
  BY <1>1, RemovesKeeps DEF LocalsOK, DataInv

LEMMA SweepKeeps ==
  ASSUME LocalsOK, DataInv, NEW A \in SUBSET AllLinked(Shared)
  PROVE  Keeps(Shared, Gc(RemoveAll(Shared, A)), Held)
<1>1. Keeps(Shared, RemoveAll(Shared, A), Held)
  BY RemoveKeeps
<1>2. State(RemoveAll(Shared, A), Held)
  BY <1>1 DEF Keeps, Carries
<1>3. Keeps(RemoveAll(Shared, A), Gc(RemoveAll(Shared, A)), Held)
  BY <1>2, GcKeeps
<1> QED
  BY <1>1, <1>3, KeepsBoth

LEMMA QuietAlters ==
  ASSUME DataInv, NEW p \in Proc, Quiet(p), NEW a, Alters(Shared, Shared', a, 0)
  PROVE  DataInv'
<1>1. Keeps(Shared, Shared', Held)
  BY AltersKeeps DEF DataInv
<1>2. Carries(Shared, Shared', Held) /\ Moves(p)
  BY <1>1 DEF Keeps, Moves, Quiet
<1> QED
  BY <1>2, CarryStep DEF Quiet

LEMMA UpdateAlters ==
  ASSUME DataInv, NEW a \in DOMAIN mem, UNCHANGED <<slots, gc>>,
         mem' = [mem EXCEPT ![a].val = @ + 1]
  PROVE  Alters(Shared, Shared', a, 0)
<1>1. mem \in [DOMAIN mem -> Entry] /\ mem[a] \in Entry
  BY SharedIs DEF DataInv, State, Sound, Entries
<1>2. DOMAIN mem' = DOMAIN mem /\ \A b \in DOMAIN mem \ {a} : mem'[b] = mem[b]
  OBVIOUS
<1>3. mem'[a] = [mem[a] EXCEPT !.val = @ + 1]
  BY <1>1
<1>4. /\ mem'[a] \in Entry /\ mem'[a].key = mem[a].key /\ mem'[a].len = mem[a].len
      /\ mem'[a].dtime = mem[a].dtime /\ mem'[a].ref = mem[a].ref + 0
  BY <1>1, <1>3 DEF Entry
<1>5. mem' \in [DOMAIN mem' -> Entry]
  BY <1>1, <1>2, <1>4
<1>6. IsShared(Shared')
  BY DEF Shared, IsShared
<1>7. Shared'.mem = mem' /\ Shared'.slots = slots /\ Shared'.gc = gc
  BY DEF Shared
<1> HIDE DEF Shared
<1> QED
  BY <1>2, <1>4, <1>5, <1>6, <1>7, SharedIs DEF Alters

LEMMA ReleaseAlters ==
  ASSUME DataInv, NEW a \in DOMAIN mem, UNCHANGED <<slots, gc>>,
         mem' = [mem EXCEPT ![a].ref = @ - 1]
  PROVE  Alters(Shared, Shared', a, -1)
<1>1. mem \in [DOMAIN mem -> Entry] /\ mem[a] \in Entry
  BY SharedIs DEF DataInv, State, Sound, Entries
<1>2. DOMAIN mem' = DOMAIN mem /\ \A b \in DOMAIN mem \ {a} : mem'[b] = mem[b]
  OBVIOUS
<1>3. mem'[a] = [mem[a] EXCEPT !.ref = @ - 1]
  BY <1>1
<1>4. /\ mem'[a] \in Entry /\ mem'[a].key = mem[a].key /\ mem'[a].len = mem[a].len
      /\ mem'[a].dtime = mem[a].dtime /\ mem'[a].ref = mem[a].ref + (-1)
  BY <1>1, <1>3 DEF Entry
<1>5. mem' \in [DOMAIN mem' -> Entry]
  BY <1>1, <1>2, <1>4
<1>6. IsShared(Shared')
  BY DEF Shared, IsShared
<1>7. Shared'.mem = mem' /\ Shared'.slots = slots /\ Shared'.gc = gc
  BY DEF Shared
<1> HIDE DEF Shared
<1> QED
  BY <1>2, <1>4, <1>5, <1>6, <1>7, SharedIs DEF Alters

LEMMA StutterStep ==
  ASSUME DataInv, UNCHANGED <<mem, slots, gc, mem_size, nentries, pc, op, ptr, now>>
  PROVE  DataInv'
<1>1. Shared' = Shared
  BY DEF Shared
<1>2. \A a : Holders(a)' = Holders(a)
  BY DEF Holders, Counted
<1>3. Held' = Held
  BY <1>1, <1>2 DEF Held
<1>4. State(Shared, Held)'
  BY <1>1, <1>3 DEF DataInv, State, Pinned, Overdue
<1> QED
  BY <1>1, <1>2, <1>4 DEF DataInv, PointerOf, RefCovers, Owned, Counted

\* Time passes only while no live process holds a removed entry for longer than
\* apc.gc_ttl, if there is a gc_ttl.
Punctual == now' # now => GcTtl = 0 \/ Prompt'

LEMMA DataStep ==
  ASSUME LocalsOK, LocalsOK', Control, DataInv, [Next]_vars, Punctual
  PROVE  DataInv'
<1>0. /\ pc = [q \in Proc |-> pc[q]] /\ op \in [Proc -> Op] /\ ptr = [q \in Proc |-> ptr[q]]
  BY DEF LocalsOK
<1>call. ASSUME NEW p \in Proc, NEW kind, NEW k, NEW ttl, NEW len, Call(p, kind, k, ttl, len)
         PROVE  DataInv'
  <2>1. kind \in Kinds
    BY <1>call, CacheAssumption DEF Call, Kinds
  <2>2. ptr[p] = 0
    BY <1>call DEF Call, Control, ControlOf, Holding
  <2>3. Quiet(p)
    BY <1>call, <1>0, <2>1, <2>2 DEF Call, Quiet, Kinds, At, Goto, OthersStay, Holding, Expunging, localVars, cacheVars
  <2> QED
    BY <1>call, <2>3, QuietSame DEF Call, cacheVars
<1>ret. ASSUME NEW p \in Proc, NEW ttl, NEW len, CallbackReturns(p, ttl, len)
        PROVE  DataInv'
  <2>1. Quiet(p)
    BY <1>ret, <1>0 DEF CallbackReturns, Quiet, Control, ControlOf, At, Goto, OthersStay, Holding, Expunging, localVars, cacheVars
  <2> QED
    BY <1>ret, <2>1, QuietSame DEF CallbackReturns, cacheVars
<1>MallocRetries. ASSUME NEW p \in Proc, MallocRetries(p) PROVE DataInv'
  <2>1. Quiet(p)
    BY <1>MallocRetries, <1>0 DEF MallocRetries, LockFails, Control, ControlOf, Quiet, At, Goto, OthersStay, Holding, Expunging, localVars, cacheVars
  <2> QED
    BY <1>MallocRetries, <2>1, QuietSame DEF MallocRetries, cacheVars
<1>Snapshot. ASSUME NEW p \in Proc, Snapshot(p) PROVE DataInv'
  <2>1. Quiet(p)
    BY <1>Snapshot, <1>0 DEF Snapshot, LockFails, Control, ControlOf, Quiet, At, Goto, OthersStay, Holding, Expunging, localVars, cacheVars
  <2> QED
    BY <1>Snapshot, <2>1, QuietSame DEF Snapshot, cacheVars
<1>SkipExpunge. ASSUME NEW p \in Proc, SkipExpunge(p) PROVE DataInv'
  <2>1. Quiet(p)
    BY <1>SkipExpunge, <1>0 DEF SkipExpunge, LockFails, Control, ControlOf, Quiet, At, Goto, OthersStay, Holding, Expunging, localVars, cacheVars
  <2> QED
    BY <1>SkipExpunge, <2>1, QuietSame DEF SkipExpunge, cacheVars
<1>ExpungeUnlocked. ASSUME NEW p \in Proc, ExpungeUnlocked(p) PROVE DataInv'
  <2>1. Quiet(p)
    BY <1>ExpungeUnlocked, <1>0 DEF ExpungeUnlocked, LockFails, Control, ControlOf, Quiet, At, Goto, OthersStay, Holding, Expunging, localVars, cacheVars
  <2> QED
    BY <1>ExpungeUnlocked, <2>1, QuietSame DEF ExpungeUnlocked, cacheVars
<1>EntryMiss. ASSUME NEW p \in Proc, EntryMiss(p) PROVE DataInv'
  <2>1. Quiet(p)
    BY <1>EntryMiss, <1>0 DEF EntryMiss, LockFails, Control, ControlOf, Quiet, At, Goto, OthersStay, Holding, Expunging, localVars, cacheVars
  <2> QED
    BY <1>EntryMiss, <2>1, QuietSame DEF EntryMiss, cacheVars
<1>Misses. ASSUME NEW p \in Proc, Misses(p) PROVE DataInv'
  <2>1. Quiet(p)
    BY <1>Misses, QuietLeave DEF Misses, LockFails, At, localVars
  <2> QED
    BY <1>Misses, <2>1, QuietSame DEF Misses, cacheVars
<1>RequestUnlocked. ASSUME NEW p \in Proc, RequestUnlocked(p) PROVE DataInv'
  <2>1. Quiet(p)
    BY <1>RequestUnlocked, QuietLeave DEF RequestUnlocked, LockFails, At, localVars
  <2> QED
    BY <1>RequestUnlocked, <2>1, QuietSame DEF RequestUnlocked, cacheVars
<1>MallocFails. ASSUME NEW p \in Proc, MallocFails(p) PROVE DataInv'
  <2>1. ptr[p] = 0 /\ pc[p] # "dead"
    BY <1>MallocFails DEF MallocFails, NoRoom, At, Control, ControlOf, Holding
  <2>2. Quiet(p)
    BY <1>MallocFails, <2>1, QuietReturn DEF MallocFails
  <2> QED
    BY <1>MallocFails, <2>2, QuietSame DEF MallocFails, cacheVars
<1>CallbackThrows. ASSUME NEW p \in Proc, CallbackThrows(p) PROVE DataInv'
  <2>1. ptr[p] = 0 /\ pc[p] # "dead"
    BY <1>CallbackThrows DEF CallbackThrows, At, Control, ControlOf, Holding
  <2>2. Quiet(p)
    BY <1>CallbackThrows, <2>1, QuietReturn DEF CallbackThrows
  <2> QED
    BY <1>CallbackThrows, <2>2, QuietSame DEF CallbackThrows, cacheVars
<1>UpdateMisses. ASSUME NEW p \in Proc, UpdateMisses(p) PROVE DataInv'
  <2>1. CASE op[p].kind = "inc"
    <3>1. Quiet(p)
      BY <1>UpdateMisses, <2>1, <1>0 DEF UpdateMisses, Control, ControlOf, Quiet, At, Goto, OthersStay, Holding, Expunging, localVars, cacheVars
    <3> QED
      BY <1>UpdateMisses, <3>1, QuietSame DEF UpdateMisses, cacheVars
  <2>2. CASE op[p].kind # "inc"
    <3>1. Quiet(p)
      BY <1>UpdateMisses, <2>2, QuietLeave DEF UpdateMisses, At, localVars
    <3> QED
      BY <1>UpdateMisses, <3>1, QuietSame DEF UpdateMisses, cacheVars
  <2> QED
    BY <2>1, <2>2
<1>Sweep. ASSUME NEW p \in Proc, Sweep(p) PROVE DataInv'
  <2> DEFINE stale == {a \in AllLinked(Shared) : Expired(mem[a], snap[p].t)}
  <2>1. Quiet(p)
    BY <1>Sweep, <1>0 DEF Sweep, Control, ControlOf, Quiet, At, Goto, OthersStay, Holding, Expunging, localVars, cacheVars
  <2>2. Keeps(Shared, Gc(RemoveAll(Shared, stale)), Held)
    BY SweepKeeps
  <2>3. SetShared(Gc(RemoveAll(Shared, stale)))
    BY <1>Sweep DEF Sweep
  <2> QED
    BY <2>1, <2>2, <2>3, QuietStep
<1>CheckAvail. ASSUME NEW p \in Proc, CheckAvail(p) PROVE DataInv'
  <2>1. CASE Avail(mem) < Need(op[p])
    <3>1. Quiet(p)
      BY <1>CheckAvail, <2>1, <1>0 DEF CheckAvail, EndExpunge, Control, ControlOf, Quiet, At, Goto, OthersStay, Holding, Expunging, localVars, cacheVars
    <3>2. Keeps(Shared, RealExpunge(Shared), Held)
      BY ExpungeKeeps DEF LocalsOK, DataInv
    <3>3. SetShared(RealExpunge(Shared))
      BY <1>CheckAvail, <2>1 DEF CheckAvail
    <3> QED
      BY <3>1, <3>2, <3>3, QuietStep
  <2>2. CASE ~(Avail(mem) < Need(op[p]))
    <3>1. Quiet(p)
      BY <1>CheckAvail, <2>2, <1>0 DEF CheckAvail, Control, ControlOf, Quiet, At, Goto, OthersStay, Holding, Expunging, localVars, cacheVars
    <3> QED
      BY <1>CheckAvail, <2>2, <3>1, QuietSame DEF CheckAvail, cacheVars
  <2> QED
    BY <2>1, <2>2
<1>Compact. ASSUME NEW p \in Proc, Compact(p) PROVE DataInv'
  <2>1. Quiet(p)
    BY <1>Compact, <1>0 DEF Compact, Control, ControlOf, Quiet, At, Goto, OthersStay, Holding, Expunging, localVars, cacheVars
  <2>2. Keeps(Shared, Defrag(Shared), Held)
    BY DefragKeeps DEF DataInv
  <2>3. SetShared(Defrag(Shared))
    BY <1>Compact DEF Compact
  <2> QED
    BY <2>1, <2>2, <2>3, QuietStep
<1>CheckContiguous. ASSUME NEW p \in Proc, CheckContiguous(p) PROVE DataInv'
  <2>1. Quiet(p)
    BY <1>CheckContiguous, <1>0 DEF CheckContiguous, EndExpunge, Control, ControlOf, Quiet, At, Goto, OthersStay, Holding, Expunging, localVars, cacheVars
  <2>2. CASE SetShared(RealExpunge(Shared))
    <3>1. Keeps(Shared, RealExpunge(Shared), Held)
      BY ExpungeKeeps DEF LocalsOK, DataInv
    <3> QED
      BY <2>1, <2>2, <3>1, QuietStep
  <2>3. CASE UNCHANGED <<mem, slots, gc, mem_size, nentries>>
    BY <2>1, <2>3, QuietSame
  <2> QED
    BY <1>CheckContiguous, <2>2, <2>3 DEF CheckContiguous
<1>Delete. ASSUME NEW p \in Proc, Delete(p) PROVE DataInv'
  <2>1. Quiet(p)
    BY <1>Delete, QuietLeave DEF Delete, At, localVars
  <2>2. Keeps(Shared, RemoveAll(Shared, Linked(op[p].key)), Held)
    BY LinkedListed, RemoveKeeps
  <2>3. SetShared(RemoveAll(Shared, Linked(op[p].key)))
    BY <1>Delete DEF Delete
  <2> QED
    BY <2>1, <2>2, <2>3, QuietStep
<1>Clear. ASSUME NEW p \in Proc, Clear(p) PROVE DataInv'
  <2>1. Quiet(p)
    BY <1>Clear, QuietLeave DEF Clear, At, localVars
  <2>2. Keeps(Shared, RealExpunge(Shared), Held)
    BY ExpungeKeeps DEF LocalsOK, DataInv
  <2>3. SetShared(RealExpunge(Shared))
    BY <1>Clear DEF Clear
  <2> QED
    BY <2>1, <2>2, <2>3, QuietStep
<1>Exists. ASSUME NEW p \in Proc, Exists(p) PROVE DataInv'
  <2>1. Quiet(p)
    BY <1>Exists, QuietLeave DEF Exists, At, localVars
  <2>2. PICK a \in Found(op[p].key, op[p].t) : mem' = Touched(a, op[p].t, 0)
    BY <1>Exists DEF Exists
  <2>3. Alters(Shared, Shared', a, 0)
    BY <1>Exists, <2>2, FoundLinked, TouchAlters DEF Exists
  <2> QED
    BY <2>1, <2>3, QuietAlters
<1>Update. ASSUME NEW p \in Proc, Update(p) PROVE DataInv'
  <2>1. Quiet(p)
    BY <1>Update, QuietLeave DEF Update, At, localVars
  <2>2. PICK a \in Found(op[p].key, op[p].t) : mem' = [mem EXCEPT ![a].val = @ + 1]
    BY <1>Update DEF Update
  <2>3. Alters(Shared, Shared', a, 0)
    BY <1>Update, <2>2, FoundLinked, UpdateAlters DEF Update
  <2> QED
    BY <2>1, <2>3, QuietAlters
<1>Fetch. ASSUME NEW p \in Proc, Fetch(p) PROVE DataInv'
  <2>1. /\ OthersStay(p) /\ ptr[p] = 0 /\ pc[p] # "dead" /\ pc'[p] = "copy" /\ op'[p] = op[p]
        /\ now' = now /\ UNCHANGED <<slots, gc>>
    BY <1>Fetch, <1>0 DEF Fetch, Control, ControlOf, Quiet, At, Goto, OthersStay, Holding, Expunging, localVars, cacheVars
  <2>2. PICK a \in Found(op[p].key, op[p].t) :
          mem' = Touched(a, op[p].t, 1) /\ ptr' = [ptr EXCEPT ![p] = a]
    BY <1>Fetch DEF Fetch
  <2>3. ptr'[p] = a
    BY <2>2 DEF LocalsOK
  <2>4. Alters(Shared, Shared', a, 1)
    BY <2>1, <2>2, FoundLinked, TouchAlters
  <2> QED
    BY <2>1, <2>2, <2>3, <2>4, FoundLinked, PinStep
<1>EntryHit. ASSUME NEW p \in Proc, EntryHit(p) PROVE DataInv'
  <2>1. /\ OthersStay(p) /\ ptr[p] = 0 /\ pc[p] # "dead" /\ pc'[p] = "copy" /\ op'[p] = op[p]
        /\ now' = now /\ UNCHANGED <<slots, gc>>
    BY <1>EntryHit, <1>0 DEF EntryHit, Control, ControlOf, Quiet, At, Goto, OthersStay, Holding, Expunging, localVars, cacheVars
  <2>2. PICK a \in Found(op[p].key, op[p].t) :
          mem' = Touched(a, op[p].t, 1) /\ ptr' = [ptr EXCEPT ![p] = a]
    BY <1>EntryHit DEF EntryHit
  <2>3. ptr'[p] = a
    BY <2>2 DEF LocalsOK
  <2>4. Alters(Shared, Shared', a, 1)
    BY <2>1, <2>2, FoundLinked, TouchAlters
  <2> QED
    BY <2>1, <2>2, <2>3, <2>4, FoundLinked, PinStep
<1>Release. ASSUME NEW p \in Proc, Release(p) PROVE DataInv'
  <2>1. OthersStay(p) /\ UnpinGuard(p) /\ now' = now /\ UNCHANGED <<slots, gc>>
    <3>1. pc'[p] \in {"update", "callback", "idle"}
      BY <1>Release, Returned, Left DEF Release
    <3> QED
      BY <1>Release, <3>1, Returned DEF Release, OthersStay, UnpinGuard, Holding
  <2>2. PointerOf(p) /\ Counted(p)
    BY <2>1 DEF DataInv, Counted, UnpinGuard
  <2>3. ptr[p] \in DOMAIN mem
    BY <2>1, <2>2, HeldFacts DEF PointerOf, UnpinGuard
  <2>4. mem' = [mem EXCEPT ![ptr[p]].ref = @ - 1]
    BY <1>Release, <2>3 DEF Release
  <2>5. Alters(Shared, Shared', ptr[p], -1)
    BY <2>1, <2>3, <2>4, ReleaseAlters
  <2> QED
    BY <2>1, <2>5, UnpinStep
<1>InsertEntry. ASSUME NEW p \in Proc, InsertEntry(p) PROVE DataInv'
  <2> DEFINE a == ptr[p]
           r == Insert(Shared, a, Exclusive(op[p]))
  <2>1. /\ OthersStay(p) /\ now' = now /\ pc[p] = "insert" /\ op'[p] = op[p] /\ ptr'[p] = ptr[p]
        /\ pc'[p] = IF r.ok THEN "release" ELSE "discard"
    BY <1>InsertEntry, <1>0 DEF InsertEntry, Quiet, At, Goto, OthersStay, Holding, Expunging, localVars, cacheVars
  <2>2. SetShared(r.c)
    BY <1>InsertEntry DEF InsertEntry
  <2>3. a \in Loose(Shared)
    BY <2>1 DEF DataInv, PointerOf
  <2>4. /\ Carries(Shared, r.c, Held) /\ r.ok \in BOOLEAN
        /\ r.ok => Loose(r.c) = Loose(Shared) \ {a}
        /\ ~r.ok => Loose(r.c) = Loose(Shared)
    BY <2>3, InsertKeeps DEF LocalsOK, DataInv
  <2> HIDE DEF r
  <2>5. Shared' = r.c
    BY <2>2, <2>4, SharedBecomes DEF Carries, State, Sound
  <2>6. Moves(p)
    BY <2>1, <2>4, <2>5 DEF Moves
  <2> QED
    BY <2>1, <2>4, <2>5, <2>6, CarryStep
<1>InsertUnlocked. ASSUME NEW p \in Proc, InsertUnlocked(p) PROVE DataInv'
  <2>1. /\ OthersStay(p) /\ now' = now /\ pc[p] = "insert" /\ op'[p] = op[p] /\ ptr'[p] = ptr[p]
        /\ pc'[p] = "discard" /\ UNCHANGED <<mem, slots, gc, mem_size, nentries>>
    BY <1>InsertUnlocked, <1>0 DEF InsertUnlocked, LockFails, Quiet, At, Goto, OthersStay, Holding, Expunging, localVars, cacheVars
  <2>2. Shared' = Shared
    BY <2>1 DEF Shared
  <2>3. Carries(Shared, Shared', Held) /\ Moves(p)
    BY <2>1, <2>2, KeepsSame DEF DataInv, Keeps, Moves
  <2> QED
    BY <2>1, <2>3, CarryStep
<1>Malloc. ASSUME NEW p \in Proc, Malloc(p) PROVE DataInv'
  <2>1. /\ OthersStay(p) /\ now' = now /\ pc[p] # "dead" /\ pc'[p] = "insert" /\ ptr[p] = 0
        /\ op'[p] = op[p] /\ UNCHANGED <<slots, gc>> /\ op[p] \in Op /\ op[p].len \in Lens
    BY <1>Malloc, <1>0 DEF Malloc, Control, ControlOf, Storing, Quiet, At, Goto, OthersStay, Holding, Expunging, localVars, cacheVars
  <2>2. PICK a \in Fitting(mem, op[p].len) :
          mem' = With(mem, a, NewEntry(op[p])) /\ ptr' = [ptr EXCEPT ![p] = a]
    BY <1>Malloc DEF Malloc
  <2>3. ptr'[p] = a
    BY <2>2 DEF LocalsOK
  <2>4. NewEntry(op[p]) \in Entry /\ NewEntry(op[p]).key = op[p].key /\ NewEntry(op[p]).ref = 1
        /\ NewEntry(op[p]).len = op[p].len
    BY <2>1, CacheAssumption DEF NewEntry, Entry, Op, Time
  <2>5. op[p].len \in Nat \ {0} /\ op[p].len <= op[p].len
    <3>1. op[p].len \in {n \in Nat : n > Hdr}
      BY <2>1, CacheAssumption
    <3> QED
      BY <3>1 DEF Hdr
  <2>6. IsHeap(mem)
    BY SharedIs DEF DataInv, State, Sound, Entries
  <2>7. Gains(mem, mem', a, NewEntry(op[p]))
    BY <2>2, <2>4, <2>5, <2>6, WithHeap
  <2>8. mem' = [b \in DOMAIN mem' |-> mem'[b]]
    BY <2>2 DEF With
  <2> QED
    BY <2>1, <2>3, <2>4, <2>7, <2>8, NewStep
<1>Discard. ASSUME NEW p \in Proc, Discard(p) PROVE DataInv'
  <2>1. pc[p] = "discard" /\ now' = now /\ UNCHANGED <<slots, gc>>
    BY <1>Discard DEF Discard, At
  <2>2. OthersStay(p) /\ ptr'[p] = 0 /\ pc'[p] \notin Holding \cup {"dead"}
    <3>1. pc'[p] \in {"update", "callback", "idle"}
      BY <1>Discard, Returned, Left DEF Discard
    <3> QED
      BY <1>Discard, <3>1, Returned DEF Discard, OthersStay, Holding
  <2>3. IsHeap(mem)
    BY SharedIs DEF DataInv, State, Sound, Entries
  <2>4. mem' = Without(mem, {ptr[p]})
    BY <1>Discard DEF Discard
  <2>5. Loses(mem, mem', {ptr[p]})
    BY <2>3, <2>4, WithoutHeap
  <2>6. mem' = [b \in DOMAIN mem' |-> mem'[b]]
    BY <2>4 DEF Without
  <2> QED
    BY <2>1, <2>2, <2>5, <2>6, DiscardStep
<1>Crash. ASSUME NEW p \in Proc, Crash(p) PROVE DataInv'
  <2>1. /\ OthersStay(p) /\ UNCHANGED <<now, mem, slots, gc, mem_size, nentries>>
        /\ pc'[p] = "dead" /\ op'[p] = op[p] /\ ptr'[p] = ptr[p]
    BY <1>Crash, <1>0 DEF Crash, Quiet, At, Goto, OthersStay, Holding, Expunging, localVars, cacheVars
  <2> QED
    BY <2>1, KillStep
<1>Tick. ASSUME Tick PROVE DataInv'
  <2>1. UNCHANGED <<mem, slots, gc, mem_size, nentries, pc, op, ptr>> /\ now' # now
    BY <1>Tick DEF Tick, cacheVars, localVars, LocalsOK, Time
  <2>2. GcTtl = 0 \/ Prompt'
    BY <2>1 DEF Punctual
  <2> QED
    BY <2>1, <2>2, TimeStep DEF LocalsOK
<1>stutter. ASSUME UNCHANGED vars PROVE DataInv'
  <2>1. UNCHANGED <<mem, slots, gc, mem_size, nentries, pc, op, ptr, now>>
    BY <1>stutter DEF vars
  <2> QED
    BY <2>1, StutterStep
<1>step. ASSUME NEW p \in Proc, Continues(p) PROVE DataInv'
  BY <1>step, <1>ret, <1>MallocRetries, <1>MallocFails, <1>Malloc, <1>InsertEntry, <1>InsertUnlocked, <1>Discard, <1>Release, <1>Snapshot, <1>SkipExpunge, <1>ExpungeUnlocked, <1>Sweep, <1>CheckAvail, <1>Compact, <1>CheckContiguous, <1>Fetch, <1>Exists, <1>Misses, <1>Delete, <1>Clear, <1>RequestUnlocked, <1>Update, <1>UpdateMisses, <1>EntryHit, <1>EntryMiss, <1>CallbackThrows DEF Continues
<1>calls. ASSUME NEW p \in Proc, Calls(p) PROVE DataInv'
  BY <1>calls, <1>call DEF Calls
<1> QED
  BY <1>step, <1>calls, <1>Crash, <1>Tick, <1>stutter DEF Next

-----------------------------------------------------------------------------
(* What the invariant gives *)

DataSafe == LocalsOK /\ Control /\ DataInv

LEMMA DataInit == Init => DataInv
<1> SUFFICES ASSUME Init PROVE DataInv
  OBVIOUS
<1>1. /\ Shared.mem = <<>> /\ Shared.slots = [s \in Slot |-> <<>>] /\ Shared.gc = {}
      /\ IsShared(Shared)
  BY SharedIs DEF Init
<1>2. DOMAIN Shared.mem = {}
  BY <1>1
<1>3. Loose(Shared) = {}
  BY <1>2 DEF Loose
<1>4. \A p \in Proc : ptr[p] = 0 /\ pc[p] = "idle"
  BY DEF Init
<1>5. Held = {}
  BY <1>3, <1>4 DEF Held, Holders
<1>6. Entries(Shared.mem)
  <2>1. Shared.mem \in [DOMAIN Shared.mem -> Entry]
    BY <1>1, <1>2
  <2> QED
    BY <1>2, <2>1 DEF Entries, IsHeap, Disjoint
<1>7. ASSUME NEW s \in Slot PROVE ListSound(Shared, s)
  <2>1. Shared.slots[s] = <<>> /\ ToSet(Shared.slots[s]) = {}
    BY <1>1 DEF ToSet
  <2> QED
    BY <2>1 DEF ListSound, Distinct
<1>8. Shared.slots = [s \in Slot |-> Shared.slots[s]]
  BY <1>1
<1>9. State(Shared, Held)
  BY <1>1, <1>2, <1>3, <1>5, <1>6, <1>7, <1>8 DEF State, Sound, Pinned
<1>10. \A p \in Proc : PointerOf(p)
  BY <1>4, CellsAssumption DEF PointerOf
<1>11. DOMAIN mem = {}
  BY <1>2, SharedIs
<1> QED
  BY <1>3, <1>9, <1>10, <1>11 DEF DataInv

LEMMA SafeInit == Init => DataSafe
BY ControlInit, DataInit DEF DataSafe

LEMMA SafeStep ==
  ASSUME DataSafe, [Next]_vars, Punctual
  PROVE  DataSafe'
<1>1. LocalsOK' /\ Control'
  BY LocalsStep, ControlStep DEF DataSafe
<1> QED
  BY <1>1, DataStep DEF DataSafe

\* Without apc.gc_ttl the invariant holds whatever the processes do.
LEMMA SafeNoTtl ==
  ASSUME GcTtl = 0
  PROVE  Spec => []DataSafe
<1>1. DataSafe /\ [Next]_vars => DataSafe'
  BY SafeStep DEF Punctual
<1> QED
  BY <1>1, SafeInit, PTL DEF Spec

\* With it, as long as live processes let go of removed entries in time.
LEMMA SafePrompt == PromptSpec => []DataSafe
<1>1. DataSafe /\ [Next /\ (now' # now => Prompt')]_vars => DataSafe'
  <2> SUFFICES ASSUME DataSafe, [Next /\ (now' # now => Prompt')]_vars PROVE DataSafe'
    OBVIOUS
  <2>1. [Next]_vars /\ Punctual
    BY DEF Punctual, vars
  <2> QED
    BY <2>1, SafeStep
<1> QED
  BY <1>1, SafeInit, PTL DEF PromptSpec

\* While a process holds an entry, from find_incref or apc_sma_malloc() to
\* release, the entry is neither freed, nor moved, nor its block reused.
THEOREM HeldEntryIntactHolds ==
  /\ GcTtl = 0 => (Spec => []HeldEntryIntact)
  /\ PromptSpec => []HeldEntryIntact
<1>1. DataSafe => HeldEntryIntact
  <2> SUFFICES ASSUME DataSafe, NEW p \in Proc, ptr[p] # 0, pc[p] # "dead"
               PROVE  ptr[p] \in DOMAIN mem /\ mem[ptr[p]].key = op[p].key
    BY DEF HeldEntryIntact
  <2>1. Counted(p) /\ PointerOf(p)
    BY DEF Counted, DataSafe, DataInv
  <2> QED
    BY <2>1, HeldFacts DEF PointerOf, DataSafe
<1>2. ASSUME GcTtl = 0 PROVE Spec => []HeldEntryIntact
  BY <1>1, <1>2, SafeNoTtl, PTL
<1>3. PromptSpec => []HeldEntryIntact
  BY <1>1, SafePrompt, PTL
<1> QED
  BY <1>2, <1>3

\* Every list is sound after every critical section: an entry is on one list
\* only, in the slot of its key, and apc_cache_wlocked_insert() never links a
\* key twice.
THEOREM ListsSoundHolds ==
  /\ GcTtl = 0 => (Spec => []ListsSound)
  /\ PromptSpec => []ListsSound
<1>1. DataSafe => ListsSound
  <2> SUFFICES ASSUME DataSafe, NEW s \in Slot
               PROVE  /\ ToSet(slots[s]) \cap gc = {}
                      /\ \A i, j \in DOMAIN slots[s] :
                           /\ SlotOf[mem[slots[s][i]].key] = s
                           /\ i # j => mem[slots[s][i]].key # mem[slots[s][j]].key
    BY DEF ListsSound
  <2>1. ListSound(Shared, s)
    BY DEF DataSafe, DataInv, State, Sound
  <2>2. /\ Distinct(slots[s]) /\ \A a \in ToSet(slots[s]) : SlotOf[mem[a].key] = s /\ a \notin gc
        /\ \A a, b \in ToSet(slots[s]) : mem[a].key = mem[b].key => a = b
    BY <2>1, SharedIs DEF ListSound
  <2>3. \A i \in DOMAIN slots[s] : slots[s][i] \in ToSet(slots[s])
    <3>1. slots[s] \in Seq(DOMAIN mem)
      BY <2>1, SharedIs DEF ListSound
    <3> QED
      BY <3>1 DEF ToSet
  <2> QED
    BY <2>2, <2>3 DEF Distinct
<1>2. ASSUME GcTtl = 0 PROVE Spec => []ListsSound
  BY <1>1, <1>2, SafeNoTtl, PTL
<1>3. PromptSpec => []ListsSound
  BY <1>1, SafePrompt, PTL
<1> QED
  BY <1>2, <1>3

\* No block is lost: every allocated one is linked, removed but referenced, or in
\* the hands of the process that stores it -- which a kill may strand.
THEOREM NoLeakHolds ==
  /\ GcTtl = 0 => (Spec => []NoLeak)
  /\ PromptSpec => []NoLeak
<1>1. DataSafe => NoLeak
  <2> SUFFICES ASSUME DataSafe, NEW a \in DOMAIN mem, a \notin AllLinked(Shared) \cup gc
               PROVE  \E p \in Proc : ptr[p] = a /\ pc[p] \in {"insert", "discard", "dead"}
    BY DEF NoLeak
  <2>1. a \in Loose(Shared)
    BY SharedIs DEF Loose
  <2> QED
    BY <2>1 DEF DataSafe, DataInv, Owned
<1>2. ASSUME GcTtl = 0 PROVE Spec => []NoLeak
  BY <1>1, <1>2, SafeNoTtl, PTL
<1>3. PromptSpec => []NoLeak
  BY <1>1, SafePrompt, PTL
<1> QED
  BY <1>2, <1>3

\* No two blocks overlap, whatever the order of allocations, frees and
\* defragmentations, and whichever entries were pinned meanwhile.
THEOREM BlocksDisjointHolds ==
  /\ GcTtl = 0 => (Spec => []BlocksDisjoint)
  /\ PromptSpec => []BlocksDisjoint
<1>1. DataSafe => BlocksDisjoint
  BY SharedIs DEF DataSafe, DataInv, State, Sound, Entries, BlocksDisjoint
<1>2. ASSUME GcTtl = 0 PROVE Spec => []BlocksDisjoint
  BY <1>1, <1>2, SafeNoTtl, PTL
<1>3. PromptSpec => []BlocksDisjoint
  BY <1>1, SafePrompt, PTL
<1> QED
  BY <1>2, <1>3

\* Without apc.gc_ttl a reference count is at every moment the number of
\* processes that point to the entry, dead ones included: it never lapses.
THEOREM RefCountExactHolds ==
  ASSUME GcTtl = 0
  PROVE  Spec => []RefCountExact
<1>1. DataSafe => RefCountExact
  <2> SUFFICES ASSUME DataSafe, NEW a \in DOMAIN mem
               PROVE  mem[a].ref = Cardinality({p \in Proc : ptr[p] = a})
    BY DEF RefCountExact
  <2>1. Holders(a) = {p \in Proc : ptr[p] = a}
    BY DEF Holders, Counted
  <2>2. RefCovers(a)
    BY DEF DataSafe, DataInv
  <2> QED
    BY <2>1, <2>2 DEF RefCovers
<1> QED
  BY <1>1, SafeNoTtl, PTL

-----------------------------------------------------------------------------
(* The header's counters *)

LEMMA BytesSums ==
  ASSUME NEW m, NEW A, IsFiniteSet(A)
  PROVE  \E g : Sums([a \in A |-> m[a].len - Hdr], A, g) /\ Bytes(m, A) = g[A]
<1> DEFINE w == [a \in A |-> m[a].len - Hdr]
           iter == CHOOSE iter : iter = [s \in SUBSET A |-> IF s = {} THEN 0
                     ELSE LET x == CHOOSE x \in s : TRUE IN (m[x].len - Hdr) + iter[s \ {x}]]
<1>1. PICK g : Sums(w, A, g)
  BY SumsExist
<1>2. g = [s \in SUBSET A |-> IF s = {} THEN 0
                     ELSE LET x == CHOOSE x \in s : TRUE IN (m[x].len - Hdr) + g[s \ {x}]]
  BY <1>1 DEF Sums, Summed
<1>3. iter = [s \in SUBSET A |-> IF s = {} THEN 0
                     ELSE LET x == CHOOSE x \in s : TRUE IN (m[x].len - Hdr) + iter[s \ {x}]]
  BY <1>2
<1>4. Bytes(m, A) = iter[A]
  BY DEF Bytes, MapThenSumSet, MapThenFoldSet
<1> HIDE DEF iter
<1>5. Sums(w, A, iter)
  BY <1>3 DEF Sums, Summed
<1> QED
  BY <1>4, <1>5

\* Every entry of A has at least its header.
Sized(m, A) == IsFiniteSet(A) /\ \A a \in A : m[a].len - Hdr \in Nat \ {0}

LEMMA BytesFacts ==
  ASSUME NEW m, NEW A, Sized(m, A)
  PROVE  /\ Bytes(m, A) \in Nat /\ (A = {} => Bytes(m, A) = 0)
         /\ \A y \in A : Bytes(m, A) = (m[y].len - Hdr) + Bytes(m, A \ {y})
<1> DEFINE w == [a \in A |-> m[a].len - Hdr]
<1>1. PICK g : Sums(w, A, g) /\ Bytes(m, A) = g[A]
  BY BytesSums DEF Sized
<1>2. \A x \in A : w[x] \in Nat
  BY DEF Sized
<1> HIDE DEF w
<1>3. /\ g[A] \in Nat /\ (A = {} => g[A] = 0) /\ \A y \in A : g[A] = w[y] + g[A \ {y}]
  BY <1>1, <1>2, SumsAny DEF Sized, AnyOrder
<1>4. ASSUME NEW y \in A PROVE Bytes(m, A) = (m[y].len - Hdr) + Bytes(m, A \ {y})
  <2> DEFINE B == A \ {y}
             v == [a \in B |-> m[a].len - Hdr]
  <2>1. IsFiniteSet(B) /\ B \in SUBSET (A \cap B)
    BY FS_Subset DEF Sized
  <2>2. PICK h : Sums(v, B, h) /\ Bytes(m, B) = h[B]
    BY <2>1, BytesSums
  <2>3. \A x \in B : w[x] = v[x]
    BY DEF w
  <2> HIDE DEF v, B
  <2>4. g[B] = h[B]
    BY <1>1, <2>1, <2>2, <2>3, SumsAgree
  <2> QED
    BY <1>1, <1>3, <2>2, <2>4 DEF w, B
<1> QED
  BY <1>1, <1>3, <1>4

\* The entries that remain have the bytes that remain.
LEMMA BytesSplit ==
  ASSUME NEW m, NEW A, Sized(m, A), NEW B \in SUBSET A
  PROVE  Bytes(m, A \ B) = Bytes(m, A) - Bytes(m, B)
<1> DEFINE Good == {C \in SUBSET A : Bytes(m, A) = Bytes(m, C) + Bytes(m, A \ C)}
<1>1. \A C \in SUBSET A : Sized(m, C) /\ Bytes(m, C) \in Nat
  BY FS_Subset, BytesFacts DEF Sized
<1>2. {} \in Good
  <2>1. Bytes(m, {}) = 0 /\ Bytes(m, A) \in Nat /\ A \ {} = A
    BY <1>1, BytesFacts
  <2> QED
    BY <2>1
<1>3. ASSUME NEW C \in SUBSET A, NEW x \in A \ C, C \in Good PROVE C \cup {x} \in Good
  <2>1. C \cup {x} \in SUBSET A /\ A \ C \in SUBSET A /\ A \ (C \cup {x}) \in SUBSET A
    BY <1>3
  <2>2. (C \cup {x}) \ {x} = C /\ (A \ C) \ {x} = A \ (C \cup {x})
    BY <1>3
  <2>3. Bytes(m, C \cup {x}) = (m[x].len - Hdr) + Bytes(m, C)
    BY <1>1, <2>1, <2>2, BytesFacts
  <2>4. Bytes(m, A \ C) = (m[x].len - Hdr) + Bytes(m, A \ (C \cup {x}))
    BY <1>1, <1>3, <2>1, <2>2, BytesFacts
  <2>5. /\ Bytes(m, C) \in Nat /\ Bytes(m, A \ C) \in Nat /\ Bytes(m, A \ (C \cup {x})) \in Nat
        /\ Bytes(m, C \cup {x}) \in Nat /\ m[x].len - Hdr \in Nat
    BY <1>1, <2>1 DEF Sized
  <2>6. Bytes(m, A) = Bytes(m, C) + Bytes(m, A \ C)
    BY <1>3
  <2>7. Bytes(m, A) = Bytes(m, C \cup {x}) + Bytes(m, A \ (C \cup {x}))
    BY <2>3, <2>4, <2>5, <2>6
  <2> QED
    BY <2>1, <2>7
<1> HIDE DEF Good
<1>4. SUBSET A \subseteq Good
  BY <1>2, <1>3, OneByOne DEF Sized
<1>5. B \in Good
  BY <1>4
<1>6. Bytes(m, A) = Bytes(m, B) + Bytes(m, A \ B)
  BY <1>5 DEF Good
<1>7. Bytes(m, A) \in Nat /\ Bytes(m, B) \in Nat /\ Bytes(m, A \ B) \in Nat
  BY <1>1
<1> QED
  BY <1>6, <1>7

\* Moved entries have the bytes they had.
LEMMA BytesMoved ==
  ASSUME NEW m, NEW A, Sized(m, A), NEW n, NEW to,
         \A a, b \in A : to[a] = to[b] => a = b,
         \A a \in A : n[to[a]].len = m[a].len
  PROVE  /\ Bytes(n, {to[a] : a \in A}) = Bytes(m, A)
         /\ Cardinality({to[a] : a \in A}) = Cardinality(A)
         /\ IsFiniteSet({to[a] : a \in A})
<1> DEFINE Img(C) == {to[a] : a \in C}
           Good == {C \in SUBSET A : /\ Bytes(n, Img(C)) = Bytes(m, C)
                                     /\ Cardinality(Img(C)) = Cardinality(C)
                                     /\ IsFiniteSet(Img(C))}
<1>1. \A C \in SUBSET A : Sized(m, C) /\ IsFiniteSet(C)
  BY FS_Subset DEF Sized
<1>2. {} \in Good
  <2>1. Img({}) = {} /\ Sized(n, {}) /\ Sized(m, {})
    BY FS_EmptySet DEF Sized
  <2>2. Bytes(n, {}) = 0 /\ Bytes(m, {}) = 0
    BY <2>1, BytesFacts
  <2> QED
    BY <2>1, <2>2 DEF Sized
<1>3. ASSUME NEW C \in SUBSET A, NEW x \in A \ C, C \in Good PROVE C \cup {x} \in Good
  <2> DEFINE D == C \cup {x}
  <2>1. D \in SUBSET A /\ x \in D /\ x \notin C /\ D \ {x} = C
    BY <1>3
  <2>2. Img(D) = Img(C) \cup {to[x]} /\ to[x] \notin Img(C) /\ Img(D) \ {to[x]} = Img(C)
    BY <1>3
  <2>3. IsFiniteSet(Img(C)) /\ IsFiniteSet(Img(D)) /\ IsFiniteSet(C)
    <3>1. IsFiniteSet(Img(C)) /\ IsFiniteSet(C)
      BY <1>1, <1>3
    <3>2. IsFiniteSet(Img(C) \cup {to[x]})
      <4> HIDE DEF Img
      <4> QED
        BY <3>1, FS_AddElement
    <3> QED
      BY <2>2, <3>1, <3>2
  <2>4. \A a \in D : n[to[a]].len - Hdr \in Nat \ {0}
    BY <2>1 DEF Sized
  <2>5. Sized(n, Img(D)) /\ Sized(m, D)
    BY <1>1, <2>1, <2>3, <2>4 DEF Sized
  <2>6. Cardinality(Img(D)) = Cardinality(Img(C)) + 1 /\ Cardinality(D) = Cardinality(C) + 1
    BY <2>1, <2>2, <2>3, FS_AddElement
  <2>7. Bytes(n, Img(D)) = (n[to[x]].len - Hdr) + Bytes(n, Img(C))
    BY <2>2, <2>5, BytesFacts
  <2>8. Bytes(m, D) = (m[x].len - Hdr) + Bytes(m, C)
    BY <2>1, <2>5, BytesFacts
  <2>9. n[to[x]].len = m[x].len /\ Bytes(n, Img(C)) = Bytes(m, C) /\ Cardinality(Img(C)) = Cardinality(C)
    BY <1>3
  <2> HIDE DEF D, Img
  <2>10. Bytes(n, Img(D)) = Bytes(m, D) /\ Cardinality(Img(D)) = Cardinality(D)
    BY <2>6, <2>7, <2>8, <2>9
  <2> QED
    BY <2>1, <2>3, <2>10 DEF D
<1> HIDE DEF Good
<1>4. SUBSET A \subseteq Good
  BY <1>2, <1>3, OneByOne DEF Sized
<1>5. A \in Good
  BY <1>4
<1> QED
  BY <1>5 DEF Good

\* What the header says is true of the lists.
Accounted(c) ==
  /\ c.nentries = Cardinality(AllLinked(c)) /\ c.mem_size = Bytes(c.mem, AllLinked(c))

LEMMA LinkedSized ==
  ASSUME NEW c, Sound(c)
  PROVE  Sized(c.mem, AllLinked(c))
<1>1. AllLinked(c) \subseteq DOMAIN c.mem
  BY SoundLists
<1>2. \A a \in DOMAIN c.mem : c.mem[a].len \in Lens
  BY DEF Sound, Entries, Entry
<1>3. \A n \in Lens : n - Hdr \in Nat \ {0}
  BY CacheAssumption DEF Hdr
<1>4. AllLinked(c) \subseteq 1..Cells
  BY <1>1 DEF Sound, Entries, IsHeap
<1>5. IsFiniteSet(1..Cells)
  BY CellsAssumption, FS_Interval
<1>6. IsFiniteSet(AllLinked(c))
  BY <1>4, <1>5, FS_Subset
<1> QED
  BY <1>1, <1>2, <1>3, <1>6 DEF Sized

LEMMA BytesSame ==
  ASSUME NEW m, NEW A, Sized(m, A), NEW n, \A a \in A : n[a].len = m[a].len
  PROVE  Bytes(n, A) = Bytes(m, A)
<1> DEFINE to == [a \in A |-> a]
<1>1. \A a \in A : to[a] = a
  OBVIOUS
<1>2. {to[a] : a \in A} = A
  OBVIOUS
<1> HIDE DEF to
<1> QED
  BY <1>1, <1>2, BytesMoved

\* The entries on the lists, and the counters, are the same.
LEMMA SameAccounted ==
  ASSUME NEW c, Sound(c), Accounted(c), NEW d, AllLinked(d) = AllLinked(c),
         d.nentries = c.nentries, d.mem_size = c.mem_size,
         \A a \in AllLinked(c) : d.mem[a].len = c.mem[a].len
  PROVE  Accounted(d)
BY LinkedSized, BytesSame DEF Accounted

\* What removal subtracts is what it unlinks; "if (n)" never hides an error.
LEMMA RemovesAccounted ==
  ASSUME NEW c, Sound(c), Accounted(c), NEW A \in SUBSET AllLinked(c),
         NEW d, Removes(c, d, A), AllLinked(d) = AllLinked(c) \ A,
         d.mem_size = Minus(c.mem_size, Bytes(c.mem, A)),
         d.nentries = Minus(c.nentries, Cardinality(A))
  PROVE  Accounted(d)
<1> DEFINE L == AllLinked(c)
<1>1. Sized(c.mem, L) /\ Sized(c.mem, A) /\ Sized(c.mem, L \ A)
  BY LinkedSized, FS_Subset DEF Sized
<1>2. \A a \in L \ A : d.mem[a].len = c.mem[a].len
  <2>1. L \subseteq DOMAIN c.mem
    BY SoundLists
  <2> QED
    BY <2>1 DEF Removes, Unreferenced
<1> HIDE DEF L
<1>3. Bytes(d.mem, L \ A) = Bytes(c.mem, L) - Bytes(c.mem, A)
  BY <1>1, <1>2, BytesSame, BytesSplit DEF L
<1>4. Cardinality(L \ A) = Cardinality(L) - Cardinality(A) /\ Cardinality(L) \in Nat /\ Cardinality(A) \in Nat
  <2>1. L \cap A = A
    BY DEF L
  <2> QED
    BY <1>1, <2>1, FS_Difference, FS_CardinalityType DEF Sized
<1>5. Cardinality(L) = 0 => Cardinality(A) = 0
  BY <1>1, FS_EmptySet DEF Sized, L
<1>6. Bytes(c.mem, L) \in Nat /\ Bytes(c.mem, A) \in Nat
  BY <1>1, BytesFacts
<1>7. Bytes(c.mem, L) = 0 => Bytes(c.mem, A) = 0
  <2>1. CASE L = {}
    BY <1>1, <2>1, BytesFacts DEF L
  <2>2. CASE L # {}
    <3>1. PICK y \in L : TRUE
      BY <2>2
    <3>2. Sized(c.mem, L \ {y})
      BY <1>1, FS_Subset DEF Sized
    <3>3. Bytes(c.mem, L) = (c.mem[y].len - Hdr) + Bytes(c.mem, L \ {y})
      BY <1>1, BytesFacts
    <3>4. Bytes(c.mem, L \ {y}) \in Nat /\ c.mem[y].len - Hdr \in Nat \ {0}
      BY <1>1, <3>2, BytesFacts DEF Sized
    <3> QED
      BY <3>3, <3>4
  <2> QED
    BY <2>1, <2>2
<1>8. c.nentries = Cardinality(L) /\ c.mem_size = Bytes(c.mem, L)
  BY DEF Accounted, L
<1>9. d.nentries = Cardinality(L \ A)
  BY <1>4, <1>5, <1>8 DEF Minus
<1>10. d.mem_size = Bytes(d.mem, L \ A)
  BY <1>3, <1>6, <1>7, <1>8 DEF Minus
<1> QED
  BY <1>9, <1>10 DEF Accounted, L

LEMMA RemoveAccounted ==
  ASSUME now \in Time, NEW c, NEW H, State(c, H), Accounted(c), NEW A \in SUBSET AllLinked(c)
  PROVE  Accounted(RemoveAll(c, A)) /\ State(RemoveAll(c, A), H)
<1>1. /\ Removes(c, RemoveAll(c, A), A)
      /\ RemoveAll(c, A).mem_size = Minus(c.mem_size, Bytes(c.mem, A))
      /\ RemoveAll(c, A).nentries = Minus(c.nentries, Cardinality(A))
  BY RemoveAllRemoves DEF State
<1>2. Keeps(c, RemoveAll(c, A), H) /\ AllLinked(RemoveAll(c, A)) = AllLinked(c) \ A
  BY <1>1, RemovesKeeps
<1> QED
  BY <1>1, <1>2, RemovesAccounted DEF State, Keeps, Carries

LEMMA GcAccounted ==
  ASSUME NEW c, NEW H, State(c, H), Accounted(c)
  PROVE  Accounted(Gc(c))
<1>1. /\ AllLinked(Gc(c)) = AllLinked(c) /\ Keeps(c, Gc(c), H)
      /\ \A a \in DOMAIN Gc(c).mem : Gc(c).mem[a] = c.mem[a]
      /\ Gc(c).mem_size = c.mem_size /\ Gc(c).nentries = c.nentries
  BY GcKeeps
<1>2. AllLinked(Gc(c)) \subseteq DOMAIN Gc(c).mem
  BY <1>1, SoundLists DEF Keeps, Carries, State
<1> QED
  BY <1>1, <1>2, SameAccounted DEF State

LEMMA ExpungeAccounted ==
  ASSUME now \in Time, NEW c, NEW H, State(c, H), Accounted(c)
  PROVE  Accounted(RealExpunge(c))
<1> DEFINE r == RemoveAll(c, AllLinked(c))
<1>1. Accounted(r) /\ State(r, H)
  BY RemoveAccounted
<1>2. AllLinked(RealExpunge(c)) = {}
  BY ExpungeKeeps
<1>3. Removes(c, r, AllLinked(c))
  BY RemoveAllRemoves DEF State
<1>4. AllLinked(r) = {}
  BY <1>3, RemovesKeeps
<1> HIDE DEF r
<1>5. /\ RealExpunge(c).mem = r.mem /\ RealExpunge(c).mem_size = r.mem_size
      /\ RealExpunge(c).nentries = 0
  BY <1>1 DEF RealExpunge, State, Sound, IsShared, r
<1>6. Cardinality({}) = 0
  BY FS_EmptySet
<1> QED
  BY <1>1, <1>2, <1>4, <1>5, <1>6 DEF Accounted

LEMMA DefragAccounted ==
  ASSUME NEW c, NEW H, State(c, H), Accounted(c)
  PROVE  Accounted(Defrag(c))
<1> DEFINE L == AllLinked(c)
           d == Defrag(c)
<1>1. PICK to : Redirects(c, d, to)
  BY DefragRedirects DEF State
<1>2. d.mem_size = c.mem_size /\ d.nentries = c.nentries
  BY DefragRedirects DEF State
<1> HIDE DEF d
<1>3. AllLinked(d) = {to[a] : a \in L}
  BY <1>1, RedirectsKeeps
<1>4. L \subseteq DOMAIN c.mem /\ Sized(c.mem, L)
  BY SoundLists, LinkedSized DEF State
<1> HIDE DEF L
<1>5. /\ \A a, b \in L : to[a] = to[b] => a = b
      /\ \A a \in L : d.mem[to[a]].len = c.mem[a].len
  BY <1>1, <1>4 DEF Redirects
<1>6. Bytes(d.mem, {to[a] : a \in L}) = Bytes(c.mem, L) /\ Cardinality({to[a] : a \in L}) = Cardinality(L)
  BY <1>4, <1>5, BytesMoved
<1>7. c.nentries = Cardinality(L) /\ c.mem_size = Bytes(c.mem, L)
  BY DEF Accounted, L
<1> QED
  BY <1>2, <1>3, <1>6, <1>7 DEF Accounted, d

LEMMA InsertAccounted ==
  ASSUME now \in Time, NEW c, NEW H, State(c, H), Accounted(c), NEW a \in Loose(c), NEW excl
  PROVE  Accounted(Insert(c, a, excl).c)
<1> DEFINE r == Insert(c, a, excl)
           g == Gc(c)
<1>1. PICK A, cut : Inserted(c, r, a, excl, A, cut)
  BY InsertKeeps
<1>2. r.ok \in BOOLEAN /\ State(r.c, H)
  BY InsertKeeps DEF Carries
<1> HIDE DEF r
<1>3. /\ Keeps(c, g, H) /\ State(g, H) /\ AllLinked(g) = AllLinked(c) /\ Accounted(g)
      /\ g.mem_size = c.mem_size /\ g.nentries = c.nentries
      /\ \A x \in DOMAIN g.mem : g.mem[x] = c.mem[x]
  <2>1. /\ Keeps(c, g, H) /\ AllLinked(g) = AllLinked(c)
        /\ g.mem_size = c.mem_size /\ g.nentries = c.nentries
        /\ \A x \in DOMAIN g.mem : g.mem[x] = c.mem[x]
    BY GcKeeps
  <2>2. Accounted(g)
    BY GcAccounted
  <2> HIDE DEF g
  <2> QED
    BY <2>1, <2>2 DEF Keeps, Carries
<1> HIDE DEF g
<1>4. /\ A \in SUBSET AllLinked(g) /\ Removes(g, cut, A)
      /\ cut.mem_size = Minus(g.mem_size, Bytes(g.mem, A))
      /\ cut.nentries = Minus(g.nentries, Cardinality(A))
  BY <1>1, <1>3 DEF Inserted, g
<1>5. AllLinked(cut) = AllLinked(g) \ A /\ State(cut, H)
  BY <1>3, <1>4, RemovesKeeps DEF Keeps, Carries
<1>6. Accounted(cut)
  BY <1>3, <1>4, <1>5, RemovesAccounted DEF State
<1>7. CASE ~r.ok
  BY <1>1, <1>6, <1>7 DEF Inserted, r
<1>8. CASE r.ok
  <2> DEFINE L == AllLinked(cut)
  <2>1. /\ r.c.mem = cut.mem /\ AllLinked(r.c) = L \cup {a}
        /\ r.c.mem_size = cut.mem_size + (c.mem[a].len - Hdr) /\ r.c.nentries = cut.nentries + 1
    BY <1>1, <1>8 DEF Inserted
  <2>2. a \notin L
    BY <1>3, <1>5 DEF Loose
  <2>3. Sized(cut.mem, L \cup {a}) /\ IsFiniteSet(L)
    BY <1>2, <1>5, <2>1, LinkedSized DEF State, Sized
  <2>4. cut.mem[a].len = c.mem[a].len
    <3>1. a \in DOMAIN cut.mem
      BY <1>2, <2>1, SoundLists DEF State
    <3>2. a \in DOMAIN g.mem /\ cut.mem[a].len = g.mem[a].len
      <4>1. a \notin A
        BY <1>3, <1>4 DEF Loose
      <4> QED
        BY <1>4, <3>1, <4>1 DEF Removes
    <3> QED
      BY <1>3, <3>2
  <2>5. cut.nentries = Cardinality(L) /\ cut.mem_size = Bytes(cut.mem, L)
    BY <1>6 DEF Accounted
  <2>6. Cardinality(L) \in Nat /\ Cardinality(L \cup {a}) = Cardinality(L) + 1
    BY <2>2, <2>3, FS_AddElement, FS_CardinalityType
  <2>7. (L \cup {a}) \ {a} = L
    BY <2>2
  <2>8. Bytes(cut.mem, L \cup {a}) = (cut.mem[a].len - Hdr) + Bytes(cut.mem, L)
    BY <2>3, <2>7, BytesFacts
  <2>9. Bytes(cut.mem, L) \in Nat /\ cut.mem[a].len - Hdr \in Nat
    <3>1. Sized(cut.mem, L)
      BY <2>3 DEF Sized
    <3> QED
      BY <2>3, <3>1, BytesFacts DEF Sized
  <2> HIDE DEF L
  <2>10. r.c.mem_size = Bytes(r.c.mem, L \cup {a})
    BY <2>1, <2>4, <2>5, <2>8, <2>9
  <2> QED
    BY <2>1, <2>5, <2>6, <2>10 DEF Accounted, r
<1> QED
  BY <1>2, <1>7, <1>8

\* The counters after a critical section under the write lock.
LEMMA SetAccounted ==
  ASSUME NEW d, IsShared(d), SetShared(d), Accounted(d)
  PROVE  Accounting'
<1>1. Shared' = d
  BY SharedBecomes
<1>2. Accounted(Shared')
  BY <1>1
<1>3. Shared'.mem = mem' /\ Shared'.nentries = nentries' /\ Shared'.mem_size = mem_size'
  BY DEF Shared
<1> HIDE DEF Shared
<1> QED
  BY <1>2, <1>3 DEF Accounted, Accounting

\* And after a step that changes no list and no length of a linked entry.
LEMMA LeavesAccounting ==
  ASSUME DataInv, Accounting, UNCHANGED <<slots, mem_size, nentries>>,
         \A a \in AllLinked(Shared) : mem'[a].len = mem[a].len
  PROVE  Accounting'
<1>1. AllLinked(Shared') = AllLinked(Shared)
  BY DEF Shared, AllLinked
<1>2. Shared'.mem = mem' /\ Shared'.nentries = nentries' /\ Shared'.mem_size = mem_size'
  BY DEF Shared
<1>3. Accounted(Shared)
  BY SharedIs DEF Accounting, Accounted
<1> HIDE DEF Shared
<1>4. Accounted(Shared')
  BY <1>1, <1>2, <1>3, SharedIs, SameAccounted DEF DataInv, State
<1> QED
  BY <1>1, <1>2, <1>4 DEF Accounted, Accounting

LEMMA AccountingStep ==
  ASSUME DataSafe, Accounting, [Next]_vars
  PROVE  Accounting'
<1>1. /\ State(Shared, Held) /\ Accounted(Shared) /\ now \in Time
      /\ AllLinked(Shared) \subseteq DOMAIN mem
  BY SharedIs, SoundLists DEF DataSafe, DataInv, State, Accounting, Accounted, LocalsOK
<1>2. mem \in [DOMAIN mem -> Entry]
  BY <1>1, SharedIs DEF State, Sound, Entries
<1>same. ASSUME UNCHANGED <<mem, slots, mem_size, nentries>> PROVE Accounting'
  BY <1>same, LeavesAccounting DEF DataSafe
<1>set. ASSUME NEW d, IsShared(d), Accounted(d), SetShared(d) PROVE Accounting'
  BY <1>set, SetAccounted
<1>wipe. ASSUME SetShared(RealExpunge(Shared)) PROVE Accounting'
  <2>1. Accounted(RealExpunge(Shared)) /\ IsShared(RealExpunge(Shared))
    BY <1>1, ExpungeAccounted, ExpungeKeeps DEF Keeps, Carries, State, Sound
  <2> QED
    BY <1>wipe, <2>1, SetAccounted
<1>touch. ASSUME NEW a \in DOMAIN mem, UNCHANGED <<slots, mem_size, nentries>>,
                 NEW t, NEW n, mem' = Touched(a, t, n)
          PROVE  Accounting'
  <2>1. \A b \in DOMAIN mem : mem'[b].len = mem[b].len
    <3> SUFFICES ASSUME NEW b \in DOMAIN mem PROVE mem'[b].len = mem[b].len
      OBVIOUS
    <3>1. PICK e \in Entry : e = mem[b]
      BY <1>2
    <3> QED
      BY <1>touch, <3>1 DEF Touched, Entry
  <2> QED
    BY <1>1, <1>touch, <2>1, LeavesAccounting DEF DataSafe
<1>Malloc. ASSUME NEW p \in Proc, Malloc(p) PROVE Accounting'
  <2>1. PICK a \in Fitting(mem, op[p].len) : mem' = With(mem, a, NewEntry(op[p]))
    BY <1>Malloc DEF Malloc
  <2>2. a \notin DOMAIN mem
    <3>1. op[p].len \in Nat \ {0} /\ NewEntry(op[p]).len = op[p].len
      <4>1. op[p].len \in {n \in Nat : n > Hdr}
        BY <1>Malloc, CacheAssumption DEF Malloc, At, DataSafe, Control, ControlOf, Storing
      <4> QED
        BY <4>1 DEF Hdr, NewEntry
    <3>2. IsHeap(mem) /\ op[p].len <= op[p].len
      BY <1>1, <3>1, SharedIs DEF State, Sound, Entries
    <3>3. Gains(mem, With(mem, a, NewEntry(op[p])), a, NewEntry(op[p]))
      BY <3>1, <3>2, WithHeap
    <3> QED
      BY <3>3 DEF Gains
  <2>3. \A b \in AllLinked(Shared) : mem'[b].len = mem[b].len
    BY <1>1, <2>1, <2>2 DEF With
  <2> QED
    BY <1>Malloc, <2>3, LeavesAccounting DEF Malloc, DataSafe
<1>Discard. ASSUME NEW p \in Proc, Discard(p) PROVE Accounting'
  <2>1. PointerOf(p) /\ pc[p] = "discard"
    BY <1>Discard DEF Discard, At, DataSafe, DataInv
  <2>2. ptr[p] \notin AllLinked(Shared)
    BY <2>1 DEF PointerOf, Loose
  <2>3. \A b \in AllLinked(Shared) : mem'[b].len = mem[b].len
    BY <1>1, <1>Discard, <2>2 DEF Discard, Without
  <2> QED
    BY <1>Discard, <2>3, LeavesAccounting DEF Discard, DataSafe
<1>Release. ASSUME NEW p \in Proc, Release(p) PROVE Accounting'
  <2>1. \A b \in DOMAIN mem : mem'[b].len = mem[b].len
    <3> SUFFICES ASSUME NEW b \in DOMAIN mem PROVE mem'[b].len = mem[b].len
      OBVIOUS
    <3>1. PICK e \in Entry : e = mem[b]
      BY <1>2
    <3> QED
      BY <1>Release, <3>1 DEF Release, Entry
  <2> QED
    BY <1>1, <1>Release, <2>1, LeavesAccounting DEF Release, DataSafe
<1>InsertEntry. ASSUME NEW p \in Proc, InsertEntry(p) PROVE Accounting'
  <2>1. ptr[p] \in Loose(Shared)
    BY <1>InsertEntry DEF InsertEntry, At, DataSafe, DataInv, PointerOf
  <2> DEFINE r == Insert(Shared, ptr[p], Exclusive(op[p]))
  <2>2. Accounted(r.c) /\ IsShared(r.c)
    BY <1>1, <2>1, InsertAccounted, InsertKeeps DEF Carries, State, Sound
  <2>3. SetShared(r.c)
    BY <1>InsertEntry DEF InsertEntry
  <2> HIDE DEF r
  <2> QED
    BY <2>2, <2>3, SetAccounted
<1>Sweep. ASSUME NEW p \in Proc, Sweep(p) PROVE Accounting'
  <2> DEFINE stale == {a \in AllLinked(Shared) : Expired(mem[a], snap[p].t)}
             c == RemoveAll(Shared, stale)
  <2>1. State(c, Held) /\ Accounted(c)
    BY <1>1, RemoveAccounted
  <2>2. SetShared(Gc(c))
    BY <1>Sweep DEF Sweep
  <2> HIDE DEF c
  <2>3. Accounted(Gc(c)) /\ IsShared(Gc(c))
    BY <2>1, GcAccounted, GcKeeps DEF Keeps, Carries, State, Sound
  <2> QED
    BY <2>2, <2>3, SetAccounted
<1>Delete. ASSUME NEW p \in Proc, Delete(p) PROVE Accounting'
  <2> DEFINE c == RemoveAll(Shared, Linked(op[p].key))
  <2>1. Linked(op[p].key) \in SUBSET AllLinked(Shared)
    BY LinkedListed DEF DataSafe
  <2>2. State(c, Held) /\ Accounted(c)
    BY <1>1, <2>1, RemoveAccounted
  <2>3. SetShared(c)
    BY <1>Delete DEF Delete
  <2> HIDE DEF c
  <2> QED
    BY <2>2, <2>3, SetAccounted DEF State, Sound
<1>Compact. ASSUME NEW p \in Proc, Compact(p) PROVE Accounting'
  <2>1. Accounted(Defrag(Shared)) /\ IsShared(Defrag(Shared))
    BY <1>1, DefragAccounted, DefragKeeps DEF Keeps, Carries, State, Sound
  <2>2. SetShared(Defrag(Shared))
    BY <1>Compact DEF Compact
  <2> QED
    BY <2>1, <2>2, SetAccounted
<1>Checks. ASSUME NEW p \in Proc, CheckAvail(p) \/ CheckContiguous(p) \/ Clear(p) PROVE Accounting'
  <2>1. SetShared(RealExpunge(Shared)) \/ UNCHANGED <<mem, slots, mem_size, nentries>>
    BY <1>Checks DEF CheckAvail, CheckContiguous, Clear, cacheVars
  <2> QED
    BY <1>wipe, <1>same, <2>1
<1>Finds. ASSUME NEW p \in Proc, Fetch(p) \/ Exists(p) \/ EntryHit(p) PROVE Accounting'
  <2>1. PICK a \in Found(op[p].key, op[p].t) : \E n \in {0, 1} : mem' = Touched(a, op[p].t, n)
    BY <1>Finds DEF Fetch, Exists, EntryHit
  <2>2. a \in DOMAIN mem
    BY FoundLinked DEF DataSafe
  <2>3. UNCHANGED <<slots, mem_size, nentries>>
    BY <1>Finds DEF Fetch, Exists, EntryHit
  <2> QED
    BY <1>touch, <2>1, <2>2, <2>3
<1>Update. ASSUME NEW p \in Proc, Update(p) PROVE Accounting'
  <2>1. PICK a \in Found(op[p].key, op[p].t) : mem' = [mem EXCEPT ![a].val = @ + 1]
    BY <1>Update DEF Update
  <2>2. \A b \in DOMAIN mem : mem'[b].len = mem[b].len
    <3> SUFFICES ASSUME NEW b \in DOMAIN mem PROVE mem'[b].len = mem[b].len
      OBVIOUS
    <3>1. PICK e \in Entry : e = mem[b]
      BY <1>2
    <3> QED
      BY <2>1, <3>1 DEF Entry
  <2> QED
    BY <1>1, <1>Update, <2>2, LeavesAccounting DEF Update, DataSafe
<1>Others. ASSUME NEW p \in Proc,
                  \/ MallocRetries(p) \/ MallocFails(p) \/ InsertUnlocked(p) \/ Snapshot(p)
                  \/ SkipExpunge(p) \/ ExpungeUnlocked(p) \/ Misses(p) \/ RequestUnlocked(p)
                  \/ UpdateMisses(p) \/ EntryMiss(p) \/ CallbackThrows(p) \/ Crash(p) \/ Calls(p)
                  \/ \E ttl \in Ttls, len \in Lens : CallbackReturns(p, ttl, len)
           PROVE  Accounting'
  <2>1. UNCHANGED <<mem, slots, mem_size, nentries>>
    BY <1>Others DEF MallocRetries, MallocFails, InsertUnlocked, Snapshot, SkipExpunge,
       ExpungeUnlocked, Misses, RequestUnlocked, UpdateMisses, EntryMiss, CallbackThrows, Crash,
       Calls, Call, CallbackReturns, cacheVars
  <2> QED
    BY <1>same, <2>1
<1>rest. ASSUME Tick \/ UNCHANGED vars PROVE Accounting'
  <2>1. UNCHANGED <<mem, slots, mem_size, nentries>>
    BY <1>rest DEF Tick, vars, cacheVars
  <2> QED
    BY <1>same, <2>1
<1>continues. ASSUME NEW p \in Proc, Continues(p) PROVE Accounting'
  BY <1>continues, <1>Malloc, <1>Discard, <1>Release, <1>InsertEntry, <1>Sweep, <1>Delete,
     <1>Compact, <1>Checks, <1>Finds, <1>Update, <1>Others DEF Continues
<1> QED
  BY <1>continues, <1>Others, <1>rest DEF Next

\* The header counts what the slots link, entry by entry and byte by byte, after
\* every insertion, removal, expunge and move; "if (header->nentries)" in
\* unlink_entry() never covers an error up.
THEOREM AccountingHolds ==
  /\ GcTtl = 0 => (Spec => []Accounting)
  /\ PromptSpec => []Accounting
<1>1. Init => Accounting
  <2> SUFFICES ASSUME Init PROVE Accounting
    OBVIOUS
  <2>1. AllLinked(Shared) = {}
    BY SharedIs, SoundLists, SafeInit DEF DataSafe, DataInv, State, Init
  <2>2. Sized(mem, {})
    BY FS_EmptySet DEF Sized
  <2>3. Bytes(mem, {}) = 0 /\ Cardinality({}) = 0
    BY <2>2, BytesFacts, FS_EmptySet
  <2> QED
    BY <2>1, <2>3 DEF Accounting, Init
<1>2. DataSafe /\ Accounting /\ [Next]_vars => Accounting'
  BY AccountingStep
<1>3. ASSUME GcTtl = 0 PROVE Spec => []Accounting
  <2>1. Spec => []DataSafe
    BY <1>3, SafeNoTtl
  <2> QED
    BY <1>1, <1>2, <2>1, PTL DEF Spec
<1>4. PromptSpec => []Accounting
  <2>1. [Next /\ (now' # now => Prompt')]_vars => [Next]_vars
    OBVIOUS
  <2> QED
    BY <1>1, <1>2, <2>1, SafePrompt, PTL DEF PromptSpec
<1> QED
  BY <1>3, <1>4

\* Every variable keeps its type, pointers and lists included.
THEOREM TypeCorrect ==
  /\ GcTtl = 0 => (Spec => []TypeOK)
  /\ PromptSpec => []TypeOK
<1>1. DataSafe /\ Accounting => TypeOK
  <2> SUFFICES ASSUME DataSafe, Accounting PROVE TypeOK
    OBVIOUS
  <2>1. Sound(Shared) /\ Entries(mem)
    BY SharedIs DEF DataSafe, DataInv, State, Sound
  <2>2. mem \in [DOMAIN mem -> Entry] /\ DOMAIN mem \subseteq 1..Cells
    BY <2>1 DEF Entries, IsHeap
  <2>3. slots \in [Slot -> Seq(DOMAIN mem)]
    BY <2>1, SharedIs DEF Sound, ListSound
  <2>4. gc \subseteq DOMAIN mem
    BY <2>1, SharedIs DEF Sound
  <2>5. mem_size \in Nat /\ nentries \in Nat
    <3>1. Sized(mem, AllLinked(Shared))
      BY <2>1, LinkedSized, SharedIs
    <3> QED
      BY <3>1, BytesFacts, FS_CardinalityType DEF Accounting, Sized
  <2>6. ptr \in [Proc -> 0..Cells]
    BY DEF DataSafe, DataInv, PointerOf, LocalsOK
  <2> QED
    BY <2>2, <2>3, <2>4, <2>5, <2>6 DEF TypeOK, DataSafe, LocalsOK
<1>2. ASSUME GcTtl = 0 PROVE Spec => []TypeOK
  BY <1>1, <1>2, SafeNoTtl, AccountingHolds, PTL
<1>3. PromptSpec => []TypeOK
  BY <1>1, SafePrompt, AccountingHolds, PTL
<1> QED
  BY <1>2, <1>3

-----------------------------------------------------------------------------
(* Tables that show what a state links *)

Has(c, k) == \E a \in AllLinked(c) : c.mem[a].key = k

Shows(c, t) ==
  /\ t = [k \in Key |-> t[k]]
  /\ \A a \in AllLinked(c) : c.mem[a].key \in Key /\ t[c.mem[a].key] = Item(c.mem[a])
  /\ \A k \in Key : ~Has(c, k) => t[k] = NoProc

\* No key is linked twice.
LEMMA OneLinked ==
  ASSUME NEW c, Sound(c), NEW a \in AllLinked(c), NEW b \in AllLinked(c),
         c.mem[a].key = c.mem[b].key
  PROVE  a = b
<1>1. PICK s \in Slot : a \in ToSet(c.slots[s])
  BY InLinked
<1>2. SlotOf[c.mem[a].key] = s /\ b \in ToSet(c.slots[s])
  BY <1>1, SoundLists
<1>3. ListSound(c, s)
  BY DEF Sound
<1> QED
  BY <1>1, <1>2, <1>3 DEF ListSound

LEMMA LinkedIs ==
  ASSUME Sound(Shared), NEW k \in Key
  PROVE  Linked(k) = {a \in AllLinked(Shared) : mem[a].key = k}
<1>1. SlotOf[k] \in Slot
  BY DEF Slot
<1>2. \A a \in AllLinked(Shared) :
        a \in ToSet(slots[SlotOf[k]]) <=> SlotOf[mem[a].key] = SlotOf[k]
  BY <1>1, SharedIs, SoundLists
<1>3. ToSet(slots[SlotOf[k]]) \subseteq AllLinked(Shared)
  BY <1>1, SharedIs, SoundLists
<1>4. \A a : a \in Linked(k) <=> a \in AllLinked(Shared) /\ mem[a].key = k
  BY <1>2, <1>3 DEF Linked
<1> QED
  BY <1>4

LEMMA ViewShows == Sound(Shared) => Shows(Shared, View)
<1> SUFFICES ASSUME Sound(Shared) PROVE Shows(Shared, View)
  OBVIOUS
<1>1. View = [k \in Key |-> View[k]]
  BY DEF View
<1>2. ASSUME NEW a \in AllLinked(Shared)
      PROVE  mem[a].key \in Key /\ View[mem[a].key] = Item(mem[a])
  <2>1. a \in DOMAIN mem
    BY SharedIs, SoundLists
  <2>2. mem[a].key \in Key
    BY <2>1, SharedIs DEF Sound, Entries, Entry
  <2>3. Linked(mem[a].key) = {b \in AllLinked(Shared) : mem[b].key = mem[a].key}
    BY <2>2, LinkedIs
  <2>4. \A b \in Linked(mem[a].key) : b = a
    <3> SUFFICES ASSUME NEW b \in Linked(mem[a].key) PROVE b = a
      OBVIOUS
    <3>1. b \in AllLinked(Shared) /\ Shared.mem[a].key = Shared.mem[b].key
      BY <2>3, SharedIs
    <3> QED
      BY <3>1, OneLinked
  <2>5. a \in Linked(mem[a].key)
    BY <2>3
  <2>6. (CHOOSE b \in Linked(mem[a].key) : TRUE) = a
    BY <2>4, <2>5
  <2>7. Linked(mem[a].key) # {}
    BY <2>5
  <2> QED
    BY <2>2, <2>6, <2>7 DEF View
<1>3. ASSUME NEW k \in Key, ~Has(Shared, k) PROVE View[k] = NoProc
  <2>1. Linked(k) = {}
    BY <1>3, LinkedIs, SharedIs DEF Has
  <2> QED
    BY <2>1 DEF View
<1> QED
  BY <1>1, <1>2, <1>3, SharedIs DEF Shows

\* The entries at A are gone, and the others show what they did.
Cuts(c, d, A) ==
  /\ AllLinked(d) = AllLinked(c) \ A
  /\ \A a \in AllLinked(d) : d.mem[a].key = c.mem[a].key /\ Item(d.mem[a]) = Item(c.mem[a])

KeysOf(c, A) == {k \in Key : \E a \in A : c.mem[a].key = k}

Emptied(t, gone) == [k \in Key |-> IF k \in gone THEN NoProc ELSE t[k]]

LEMMA CutShown ==
  ASSUME NEW c, NEW d, NEW A \in SUBSET AllLinked(c), Sound(c), Cuts(c, d, A),
         NEW t, NEW u, Shows(c, t), Shows(d, u)
  PROVE  u = Emptied(t, KeysOf(c, A))
<1>1. ASSUME NEW k \in Key
      PROVE  u[k] = IF k \in KeysOf(c, A) THEN NoProc ELSE t[k]
  <2>1. CASE Has(d, k)
    <3>1. PICK a \in AllLinked(d) : d.mem[a].key = k
      BY <2>1 DEF Has
    <3>2. a \in AllLinked(c) /\ a \notin A /\ c.mem[a].key = k /\ Item(d.mem[a]) = Item(c.mem[a])
      BY <3>1 DEF Cuts
    <3>3. \A b \in A : c.mem[b].key = k => b = a
      BY <3>2, OneLinked
    <3>4. k \notin KeysOf(c, A)
      BY <3>2, <3>3 DEF KeysOf
    <3> QED
      BY <3>1, <3>2, <3>4 DEF Shows
  <2>2. CASE ~Has(d, k)
    <3>1. u[k] = NoProc
      BY <2>2 DEF Shows
    <3>2. CASE Has(c, k)
      <4>1. PICK a \in AllLinked(c) : c.mem[a].key = k
        BY <3>2 DEF Has
      <4>2. a \in A
        BY <2>2, <4>1 DEF Has, Cuts
      <4> QED
        BY <3>1, <4>1, <4>2 DEF KeysOf
    <3>3. CASE ~Has(c, k)
      BY <3>1, <3>3 DEF Shows
    <3> QED
      BY <3>2, <3>3
  <2> QED
    BY <2>1, <2>2
<1>2. u = [k \in Key |-> u[k]]
  BY DEF Shows
<1> QED
  BY <1>1, <1>2 DEF Emptied

\* Both states link the same items.
SameItems(c, d) ==
  /\ \A a \in AllLinked(c) : \E b \in AllLinked(d) :
       d.mem[b].key = c.mem[a].key /\ Item(d.mem[b]) = Item(c.mem[a])
  /\ \A b \in AllLinked(d) : Has(c, d.mem[b].key)

LEMMA SameShown ==
  ASSUME NEW c, NEW d, SameItems(c, d), NEW t, NEW u, Shows(c, t), Shows(d, u)
  PROVE  u = t
<1>1. ASSUME NEW k \in Key PROVE u[k] = t[k]
  <2>1. CASE Has(c, k)
    <3>1. PICK a \in AllLinked(c) : c.mem[a].key = k
      BY <2>1 DEF Has
    <3>2. PICK b \in AllLinked(d) : d.mem[b].key = k /\ Item(d.mem[b]) = Item(c.mem[a])
      BY <3>1 DEF SameItems
    <3> QED
      BY <3>1, <3>2 DEF Shows
  <2>2. CASE ~Has(c, k)
    <3>1. ~Has(d, k)
      BY <2>2 DEF SameItems, Has
    <3> QED
      BY <2>2, <3>1 DEF Shows
  <2> QED
    BY <2>1, <2>2
<1> QED
  BY <1>1 DEF Shows

\* One linked entry shows something else.
Changes(c, d, a) ==
  /\ a \in AllLinked(c) /\ AllLinked(d) = AllLinked(c)
  /\ d.mem[a].key = c.mem[a].key
  /\ \A b \in AllLinked(c) \ {a} : d.mem[b] = c.mem[b]

LEMMA ChangeShown ==
  ASSUME NEW c, NEW d, NEW a, Sound(c), Changes(c, d, a),
         NEW t, NEW u, Shows(c, t), Shows(d, u)
  PROVE  u = [t EXCEPT ![c.mem[a].key] = Item(d.mem[a])]
<1>1. ASSUME NEW k \in Key
      PROVE  u[k] = IF k = c.mem[a].key THEN Item(d.mem[a]) ELSE t[k]
  <2>1. CASE k = c.mem[a].key
    <3>1. a \in AllLinked(d) /\ d.mem[a].key = k
      BY <2>1 DEF Changes
    <3> QED
      BY <2>1, <3>1 DEF Shows
  <2>2. CASE k # c.mem[a].key /\ Has(c, k)
    <3>1. PICK b \in AllLinked(c) : c.mem[b].key = k
      BY <2>2 DEF Has
    <3>2. b \in AllLinked(d) /\ d.mem[b] = c.mem[b]
      BY <2>2, <3>1 DEF Changes
    <3> QED
      BY <2>2, <3>1, <3>2 DEF Shows
  <2>3. CASE k # c.mem[a].key /\ ~Has(c, k)
    <3>1. ~Has(d, k)
      BY <2>3 DEF Changes, Has
    <3> QED
      BY <2>3, <3>1 DEF Shows
  <2> QED
    BY <2>1, <2>2, <2>3
<1> QED
  BY <1>1 DEF Shows

-----------------------------------------------------------------------------
(* What the functions under the write lock do to the table, and that they   *)
(* leave the new entries that are on no list yet.                           *)

Spares(c, d) == \A a \in Loose(c) : Item(d.mem[a]) = Item(c.mem[a])

LEMMA RemovesShown ==
  ASSUME now \in Time, NEW c, NEW H, State(c, H), NEW A \in SUBSET AllLinked(c),
         NEW d, Removes(c, d, A)
  PROVE  Cuts(c, d, A) /\ Spares(c, d)
<1>1. Keeps(c, d, H) /\ AllLinked(d) = AllLinked(c) \ A
  BY RemovesKeeps
<1>2. AllLinked(d) \subseteq DOMAIN d.mem /\ Loose(d) = Loose(c)
  BY <1>1, SoundLists DEF Keeps, Carries, State
<1>3. Loose(d) \subseteq DOMAIN d.mem /\ Loose(c) \cap A = {}
  BY DEF Loose
<1>4. \A a \in AllLinked(d) \cup Loose(c) : a \in DOMAIN d.mem /\ a \notin A
  BY <1>1, <1>2, <1>3
<1>5. \A a \in AllLinked(d) \cup Loose(c) : d.mem[a] = c.mem[a]
  BY <1>4 DEF Removes
<1> QED
  BY <1>1, <1>5 DEF Cuts, Spares

LEMMA RemoveShown ==
  ASSUME now \in Time, NEW c, NEW H, State(c, H), NEW A \in SUBSET AllLinked(c)
  PROVE  Cuts(c, RemoveAll(c, A), A) /\ Spares(c, RemoveAll(c, A))
<1>1. Removes(c, RemoveAll(c, A), A)
  BY RemoveAllRemoves DEF State
<1> QED
  BY <1>1, RemovesShown

LEMMA GcShown ==
  ASSUME NEW c, NEW H, State(c, H)
  PROVE  Cuts(c, Gc(c), {}) /\ Spares(c, Gc(c))
<1>1. /\ Keeps(c, Gc(c), H) /\ AllLinked(Gc(c)) = AllLinked(c)
      /\ \A a \in DOMAIN Gc(c).mem : Gc(c).mem[a] = c.mem[a]
  BY GcKeeps
<1>2. AllLinked(Gc(c)) \subseteq DOMAIN Gc(c).mem /\ Loose(Gc(c)) = Loose(c)
  BY <1>1, SoundLists DEF Keeps, Carries, State
<1>3. Loose(c) \subseteq DOMAIN Gc(c).mem
  BY <1>2 DEF Loose
<1> QED
  BY <1>1, <1>2, <1>3 DEF Cuts, Spares

LEMMA SweepShown ==
  ASSUME now \in Time, NEW c, NEW H, State(c, H), NEW A \in SUBSET AllLinked(c)
  PROVE  Cuts(c, Gc(RemoveAll(c, A)), A) /\ Spares(c, Gc(RemoveAll(c, A)))
<1> DEFINE d == RemoveAll(c, A)
<1>1. Removes(c, d, A)
  BY RemoveAllRemoves DEF State
<1> HIDE DEF d
<1>2. Keeps(c, d, H)
  BY <1>1, RemovesKeeps
<1>3. State(d, H) /\ Loose(d) = Loose(c)
  BY <1>2 DEF Keeps, Carries
<1>4. Cuts(c, d, A) /\ Spares(c, d)
  BY <1>1, RemovesShown
<1>5. Cuts(d, Gc(d), {}) /\ Spares(d, Gc(d))
  BY <1>3, GcShown
<1>6. Cuts(c, Gc(d), A) /\ Spares(c, Gc(d))
  BY <1>3, <1>4, <1>5 DEF Cuts, Spares
<1> QED
  BY <1>6 DEF d

LEMMA ExpungeShown ==
  ASSUME now \in Time, NEW c, NEW H, State(c, H)
  PROVE  AllLinked(RealExpunge(c)) = {} /\ Spares(c, RealExpunge(c))
<1>1. Spares(c, RemoveAll(c, AllLinked(c)))
  BY RemoveShown
<1>2. RealExpunge(c).mem = RemoveAll(c, AllLinked(c)).mem
  BY DEF RealExpunge, RemoveAll
<1> QED
  BY <1>1, <1>2, ExpungeKeeps DEF Spares

LEMMA DefragShown ==
  ASSUME NEW c, NEW H, State(c, H)
  PROVE  SameItems(c, Defrag(c)) /\ Spares(c, Defrag(c))
<1>1. PICK to : Redirects(c, Defrag(c), to)
  BY DefragRedirects DEF State
<1> DEFINE d == Defrag(c)
<1> HIDE DEF d
<1>2. Redirects(c, d, to)
  BY <1>1 DEF d
<1>3. AllLinked(d) = {to[a] : a \in AllLinked(c)}
  BY <1>2, RedirectsKeeps
<1>4. AllLinked(c) \subseteq DOMAIN c.mem
  BY SoundLists DEF State
<1>5. \A a \in AllLinked(c) : to[a] \in AllLinked(d) /\ d.mem[to[a]] = c.mem[a]
  BY <1>2, <1>3, <1>4 DEF Redirects
<1>6. \A b \in AllLinked(d) : \E a \in AllLinked(c) : b = to[a]
  BY <1>3
<1>7. SameItems(c, d)
  BY <1>5, <1>6 DEF SameItems, Has
<1>8. ASSUME NEW a \in Loose(c) PROVE d.mem[a] = c.mem[a]
  <2>1. a \in DOMAIN c.mem /\ c.mem[a].ref > 0
    BY DEF State, Pinned
  <2> QED
    BY <1>2, <2>1 DEF Redirects
<1> QED
  BY <1>7, <1>8 DEF Spares, d

\* The entries at A make room for the one at a, which was on no list.
Puts(c, d, A, a) ==
  /\ A \subseteq AllLinked(c) /\ AllLinked(d) = (AllLinked(c) \ A) \cup {a}
  /\ a \notin AllLinked(c)
  /\ \A x \in AllLinked(c) \ A : /\ d.mem[x].key = c.mem[x].key
                                 /\ Item(d.mem[x]) = Item(c.mem[x])
  /\ \A x \in AllLinked(c) : c.mem[x].key = d.mem[a].key => x \in A

LEMMA PutShown ==
  ASSUME NEW c, NEW d, NEW A, NEW a, Sound(c), Puts(c, d, A, a),
         NEW t, NEW u, Shows(c, t), Shows(d, u)
  PROVE  u = [k \in Key |-> IF k = d.mem[a].key THEN Item(d.mem[a])
                            ELSE IF k \in KeysOf(c, A) \ {d.mem[a].key} THEN NoProc
                            ELSE t[k]]
<1> DEFINE key == d.mem[a].key
<1>1. ASSUME NEW k \in Key
      PROVE  u[k] = IF k = key THEN Item(d.mem[a])
                    ELSE IF k \in KeysOf(c, A) \ {key} THEN NoProc ELSE t[k]
  <2>1. CASE k = key
    <3>1. a \in AllLinked(d)
      BY DEF Puts
    <3> QED
      BY <2>1, <3>1 DEF Shows
  <2>2. CASE k # key /\ Has(d, k)
    <3>1. PICK x \in AllLinked(d) : d.mem[x].key = k
      BY <2>2 DEF Has
    <3>2. x \in AllLinked(c) /\ x \notin A /\ c.mem[x].key = k /\ Item(d.mem[x]) = Item(c.mem[x])
      BY <2>2, <3>1 DEF Puts
    <3>3. \A b \in A : c.mem[b].key = k => b = x
      <4> SUFFICES ASSUME NEW b \in A, c.mem[b].key = k PROVE b = x
        OBVIOUS
      <4>1. b \in AllLinked(c)
        BY DEF Puts
      <4> QED
        BY <3>2, <4>1, OneLinked
    <3>4. k \notin KeysOf(c, A)
      BY <3>2, <3>3 DEF KeysOf
    <3> QED
      BY <2>2, <3>1, <3>2, <3>4 DEF Shows
  <2>3. CASE k # key /\ ~Has(d, k)
    <3>1. u[k] = NoProc
      BY <2>3 DEF Shows
    <3>2. CASE Has(c, k)
      <4>1. PICK x \in AllLinked(c) : c.mem[x].key = k
        BY <3>2 DEF Has
      <4>2. x \in A
        BY <2>3, <4>1 DEF Has, Puts
      <4> QED
        BY <2>3, <3>1, <4>1, <4>2 DEF KeysOf
    <3>3. CASE ~Has(c, k)
      BY <2>3, <3>1, <3>3 DEF Shows
    <3> QED
      BY <3>2, <3>3
  <2> QED
    BY <2>1, <2>2, <2>3
<1>2. u = [k \in Key |-> u[k]]
  BY DEF Shows
<1> HIDE DEF key
<1>3. u = [k \in Key |-> IF k = key THEN Item(d.mem[a])
                         ELSE IF k \in KeysOf(c, A) \ {key} THEN NoProc ELSE t[k]]
  BY <1>1, <1>2
<1> QED
  BY <1>3 DEF key

\* What the insertion of a does: put it in, or be refused.
LEMMA InsertShown ==
  ASSUME now \in Time, NEW c, NEW H, State(c, H), NEW a \in Loose(c), NEW excl,
         NEW r, NEW A, NEW cut, Inserted(c, r, a, excl, A, cut), r.ok \in BOOLEAN
  PROVE  /\ r.ok => Puts(c, r.c, A, a)
         /\ ~r.ok => Cuts(c, r.c, A)
         /\ Spares(c, r.c)
         /\ A \subseteq AllLinked(c) /\ r.c.mem[a].key = c.mem[a].key
<1> DEFINE g == Gc(c)
<1>1. Keeps(c, g, H) /\ AllLinked(g) = AllLinked(c)
  BY GcKeeps
<1>2. State(g, H) /\ Loose(g) = Loose(c)
  BY <1>1 DEF Keeps, Carries
<1>3. Cuts(c, g, {}) /\ Spares(c, g)
  BY GcShown
<1> HIDE DEF g
<1>4. A \in SUBSET AllLinked(g) /\ Removes(g, cut, A)
  BY <1>1 DEF Inserted, g
<1>5. Cuts(g, cut, A) /\ Spares(g, cut)
  BY <1>2, <1>4, RemovesShown
<1>6. Keeps(g, cut, H)
  BY <1>2, <1>4, RemovesKeeps
<1>7. Cuts(c, cut, A) /\ Spares(c, cut)
  BY <1>2, <1>3, <1>5 DEF Cuts, Spares
<1>8. r.c.mem = cut.mem
  BY DEF Inserted
<1>9. a \notin AllLinked(c) /\ a \in H
  BY DEF Loose, State
<1>10. cut.mem[a].key = c.mem[a].key
  BY <1>1, <1>6, <1>9 DEF Keeps, Carries
<1>11. ASSUME r.ok PROVE Puts(c, r.c, A, a)
  <2>1. AllLinked(cut) = AllLinked(c) \ A
    BY <1>7 DEF Cuts
  <2>2. AllLinked(r.c) = AllLinked(cut) \cup {a}
    BY <1>11 DEF Inserted
  <2>3. \A x \in AllLinked(c) : c.mem[x].key = c.mem[a].key => x \in A
    BY <1>11 DEF Inserted
  <2> QED
    BY <1>7, <1>8, <1>9, <1>10, <2>1, <2>2, <2>3 DEF Puts, Cuts, Inserted
<1>12. ~r.ok => r.c = cut
  BY DEF Inserted
<1> QED
  BY <1>7, <1>8, <1>10, <1>11, <1>12 DEF Spares, Inserted

-----------------------------------------------------------------------------
(* Requests and what they find *)

\* What apc_cache_store() puts in: an entry waiting to be inserted shows what
\* its request says.
Fresh ==
  \A p \in Proc : pc[p] = "insert" =>
    Item(mem[ptr[p]]) = [val |-> 0, ttl |-> op[p].ttl, ctime |-> op[p].ct, atime |-> op[p].ct]

LEMMA Tables == DataInv => Sound(Shared) /\ Shows(Shared, View)
BY ViewShows DEF DataInv, State

LEMMA TablesNext == DataInv' => (Sound(Shared) /\ Shows(Shared, View))'
BY Tables, PTL

\* p takes a step, and nobody else does.
Turns(p) ==
  /\ OthersStay(p) /\ now' = now
  /\ \A q \in Proc \ {p} : snap'[q] = snap[q]

LEMMA Answers ==
  ASSUME NEW p \in Proc, Turns(p)
  PROVE  Table!Answered(p)
<1>1. ASSUME NEW q \in Proc \ {p} PROVE Request(q)' = Request(q)
  BY DEF Turns, OthersStay, Request, At
<1> QED
  BY <1>1 DEF Table!Answered, Requests

LEMMA RequestIs ==
  ASSUME NEW p \in Proc
  PROVE  /\ pc[p] = "insert" =>
              Requests[p] = [do |-> IF op[p].kind = "store" THEN "store" ELSE "add",
                             key |-> op[p].key, ttl |-> op[p].ttl, t |-> op[p].ct]
         /\ pc[p] = "delete" =>
              Requests[p] = [do |-> "delete", key |-> op[p].key, t |-> op[p].t]
         /\ pc[p] = "update" =>
              Requests[p] = [do |-> "bump", key |-> op[p].key, t |-> op[p].t]
         /\ pc[p] \in {"fetch", "exists", "entry"} =>
              Requests[p] = [do |-> "touch", key |-> op[p].key, t |-> op[p].t]
         /\ pc[p] \in {"clear", "avail", "contiguous"} => Requests[p] = [do |-> "wipe"]
         /\ pc[p] = "expunge" => Requests[p] = [do |-> "expire", t |-> snap[p].t]
BY DEF Requests, Request, At

\* An item is no absent key.
LEMMA ItemPresent ==
  ASSUME Sound(Shared), NEW a \in AllLinked(Shared)
  PROVE  Item(mem[a]) # NoProc
<1>1. mem[a] \in Entry
  BY SharedIs, SoundLists DEF Sound, Entries
<1>2. Ttls \cup {0} \subseteq Nat /\ Time \subseteq Nat
  BY CacheAssumption DEF Time
<1>3. Item(mem[a]) \in [val : Nat, ttl : Nat, ctime : Nat, atime : Nat]
  BY <1>1, <1>2 DEF Item, Entry
<1> QED
  BY <1>3, AbsentAssumption

LEMMA LiveIs ==
  ASSUME Sound(Shared), Shows(Shared, View), NEW k \in Key, NEW t
  PROVE  Table!Live(k, t) <=>
           \E a \in AllLinked(Shared) : mem[a].key = k /\ ~HardExpired(mem[a], t)
<1>1. CASE Has(Shared, k)
  <2>1. PICK a \in AllLinked(Shared) : mem[a].key = k
    BY <1>1, SharedIs DEF Has
  <2>2. View[k] = Item(mem[a])
    BY <2>1, SharedIs DEF Shows
  <2>3. Table!Hard(k, t) <=> HardExpired(mem[a], t)
    BY <2>2 DEF Table!Hard, HardExpired, Item
  <2>4. Table!Holds(k)
    BY <2>2, ItemPresent DEF Table!Holds
  <2>5. \A b \in AllLinked(Shared) : mem[b].key = k => b = a
    BY <2>1, SharedIs, OneLinked
  <2> QED
    BY <2>1, <2>3, <2>4, <2>5 DEF Table!Live
<1>2. CASE ~Has(Shared, k)
  <2>1. View[k] = NoProc
    BY <1>2 DEF Shows
  <2> QED
    BY <1>2, <2>1, SharedIs DEF Table!Live, Table!Holds, Has
<1> QED
  BY <1>1, <1>2

LEMMA StaleIs ==
  ASSUME Sound(Shared), Shows(Shared, View), NEW t, NEW a \in AllLinked(Shared)
  PROVE  mem[a].key \in Table!Stale(t) <=> Expired(mem[a], t)
<1>1. View[mem[a].key] = Item(mem[a]) /\ mem[a].key \in Key
  BY SharedIs DEF Shows
<1>2. Table!Hard(mem[a].key, t) <=> HardExpired(mem[a], t)
  BY <1>1 DEF Table!Hard, HardExpired, Item
<1>3. Table!Soft(mem[a].key, t) <=> SoftExpired(mem[a], t)
  BY <1>1 DEF Table!Soft, SoftExpired, Item
<1>4. Table!Holds(mem[a].key)
  BY <1>1, ItemPresent DEF Table!Holds
<1> QED
  BY <1>1, <1>2, <1>3, <1>4 DEF Table!Stale, Expired

\* Only what is linked is stale.
LEMMA StaleLinked ==
  ASSUME Shows(Shared, View), NEW t, NEW k \in Table!Stale(t)
  PROVE  k \in Key /\ \E a \in AllLinked(Shared) : mem[a].key = k
<1>1. k \in Key /\ View[k] # NoProc
  BY DEF Table!Stale, Table!Holds
<1> QED
  BY <1>1, SharedIs DEF Shows, Has

-----------------------------------------------------------------------------
(* Steps and what they show *)

\* The others find their new entries as they left them.
OthersFresh(p) ==
  \A q \in Proc \ {p} : pc[q] = "insert" => Item(mem'[ptr[q]]) = Item(mem[ptr[q]])

LEMMA SparesOthers ==
  ASSUME DataInv, NEW p \in Proc, Spares(Shared, Shared')
  PROVE  OthersFresh(p)
<1>1. Shared'.mem = mem'
  BY DEF Shared
<1>2. \A q \in Proc : pc[q] = "insert" => ptr[q] \in Loose(Shared)
  BY DEF DataInv, PointerOf
<1> HIDE DEF Shared
<1> QED
  BY <1>1, <1>2, SharedIs DEF Spares, OthersFresh

LEMMA FreshStep ==
  ASSUME Fresh, NEW p \in Proc, OthersStay(p), OthersFresh(p), pc'[p] # "insert"
  PROVE  Fresh'
BY DEF Fresh, OthersStay, OthersFresh

\* What a step gives the table.
Done == Table!Next /\ Fresh'

LEMMA TurnStep ==
  ASSUME Fresh, NEW p \in Proc, Turns(p), pc'[p] # "insert", UNCHANGED <<mem, slots>>
  PROVE  Done
<1>1. View' = View
  BY DEF View, Linked
<1>2. Table!Turn(p)
  BY <1>1, Answers DEF Table!Turn, Turns
<1>3. OthersFresh(p)
  BY DEF OthersFresh
<1> QED
  BY <1>2, <1>3, FreshStep DEF Done, Table!Next, Turns

LEMMA SameStep ==
  ASSUME DataInv, DataInv', NEW p \in Proc, Turns(p), SameItems(Shared, Shared')
  PROVE  Table!Next
<1>1. Shows(Shared, View) /\ Shows(Shared', View')
  BY Tables, TablesNext
<1>2. View' = View
  BY <1>1, SameShown
<1>3. Table!Turn(p)
  BY <1>2, Answers DEF Table!Turn, Turns
<1> QED
  BY <1>3 DEF Table!Next

\* Every step that leaves the lists and what they show, but for the new entry.
LEMMA FreshEntry ==
  ASSUME LocalsOK, Control, Fresh, NEW p \in Proc, Malloc(p), DataInv, DataInv'
  PROVE  Done
<1>1. /\ Turns(p) /\ pc[p] = "malloc" /\ op'[p] = op[p] /\ UNCHANGED <<slots, gc>>
  BY DEF LocalsOK, Malloc, Turns, OthersStay, At, Goto
<1>2. PICK a \in Fitting(mem, op[p].len) :
        mem' = With(mem, a, NewEntry(op[p])) /\ ptr' = [ptr EXCEPT ![p] = a]
  BY DEF Malloc
<1>3. ptr'[p] = a
  BY <1>2 DEF LocalsOK
<1>4. IsHeap(mem)
  BY SharedIs DEF DataInv, State, Sound, Entries
<1>5. op[p].len \in Nat \ {0}
  <2>1. op[p].len \in Lens
    BY <1>1 DEF Control, ControlOf, Storing
  <2>2. op[p].len \in {n \in Nat : n > Hdr}
    BY <2>1, CacheAssumption
  <2> QED
    BY <2>2 DEF Hdr
<1>6. a \notin DOMAIN mem /\ mem'[a] = NewEntry(op[p]) /\ \A b \in DOMAIN mem : mem'[b] = mem[b]
  <2>1. NewEntry(op[p]).len = op[p].len
    BY DEF NewEntry
  <2>2. Gains(mem, mem', a, NewEntry(op[p]))
    BY <1>2, <1>4, <1>5, <2>1, WithHeap
  <2> QED
    BY <2>2 DEF Gains
<1>7. Shared'.mem = mem' /\ Shared'.slots = slots
  BY <1>1 DEF Shared
<1>8. AllLinked(Shared') = AllLinked(Shared) /\ AllLinked(Shared) \subseteq DOMAIN mem
  BY <1>7, SharedIs, SoundLists DEF DataInv, State, AllLinked
<1>9. SameItems(Shared, Shared')
  BY <1>6, <1>7, <1>8, SharedIs DEF SameItems, Has
<1>10. ASSUME NEW q \in Proc, pc'[q] = "insert"
       PROVE  Item(mem'[ptr'[q]]) = [val |-> 0, ttl |-> op'[q].ttl, ctime |-> op'[q].ct,
                                     atime |-> op'[q].ct]
  <2>1. CASE q = p
    BY <1>1, <1>3, <1>6, <2>1 DEF Item, NewEntry
  <2>2. CASE q # p
    <3>1. pc[q] = "insert" /\ op'[q] = op[q] /\ ptr'[q] = ptr[q]
      BY <1>1, <1>10, <2>2 DEF Turns, OthersStay
    <3>2. ptr[q] \in Loose(Shared)
      BY <3>1 DEF DataInv, PointerOf
    <3>3. ptr[q] \in DOMAIN mem
      BY <3>2, SharedIs DEF Loose
    <3> QED
      BY <1>6, <3>1, <3>3 DEF Fresh
  <2> QED
    BY <2>1, <2>2
<1>11. Fresh'
  BY <1>10 DEF Fresh
<1> QED
  BY <1>1, <1>9, <1>11, SameStep DEF Done

LEMMA DiscardDone ==
  ASSUME LocalsOK, Fresh, NEW p \in Proc, Discard(p), DataInv, DataInv', Turns(p),
         pc'[p] # "insert"
  PROVE  Done
<1>1. /\ pc[p] = "discard" /\ UNCHANGED slots /\ mem' = Without(mem, {ptr[p]})
  BY DEF Discard, At
<1>2. IsHeap(mem)
  BY SharedIs DEF DataInv, State, Sound, Entries
<1>3. \A b \in DOMAIN mem \ {ptr[p]} : mem'[b] = mem[b]
  <2>1. Loses(mem, mem', {ptr[p]})
    BY <1>1, <1>2, WithoutHeap
  <2> QED
    BY <2>1 DEF Loses
<1>4. Shared'.mem = mem' /\ Shared'.slots = slots
  BY <1>1 DEF Shared
<1>5. ptr[p] \in Loose(Shared) /\ Holders(ptr[p]) = {p}
  BY <1>1 DEF DataInv, PointerOf
<1>6. /\ AllLinked(Shared') = AllLinked(Shared) /\ AllLinked(Shared) \subseteq DOMAIN mem
      /\ ptr[p] \notin AllLinked(Shared)
  BY <1>4, <1>5, SharedIs, SoundLists DEF DataInv, State, AllLinked, Loose
<1>7. SameItems(Shared, Shared')
  BY <1>3, <1>4, <1>6, SharedIs DEF SameItems, Has
<1>8. ASSUME NEW q \in Proc \ {p}, pc[q] = "insert"
      PROVE  Item(mem'[ptr[q]]) = Item(mem[ptr[q]])
  <2>1. ptr[q] \in Loose(Shared) /\ Holders(ptr[q]) = {q}
    BY <1>8 DEF DataInv, PointerOf
  <2>2. ptr[q] \in DOMAIN mem /\ ptr[q] # ptr[p]
    BY <1>5, <2>1, SharedIs DEF Loose
  <2> QED
    BY <1>3, <2>2
<1> QED
  BY <1>7, <1>8, SameStep, FreshStep DEF Done, OthersFresh, Turns

LEMMA ReleaseDone ==
  ASSUME LocalsOK, Fresh, NEW p \in Proc, Release(p), DataInv, DataInv', Turns(p),
         pc'[p] # "insert"
  PROVE  Done
<1>1. /\ pc[p] \in {"release", "copy"} /\ UNCHANGED slots
      /\ mem' = IF ptr[p] \in DOMAIN mem THEN [mem EXCEPT ![ptr[p]].ref = @ - 1] ELSE mem
  BY DEF Release
<1>2. mem \in [DOMAIN mem -> Entry]
  BY SharedIs DEF DataInv, State, Sound, Entries
<1>3. \A b \in DOMAIN mem : mem'[b].key = mem[b].key /\ Item(mem'[b]) = Item(mem[b])
  <2> SUFFICES ASSUME NEW b \in DOMAIN mem
               PROVE  mem'[b].key = mem[b].key /\ Item(mem'[b]) = Item(mem[b])
    OBVIOUS
  <2>1. mem[b] \in Entry
    BY <1>2
  <2>2. mem'[b] = mem[b] \/ mem'[b] = [mem[b] EXCEPT !.ref = @ - 1]
    BY <1>1
  <2> QED
    BY <2>1, <2>2 DEF Entry, Item
<1>4. Shared'.mem = mem' /\ Shared'.slots = slots
  BY <1>1 DEF Shared
<1>5. AllLinked(Shared') = AllLinked(Shared) /\ AllLinked(Shared) \subseteq DOMAIN mem
  BY <1>4, SharedIs, SoundLists DEF DataInv, State, AllLinked
<1>6. SameItems(Shared, Shared')
  BY <1>3, <1>4, <1>5, SharedIs DEF SameItems, Has
<1>7. Spares(Shared, Shared')
  BY <1>3, <1>4, SharedIs DEF Spares, Loose
<1> QED
  BY <1>6, <1>7, SameStep, SparesOthers, FreshStep DEF Done, Turns

LEMMA CompactDone ==
  ASSUME LocalsOK, Fresh, NEW p \in Proc, Compact(p), DataInv, DataInv', Turns(p),
         pc'[p] # "insert"
  PROVE  Done
<1>1. State(Shared, Held)
  BY DEF DataInv
<1>2. Keeps(Shared, Defrag(Shared), Held)
  BY <1>1, DefragKeeps
<1>3. Shared' = Defrag(Shared)
  BY <1>2, SharedBecomes DEF Compact, Keeps, Carries, State, Sound
<1>4. SameItems(Shared, Shared') /\ Spares(Shared, Shared')
  BY <1>1, <1>3, DefragShown
<1> QED
  BY <1>4, SameStep, SparesOthers, FreshStep DEF Done, Turns

\* Removing entries empties the places of their keys.
LEMMA CutStep ==
  ASSUME DataInv, DataInv', NEW A \in SUBSET AllLinked(Shared), Cuts(Shared, Shared', A)
  PROVE  View' = Emptied(View, KeysOf(Shared, A))
<1>1. Shows(Shared, View) /\ Shows(Shared', View') /\ Sound(Shared)
  BY Tables, TablesNext
<1> QED
  BY <1>1, CutShown

LEMMA WipeDone ==
  ASSUME LocalsOK, Fresh, NEW p \in Proc, DataInv, DataInv', Turns(p), pc'[p] # "insert",
         pc[p] \in {"clear", "avail", "contiguous"}, SetShared(RealExpunge(Shared))
  PROVE  Done
<1>1. State(Shared, Held)
  BY DEF DataInv
<1>2. Keeps(Shared, RealExpunge(Shared), Held)
  BY <1>1, ExpungeKeeps DEF LocalsOK
<1>3. Shared' = RealExpunge(Shared)
  BY <1>2, SharedBecomes DEF Keeps, Carries, State, Sound
<1>4. AllLinked(Shared') = {} /\ Spares(Shared, Shared')
  BY <1>1, <1>3, ExpungeShown DEF LocalsOK
<1>5. \A k \in Key : View'[k] = NoProc
  BY <1>4, TablesNext DEF Shows, Has
<1>6. Table!Loses(Key)
  BY <1>5 DEF Table!Loses, View
<1>7. Requests[p] = [do |-> "wipe"]
  BY RequestIs
<1>8. Table!Wipe(p)
  BY <1>6, <1>7, Answers DEF Table!Wipe, Turns
<1> QED
  BY <1>4, <1>8, SparesOthers, FreshStep DEF Done, Table!Next, Turns

LEMMA SweepDone ==
  ASSUME LocalsOK, Fresh, NEW p \in Proc, DataInv, DataInv', Turns(p), pc'[p] # "insert",
         Sweep(p)
  PROVE  Done
<1> DEFINE A == {a \in AllLinked(Shared) : Expired(mem[a], snap[p].t)}
           d == Gc(RemoveAll(Shared, A))
<1>1. State(Shared, Held)
  BY DEF DataInv
<1>2. Keeps(Shared, d, Held)
  BY SweepKeeps
<1>3. SetShared(d) /\ pc[p] = "expunge"
  BY DEF Sweep, At
<1>4. Cuts(Shared, d, A) /\ Spares(Shared, d)
  BY <1>1, SweepShown DEF LocalsOK
<1> HIDE DEF d
<1>5. Shared' = d
  BY <1>2, <1>3, SharedBecomes DEF Keeps, Carries, State, Sound
<1>6. View' = Emptied(View, KeysOf(Shared, A))
  BY <1>4, <1>5, CutStep
<1>7. KeysOf(Shared, A) = Table!Stale(snap[p].t)
  <2>1. Sound(Shared) /\ Shows(Shared, View)
    BY Tables
  <2>2. \A k : k \in Table!Stale(snap[p].t) => k \in KeysOf(Shared, A)
    <3> SUFFICES ASSUME NEW k \in Table!Stale(snap[p].t) PROVE k \in KeysOf(Shared, A)
      OBVIOUS
    <3>1. k \in Key /\ \E a \in AllLinked(Shared) : mem[a].key = k
      BY <2>1, StaleLinked
    <3>2. PICK a \in AllLinked(Shared) : mem[a].key = k
      BY <3>1
    <3>3. Expired(mem[a], snap[p].t)
      BY <2>1, <3>2, StaleIs
    <3> QED
      BY <3>1, <3>2, <3>3, SharedIs DEF KeysOf
  <2>3. \A k : k \in KeysOf(Shared, A) => k \in Table!Stale(snap[p].t)
    <3> SUFFICES ASSUME NEW k \in KeysOf(Shared, A) PROVE k \in Table!Stale(snap[p].t)
      OBVIOUS
    <3>1. PICK a \in A : mem[a].key = k
      BY SharedIs DEF KeysOf
    <3> QED
      BY <2>1, <3>1, StaleIs
  <2> QED
    BY <2>2, <2>3
<1>8. Table!Loses(Table!Stale(snap[p].t))
  BY <1>6, <1>7 DEF Table!Loses, Emptied
<1>9. Requests[p] = [do |-> "expire", t |-> snap[p].t]
  BY <1>3, RequestIs
<1>10. Table!Expire(p)
  BY <1>8, <1>9, Answers DEF Table!Expire, Turns
<1> QED
  BY <1>4, <1>5, <1>10, SparesOthers, FreshStep DEF Done, Table!Next, Turns

LEMMA DeleteDone ==
  ASSUME LocalsOK, Control, Fresh, NEW p \in Proc, DataInv, DataInv', Turns(p),
         pc'[p] # "insert", Delete(p)
  PROVE  Done
<1> DEFINE A == Linked(op[p].key)
           d == RemoveAll(Shared, A)
<1>1. State(Shared, Held) /\ Sound(Shared) /\ Shows(Shared, View)
  BY Tables DEF DataInv
<1>2. A \in SUBSET AllLinked(Shared) /\ op[p].key \in Key
  BY LinkedListed DEF LocalsOK, Op
<1>3. Keeps(Shared, d, Held)
  BY <1>2, RemoveKeeps
<1>4. SetShared(d) /\ pc[p] = "delete"
  BY DEF Delete, At
<1>5. Cuts(Shared, d, A) /\ Spares(Shared, d)
  BY <1>1, <1>2, RemoveShown DEF LocalsOK
<1>6. A = {a \in AllLinked(Shared) : mem[a].key = op[p].key}
  BY <1>1, <1>2, LinkedIs
<1> HIDE DEF d, A
<1>7. Shared' = d
  BY <1>3, <1>4, SharedBecomes DEF Keeps, Carries, State, Sound
<1>8. View' = Emptied(View, KeysOf(Shared, A))
  BY <1>2, <1>5, <1>7, CutStep
<1>9. KeysOf(Shared, A) \subseteq {op[p].key}
  BY <1>6, SharedIs DEF KeysOf
<1>10. op[p].key \notin KeysOf(Shared, A) => View[op[p].key] = NoProc
  BY <1>1, <1>2, <1>6, SharedIs DEF KeysOf, Shows, Has
<1>11. Table!Loses({op[p].key})
  <2>1. \A k \in Key : (IF k \in KeysOf(Shared, A) THEN NoProc ELSE View[k])
                       = (IF k \in {op[p].key} THEN NoProc ELSE View[k])
    BY <1>9, <1>10
  <2> QED
    BY <1>8, <2>1 DEF Table!Loses, Emptied
<1>12. Requests[p] = [do |-> "delete", key |-> op[p].key, t |-> op[p].t]
  BY <1>4, RequestIs
<1>13. Table!Delete(p)
  BY <1>11, <1>12, Answers DEF Table!Delete, Turns
<1> QED
  BY <1>5, <1>7, <1>13, SparesOthers, FreshStep DEF Done, Table!Next, Turns

\* One linked entry changes, under the read or the write lock.
LEMMA ChangeStep ==
  ASSUME DataInv, DataInv', NEW a \in AllLinked(Shared), UNCHANGED slots,
         DOMAIN mem' = DOMAIN mem, mem'[a].key = mem[a].key,
         \A b \in DOMAIN mem \ {a} : mem'[b] = mem[b]
  PROVE  /\ View' = [View EXCEPT ![mem[a].key] = Item(mem'[a])]
         /\ View[mem[a].key] = Item(mem[a]) /\ mem[a].key \in Key
         /\ View = [k \in Key |-> View[k]]
         /\ Spares(Shared, Shared')
<1>1. Shows(Shared, View) /\ Shows(Shared', View') /\ Sound(Shared)
  BY Tables, TablesNext
<1>2. Shared'.mem = mem' /\ Shared'.slots = slots
  BY DEF Shared
<1>3. AllLinked(Shared') = AllLinked(Shared) /\ AllLinked(Shared) \subseteq DOMAIN mem
  BY <1>1, <1>2, SharedIs, SoundLists DEF AllLinked
<1>4. Changes(Shared, Shared', a)
  BY <1>2, <1>3, SharedIs DEF Changes
<1>5. View' = [View EXCEPT ![Shared.mem[a].key] = Item(Shared'.mem[a])]
  BY <1>1, <1>4, ChangeShown
<1>6. \A b \in Loose(Shared) : b \in DOMAIN mem \ {a}
  BY SharedIs DEF Loose
<1>7. Spares(Shared, Shared')
  BY <1>2, <1>6, SharedIs DEF Spares
<1> QED
  BY <1>1, <1>2, <1>5, <1>7, SharedIs DEF Shows

\* What is found is live.
LEMMA FoundLive ==
  ASSUME LocalsOK, DataInv, NEW p \in Proc, NEW a \in Found(op[p].key, op[p].t)
  PROVE  Table!Live(op[p].key, op[p].t)
<1>1. Sound(Shared) /\ Shows(Shared, View)
  BY Tables
<1>2. a \in AllLinked(Shared) /\ mem[a].key = op[p].key /\ op[p].key \in Key
  BY FoundLinked DEF LocalsOK, Op
<1>3. ~HardExpired(mem[a], op[p].t)
  BY DEF Found
<1> QED
  BY <1>1, <1>2, <1>3, LiveIs

LEMMA TouchDone ==
  ASSUME LocalsOK, Fresh, NEW p \in Proc, DataInv, DataInv', Turns(p), pc'[p] # "insert",
         pc[p] \in {"fetch", "exists", "entry"}, UNCHANGED slots,
         NEW a \in Found(op[p].key, op[p].t), NEW n, mem' = Touched(a, op[p].t, n)
  PROVE  Done
<1>1. a \in AllLinked(Shared) /\ a \in DOMAIN mem /\ mem[a].key = op[p].key
  BY FoundLinked
<1>2. mem \in [DOMAIN mem -> Entry] /\ mem[a] \in Entry
  BY <1>1, SharedIs DEF DataInv, State, Sound, Entries
<1>3. DOMAIN mem' = DOMAIN mem /\ \A b \in DOMAIN mem \ {a} : mem'[b] = mem[b]
  BY DEF Touched
<1>4. mem'[a] = [mem[a] EXCEPT !.atime = op[p].t, !.ref = @ + n]
  BY <1>1 DEF Touched
<1>5. mem'[a].key = mem[a].key /\ Item(mem'[a]) = [Item(mem[a]) EXCEPT !.atime = op[p].t]
  BY <1>2, <1>4 DEF Entry, Item
<1>6. /\ View' = [View EXCEPT ![op[p].key] = Item(mem'[a])]
      /\ View[op[p].key] = Item(mem[a]) /\ op[p].key \in Key
      /\ View = [k \in Key |-> View[k]] /\ Spares(Shared, Shared')
  BY <1>1, <1>3, <1>5, ChangeStep
<1>7. View' = [View EXCEPT ![op[p].key].atime = op[p].t]
  BY <1>5, <1>6
<1>8. Requests[p] = [do |-> "touch", key |-> op[p].key, t |-> op[p].t]
  BY RequestIs
<1>9. Table!Live(op[p].key, op[p].t)
  BY FoundLive
<1>10. Table!Touch(p)
  BY <1>7, <1>8, <1>9, Answers DEF Table!Touch, Turns
<1> QED
  BY <1>6, <1>10, SparesOthers, FreshStep DEF Done, Table!Next, Turns

LEMMA UpdateDone ==
  ASSUME LocalsOK, Fresh, NEW p \in Proc, DataInv, DataInv', Turns(p), pc'[p] # "insert",
         Update(p)
  PROVE  Done
<1>0. pc[p] = "update" /\ UNCHANGED slots
  BY DEF Update, At
<1>1. PICK a \in Found(op[p].key, op[p].t) : mem' = [mem EXCEPT ![a].val = @ + 1]
  BY DEF Update
<1>2. a \in AllLinked(Shared) /\ a \in DOMAIN mem /\ mem[a].key = op[p].key
  BY FoundLinked
<1>3. mem \in [DOMAIN mem -> Entry] /\ mem[a] \in Entry
  BY <1>2, SharedIs DEF DataInv, State, Sound, Entries
<1>4. DOMAIN mem' = DOMAIN mem /\ \A b \in DOMAIN mem \ {a} : mem'[b] = mem[b]
  BY <1>1
<1>5. mem'[a] = [mem[a] EXCEPT !.val = @ + 1]
  BY <1>1, <1>2
<1>6. mem'[a].key = mem[a].key /\ Item(mem'[a]) = [Item(mem[a]) EXCEPT !.val = @ + 1]
  BY <1>3, <1>5 DEF Entry, Item
<1>7. /\ View' = [View EXCEPT ![op[p].key] = Item(mem'[a])]
      /\ View[op[p].key] = Item(mem[a]) /\ op[p].key \in Key
      /\ View = [k \in Key |-> View[k]] /\ Spares(Shared, Shared')
  BY <1>0, <1>2, <1>4, <1>6, ChangeStep
<1>8. View' = [View EXCEPT ![op[p].key].val = @ + 1]
  BY <1>6, <1>7
<1>9. Requests[p] = [do |-> "bump", key |-> op[p].key, t |-> op[p].t]
  BY <1>0, RequestIs
<1>10. Table!Live(op[p].key, op[p].t)
  BY <1>1, FoundLive
<1>11. Table!Bump(p)
  BY <1>8, <1>9, <1>10, Answers DEF Table!Bump, Turns
<1> QED
  BY <1>7, <1>11, SparesOthers, FreshStep DEF Done, Table!Next, Turns

LEMMA InsertDone ==
  ASSUME LocalsOK, Control, Fresh, NEW p \in Proc, DataInv, DataInv', Turns(p),
         pc'[p] # "insert", InsertEntry(p)
  PROVE  Done
<1>1. PICK a : a = ptr[p]
  OBVIOUS
<1>2. PICK excl : excl = Exclusive(op[p])
  OBVIOUS
<1>3. PICK r : r = Insert(Shared, a, excl)
  OBVIOUS
<1>4. SetShared(r.c) /\ pc[p] = "insert"
  BY <1>1, <1>2, <1>3 DEF InsertEntry, At
<1>5. a \in Loose(Shared) /\ mem[a].key = op[p].key
  BY <1>1, <1>4, HeldFacts DEF DataInv, PointerOf, Counted
<1>6. State(Shared, Held) /\ Sound(Shared) /\ Shows(Shared, View)
  BY Tables DEF DataInv
<1>7. /\ Carries(Shared, r.c, Held) /\ r.ok \in BOOLEAN
      /\ \E A, cut : Inserted(Shared, r, a, excl, A, cut)
  BY <1>3, <1>5, <1>6, InsertKeeps DEF LocalsOK
<1>8. PICK A, cut : Inserted(Shared, r, a, excl, A, cut)
  BY <1>7
<1>9. /\ r.ok => Puts(Shared, r.c, A, a)
      /\ ~r.ok => Cuts(Shared, r.c, A)
      /\ Spares(Shared, r.c)
      /\ A \subseteq AllLinked(Shared) /\ r.c.mem[a].key = op[p].key
  BY <1>5, <1>6, <1>7, <1>8, SharedIs, InsertShown DEF LocalsOK
<1>10. Shared' = r.c
  BY <1>4, <1>7, SharedBecomes DEF Carries, State, Sound
<1>11. Shows(Shared', View')
  BY TablesNext
<1>12. Item(mem[a]) = [val |-> 0, ttl |-> op[p].ttl, ctime |-> op[p].ct, atime |-> op[p].ct]
  BY <1>1, <1>4 DEF Fresh
<1>13. Item(r.c.mem[a]) = Item(mem[a])
  BY <1>5, <1>9, SharedIs DEF Spares
<1>14. mem[a].ctime = op[p].ct
  BY <1>12 DEF Item
<1>15. Requests[p] = [do |-> IF op[p].kind = "store" THEN "store" ELSE "add",
                      key |-> op[p].key, ttl |-> op[p].ttl, t |-> op[p].ct]
  BY <1>4, RequestIs
<1>16. op[p].kind \in {"store", "add", "inc", "entry"} /\ op[p].key \in Key
  BY <1>4 DEF Control, ControlOf, Storing, LocalsOK, Op
<1>17. OthersFresh(p)
  BY <1>9, <1>10, SparesOthers
<1>18. \A x \in A : mem[x].key = op[p].key \/ Expired(mem[x], op[p].ct)
  BY <1>5, <1>8, <1>14, SharedIs DEF Inserted
<1>19. \A k \in KeysOf(Shared, A) \ {op[p].key} : k \in Table!Stale(op[p].ct)
  <2> SUFFICES ASSUME NEW k \in KeysOf(Shared, A) \ {op[p].key}
               PROVE  k \in Table!Stale(op[p].ct)
    OBVIOUS
  <2>1. PICK x \in A : mem[x].key = k
    BY SharedIs DEF KeysOf
  <2>2. x \in AllLinked(Shared) /\ Expired(mem[x], op[p].ct)
    BY <1>9, <1>18, <2>1
  <2> QED
    BY <1>6, <2>1, <2>2, StaleIs
<1>20. CASE r.ok
  <2> DEFINE gone == KeysOf(Shared, A) \ {op[p].key}
  <2>1. View' = [k \in Key |-> IF k = op[p].key THEN Item(r.c.mem[a])
                               ELSE IF k \in gone THEN NoProc ELSE View[k]]
    BY <1>6, <1>9, <1>10, <1>11, <1>20, PutShown
  <2>2. gone \in SUBSET Table!Stale(op[p].ct)
    BY <1>19
  <2> HIDE DEF gone
  <2>3. Requests[p].do = "add" => ~Table!Live(op[p].key, op[p].ct)
    <3> SUFFICES ASSUME Requests[p].do = "add" PROVE ~Table!Live(op[p].key, op[p].ct)
      OBVIOUS
    <3>1. excl
      <4>1. op[p].kind # "store"
        BY <1>15
      <4> QED
        BY <1>2, <1>16, <4>1 DEF Exclusive
    <3>2. \A x \in AllLinked(Shared) : mem[x].key = op[p].key => HardExpired(mem[x], op[p].ct)
      BY <1>5, <1>8, <1>14, <1>20, <3>1, SharedIs DEF Inserted
    <3> QED
      BY <1>6, <1>16, <3>2, LiveIs
  <2>4. View' = [k \in Key |->
           IF k = op[p].key
           THEN [val |-> 0, ttl |-> op[p].ttl, ctime |-> op[p].ct, atime |-> op[p].ct]
           ELSE IF k \in gone THEN NoProc ELSE View[k]]
    BY <1>12, <1>13, <2>1
  <2>5. Table!Answered(p) /\ now' = now
    BY Answers DEF Turns
  <2>6. Requests[p].do \in {"store", "add"}
    BY <1>15
  <2>7. Table!Put(p)
    BY <1>15, <2>2, <2>3, <2>4, <2>5, <2>6 DEF Table!Put
  <2> QED
    BY <1>17, <2>7, FreshStep DEF Done, Table!Next, Turns
<1>21. CASE ~r.ok
  <2> DEFINE gone == KeysOf(Shared, A)
  <2>1. PICK x \in AllLinked(Shared) \ A :
          mem[x].key = op[p].key /\ ~HardExpired(mem[x], op[p].ct)
    BY <1>5, <1>8, <1>14, <1>21, SharedIs DEF Inserted
  <2>2. excl
    BY <1>8, <1>21 DEF Inserted
  <2>3. Table!Live(op[p].key, op[p].ct)
    BY <1>6, <1>16, <2>1, LiveIs
  <2>4. op[p].key \notin gone
    <3> SUFFICES ASSUME NEW b \in A, mem[b].key = op[p].key PROVE FALSE
      BY SharedIs DEF KeysOf
    <3>1. b \in AllLinked(Shared) /\ x \in AllLinked(Shared)
          /\ Shared.mem[b].key = Shared.mem[x].key /\ b # x
      BY <1>9, <2>1, SharedIs
    <3> QED
      BY <1>6, <3>1, OneLinked
  <2>5. gone \in SUBSET Table!Stale(op[p].ct)
    BY <1>19, <2>4
  <2>6. View' = Emptied(View, gone)
    BY <1>9, <1>10, <1>21, CutStep
  <2> HIDE DEF gone
  <2>7. Table!Loses(gone)
    BY <2>6 DEF Table!Loses, Emptied
  <2>8. op[p].kind # "store"
    BY <1>2, <2>2 DEF Exclusive
  <2>9. Table!Refuse(p)
    BY <1>15, <2>3, <2>5, <2>7, <2>8, Answers DEF Table!Refuse, Turns
  <2> QED
    BY <1>17, <2>9, FreshStep DEF Done, Table!Next, Turns
<1> QED
  BY <1>7, <1>20, <1>21

\* Every step of the cache is one of the table, or leaves it.
LEMMA TableStep ==
  ASSUME DataSafe, DataSafe', Fresh, [Next]_vars
  PROVE  [Table!Next]_<<View, now, Requests>> /\ Fresh'
<1>0. /\ pc = [q \in Proc |-> pc[q]] /\ op \in [Proc -> Op] /\ ptr = [q \in Proc |-> ptr[q]]
      /\ snap = [q \in Proc |-> snap[q]]
      /\ LocalsOK /\ Control /\ DataInv /\ DataInv'
  BY DEF DataSafe, LocalsOK
<1> USE <1>0
<1>ret. ASSUME NEW p \in Proc, Return(p), now' = now PROVE Turns(p) /\ pc'[p] # "insert"
  <2>1. pc'[p] # "insert"
    BY <1>ret, Returned, Left
  <2>2. \A q \in Proc \ {p} : snap'[q] = snap[q]
    BY <1>ret DEF Return
  <2> QED
    BY <1>ret, <2>1, <2>2, Returned DEF Turns, OthersStay
<1>leave. ASSUME NEW p \in Proc, Leave(p), UNCHANGED <<now, ptr, snap>>
          PROVE  Turns(p) /\ pc'[p] # "insert"
  BY <1>leave, Left DEF Turns, OthersStay
<1>call. ASSUME NEW p \in Proc, NEW kind, NEW k, NEW ttl, NEW len, Call(p, kind, k, ttl, len)
         PROVE  Done
  <2>1. kind \in Kinds
    BY <1>call, CacheAssumption DEF Call, Kinds
  <2>2. Turns(p) /\ pc'[p] # "insert" /\ UNCHANGED <<mem, slots>>
    BY <1>call, <2>1 DEF Call, Kinds, Goto, Turns, OthersStay, localVars, cacheVars
  <2> QED
    BY <2>2, TurnStep
<1>CallbackReturns. ASSUME NEW p \in Proc, NEW ttl, NEW len, CallbackReturns(p, ttl, len) PROVE Done
  <2>1. Turns(p) /\ pc'[p] # "insert" /\ UNCHANGED <<mem, slots>>
    BY <1>CallbackReturns DEF CallbackReturns, Goto, Turns, OthersStay, localVars, cacheVars
  <2> QED
    BY <2>1, TurnStep
<1>MallocRetries. ASSUME NEW p \in Proc, MallocRetries(p) PROVE Done
  <2>1. Turns(p) /\ pc'[p] # "insert" /\ UNCHANGED <<mem, slots>>
    BY <1>MallocRetries DEF MallocRetries, Goto, Turns, OthersStay, localVars, cacheVars
  <2> QED
    BY <2>1, TurnStep
<1>InsertUnlocked. ASSUME NEW p \in Proc, InsertUnlocked(p) PROVE Done
  <2>1. Turns(p) /\ pc'[p] # "insert" /\ UNCHANGED <<mem, slots>>
    BY <1>InsertUnlocked DEF InsertUnlocked, Goto, Turns, OthersStay, localVars, cacheVars
  <2> QED
    BY <2>1, TurnStep
<1>Snapshot. ASSUME NEW p \in Proc, Snapshot(p) PROVE Done
  <2>1. Turns(p) /\ pc'[p] # "insert" /\ UNCHANGED <<mem, slots>>
    BY <1>Snapshot DEF Snapshot, Goto, Turns, OthersStay, localVars, cacheVars
  <2> QED
    BY <2>1, TurnStep
<1>SkipExpunge. ASSUME NEW p \in Proc, SkipExpunge(p) PROVE Done
  <2>1. Turns(p) /\ pc'[p] # "insert" /\ UNCHANGED <<mem, slots>>
    BY <1>SkipExpunge DEF SkipExpunge, Goto, Turns, OthersStay, localVars, cacheVars
  <2> QED
    BY <2>1, TurnStep
<1>ExpungeUnlocked. ASSUME NEW p \in Proc, ExpungeUnlocked(p) PROVE Done
  <2>1. Turns(p) /\ pc'[p] # "insert" /\ UNCHANGED <<mem, slots>>
    BY <1>ExpungeUnlocked DEF ExpungeUnlocked, Goto, Turns, OthersStay, localVars, cacheVars
  <2> QED
    BY <2>1, TurnStep
<1>EntryMiss. ASSUME NEW p \in Proc, EntryMiss(p) PROVE Done
  <2>1. Turns(p) /\ pc'[p] # "insert" /\ UNCHANGED <<mem, slots>>
    BY <1>EntryMiss DEF EntryMiss, Goto, Turns, OthersStay, localVars, cacheVars
  <2> QED
    BY <2>1, TurnStep
<1>Misses. ASSUME NEW p \in Proc, Misses(p) PROVE Done
  <2>1. Leave(p) /\ UNCHANGED <<now, ptr, snap, mem, slots>>
    BY <1>Misses DEF Misses, localVars, cacheVars
  <2> QED
    BY <1>leave, <2>1, TurnStep
<1>RequestUnlocked. ASSUME NEW p \in Proc, RequestUnlocked(p) PROVE Done
  <2>1. Leave(p) /\ UNCHANGED <<now, ptr, snap, mem, slots>>
    BY <1>RequestUnlocked DEF RequestUnlocked, localVars, cacheVars
  <2> QED
    BY <1>leave, <2>1, TurnStep
<1>MallocFails. ASSUME NEW p \in Proc, MallocFails(p) PROVE Done
  <2>1. Return(p) /\ UNCHANGED <<now, mem, slots>>
    BY <1>MallocFails DEF MallocFails, cacheVars
  <2> QED
    BY <1>ret, <2>1, TurnStep
<1>CallbackThrows. ASSUME NEW p \in Proc, CallbackThrows(p) PROVE Done
  <2>1. Return(p) /\ UNCHANGED <<now, mem, slots>>
    BY <1>CallbackThrows DEF CallbackThrows, cacheVars
  <2> QED
    BY <1>ret, <2>1, TurnStep
<1>UpdateMisses. ASSUME NEW p \in Proc, UpdateMisses(p) PROVE Done
  <2>1. UNCHANGED <<now, ptr, snap, mem, slots>>
    BY <1>UpdateMisses DEF UpdateMisses, localVars, cacheVars
  <2>2. CASE op[p].kind = "inc"
    <3>1. Turns(p) /\ pc'[p] # "insert"
      BY <1>UpdateMisses, <2>1, <2>2 DEF UpdateMisses, Goto, Turns, OthersStay
    <3> QED
      BY <2>1, <3>1, TurnStep
  <2>3. CASE op[p].kind # "inc"
    <3>1. Leave(p)
      BY <1>UpdateMisses, <2>3 DEF UpdateMisses
    <3> QED
      BY <1>leave, <2>1, <3>1, TurnStep
  <2> QED
    BY <2>2, <2>3
<1>Malloc. ASSUME NEW p \in Proc, Malloc(p) PROVE Done
  BY <1>Malloc, FreshEntry
<1>InsertEntry. ASSUME NEW p \in Proc, InsertEntry(p) PROVE Done
  <2>1. Turns(p) /\ pc'[p] # "insert"
    BY <1>InsertEntry DEF InsertEntry, Goto, Turns, OthersStay, localVars
  <2> QED
    BY <1>InsertEntry, <2>1, InsertDone
<1>Discard. ASSUME NEW p \in Proc, Discard(p) PROVE Done
  <2>1. Return(p) /\ now' = now
    BY <1>Discard DEF Discard
  <2> QED
    BY <1>Discard, <1>ret, <2>1, DiscardDone
<1>Release. ASSUME NEW p \in Proc, Release(p) PROVE Done
  <2>1. Return(p) /\ now' = now
    BY <1>Release DEF Release
  <2> QED
    BY <1>Release, <1>ret, <2>1, ReleaseDone
<1>Sweep. ASSUME NEW p \in Proc, Sweep(p) PROVE Done
  <2>1. Turns(p) /\ pc'[p] # "insert"
    BY <1>Sweep DEF Sweep, Goto, Turns, OthersStay, localVars
  <2> QED
    BY <1>Sweep, <2>1, SweepDone
<1>CheckAvail. ASSUME NEW p \in Proc, CheckAvail(p) PROVE Done
  <2>1. Turns(p) /\ pc'[p] # "insert" /\ pc[p] = "avail"
    BY <1>CheckAvail DEF CheckAvail, EndExpunge, At, Goto, Turns, OthersStay, localVars
  <2>2. SetShared(RealExpunge(Shared)) \/ UNCHANGED <<mem, slots>>
    BY <1>CheckAvail DEF CheckAvail, cacheVars
  <2> QED
    BY <2>1, <2>2, WipeDone, TurnStep
<1>Compact. ASSUME NEW p \in Proc, Compact(p) PROVE Done
  <2>1. Turns(p) /\ pc'[p] # "insert"
    BY <1>Compact DEF Compact, Goto, Turns, OthersStay, localVars
  <2> QED
    BY <1>Compact, <2>1, CompactDone
<1>CheckContiguous. ASSUME NEW p \in Proc, CheckContiguous(p) PROVE Done
  <2>1. Turns(p) /\ pc'[p] # "insert" /\ pc[p] = "contiguous"
    BY <1>CheckContiguous DEF CheckContiguous, EndExpunge, At, Goto, Turns, OthersStay
  <2>2. SetShared(RealExpunge(Shared)) \/ UNCHANGED <<mem, slots>>
    BY <1>CheckContiguous DEF CheckContiguous
  <2> QED
    BY <2>1, <2>2, WipeDone, TurnStep
<1>Fetch. ASSUME NEW p \in Proc, Fetch(p) PROVE Done
  <2>1. Turns(p) /\ pc'[p] # "insert" /\ pc[p] = "fetch" /\ UNCHANGED slots
    BY <1>Fetch DEF Fetch, At, Goto, Turns, OthersStay
  <2>2. PICK a \in Found(op[p].key, op[p].t) : mem' = Touched(a, op[p].t, 1)
    BY <1>Fetch DEF Fetch
  <2> QED
    BY <2>1, <2>2, TouchDone
<1>EntryHit. ASSUME NEW p \in Proc, EntryHit(p) PROVE Done
  <2>1. Turns(p) /\ pc'[p] # "insert" /\ pc[p] = "entry" /\ UNCHANGED slots
    BY <1>EntryHit DEF EntryHit, At, Goto, Turns, OthersStay
  <2>2. PICK a \in Found(op[p].key, op[p].t) : mem' = Touched(a, op[p].t, 1)
    BY <1>EntryHit DEF EntryHit
  <2> QED
    BY <2>1, <2>2, TouchDone
<1>Exists. ASSUME NEW p \in Proc, Exists(p) PROVE Done
  <2>1. pc[p] = "exists" /\ Leave(p) /\ UNCHANGED <<now, ptr, snap, slots>>
    BY <1>Exists DEF Exists, At, localVars
  <2>2. Turns(p) /\ pc'[p] # "insert"
    BY <1>leave, <2>1
  <2>3. PICK a \in Found(op[p].key, op[p].t) : mem' = Touched(a, op[p].t, 0)
    BY <1>Exists DEF Exists
  <2> QED
    BY <2>1, <2>2, <2>3, TouchDone
<1>Delete. ASSUME NEW p \in Proc, Delete(p) PROVE Done
  <2>1. Leave(p) /\ UNCHANGED <<now, ptr, snap>>
    BY <1>Delete DEF Delete, localVars
  <2> QED
    BY <1>Delete, <1>leave, <2>1, DeleteDone
<1>Clear. ASSUME NEW p \in Proc, Clear(p) PROVE Done
  <2>1. pc[p] = "clear" /\ Leave(p) /\ UNCHANGED <<now, ptr, snap>> /\ SetShared(RealExpunge(Shared))
    BY <1>Clear DEF Clear, At, localVars
  <2> QED
    BY <1>leave, <2>1, WipeDone
<1>Update. ASSUME NEW p \in Proc, Update(p) PROVE Done
  <2>1. Leave(p) /\ UNCHANGED <<now, ptr, snap>>
    BY <1>Update DEF Update, localVars
  <2> QED
    BY <1>Update, <1>leave, <2>1, UpdateDone
<1>Crash. ASSUME NEW p \in Proc, Crash(p) PROVE Done
  <2>1. Turns(p) /\ pc'[p] # "insert" /\ UNCHANGED <<mem, slots>>
    BY <1>Crash DEF Crash, Goto, Turns, OthersStay, localVars, cacheVars
  <2> QED
    BY <2>1, TurnStep
<1>Tick. ASSUME Tick PROVE Done
  <2>1. UNCHANGED <<mem, slots, pc, op, ptr, snap>> /\ now' = now + 1
    BY <1>Tick DEF Tick, cacheVars, localVars
  <2>2. View' = View
    BY <2>1 DEF View, Linked
  <2>3. Requests' = Requests
    BY <2>1 DEF Requests, Request, At
  <2>4. Fresh'
    BY <2>1 DEF Fresh
  <2> QED
    BY <2>1, <2>2, <2>3, <2>4 DEF Done, Table!Next, Table!Tick
<1>stutter. ASSUME UNCHANGED vars PROVE UNCHANGED <<View, now, Requests>> /\ Fresh'
  <2>1. UNCHANGED <<mem, slots, pc, op, ptr, snap, now>>
    BY <1>stutter DEF vars
  <2>2. View' = View
    BY <2>1 DEF View, Linked
  <2>3. Requests' = Requests
    BY <2>1 DEF Requests, Request, At
  <2> QED
    BY <2>1, <2>2, <2>3 DEF Fresh
<1>step. ASSUME NEW p \in Proc, Continues(p) PROVE Done
  BY <1>step, <1>CallbackReturns, <1>MallocRetries, <1>MallocFails, <1>Malloc, <1>InsertEntry,
     <1>InsertUnlocked, <1>Discard, <1>Release, <1>Snapshot, <1>SkipExpunge,
     <1>ExpungeUnlocked, <1>Sweep, <1>CheckAvail, <1>Compact, <1>CheckContiguous,
     <1>Fetch, <1>Exists, <1>Misses, <1>Delete, <1>Clear, <1>RequestUnlocked, <1>Update,
     <1>UpdateMisses, <1>EntryHit, <1>EntryMiss, <1>CallbackThrows DEF Continues
<1>calls. ASSUME NEW p \in Proc, Calls(p) PROVE Done
  BY <1>calls, <1>call DEF Calls
<1>next. Next => Done
  BY <1>step, <1>calls, <1>Crash, <1>Tick DEF Next
<1> QED
  BY <1>next, <1>stutter DEF Done

LEMMA TableInit == Init => Table!Init /\ Fresh
<1> SUFFICES ASSUME Init PROVE Table!Init /\ Fresh
  OBVIOUS
<1>1. \A k \in Key : Linked(k) = {}
  <2> SUFFICES ASSUME NEW k \in Key PROVE Linked(k) = {}
    OBVIOUS
  <2>1. slots[SlotOf[k]] = <<>>
    BY DEF Init, Slot
  <2> QED
    BY <2>1 DEF Linked, ToSet
<1>2. View = [k \in Key |-> NoProc]
  BY <1>1 DEF View
<1>3. \A p \in Proc : pc[p] = "idle"
  BY DEF Init
<1>4. Requests = [p \in Proc |-> [do |-> "none"]]
  BY <1>3 DEF Requests, Request, At
<1> QED
  BY <1>2, <1>3, <1>4 DEF Init, Table!Init, Table!None, Fresh

\* Seen through what its slots link, the cache is the table that its users rely
\* on: whatever the interleaving of stores, expunges, defragmentation and
\* crashes, an entry changes or goes only by a request that says so, by expiry,
\* or in a full wipe.  The hypotheses are those of HeldEntryIntactHolds.
THEOREM Refinement ==
  /\ GcTtl = 0 => (Spec => ImplementsTable)
  /\ PromptSpec => ImplementsTable
<1>1. DataSafe /\ DataSafe' /\ Fresh /\ [Next]_vars
        => [Table!Next]_<<View, now, Requests>> /\ Fresh'
  BY TableStep
<1>2. ASSUME GcTtl = 0 PROVE Spec => ImplementsTable
  <2>1. Spec => []DataSafe
    BY <1>2, SafeNoTtl
  <2> QED
    BY <1>1, <2>1, TableInit, PTL DEF Spec, ImplementsTable, Table!Spec
<1>3. PromptSpec => ImplementsTable
  <2>1. DataSafe /\ DataSafe' /\ Fresh /\ [Next /\ (now' # now => Prompt')]_vars
          => [Table!Next]_<<View, now, Requests>> /\ Fresh'
    BY <1>1
  <2> QED
    BY <2>1, SafePrompt, TableInit, PTL DEF PromptSpec, ImplementsTable, Table!Spec
<1> QED
  BY <1>2, <1>3

-----------------------------------------------------------------------------
(* One process alone *)

\* Nobody but the holder of the entry at h counts.
Counts(m, h) ==
  \A a \in DOMAIN m : (a # h => m[a].ref <= 0) /\ (a = h => m[a].ref <= 1)

\* Nothing waits on the gc list, and only what p holds is referenced.
Alone(p) == gc = {} /\ (pc[p] # "dead" => Counts(mem, ptr[p]))

\* After its one expunge p finds room.
Roomy(p) ==
  /\ nuked[p] => pc[p] \in {"malloc", "insert", "discard", "release", "dead"}
  /\ (pc[p] = "malloc" /\ nuked[p]) => op[p].len > Cells \/ Fitting(mem, op[p].len) # {}

LEMMA HeldAlone ==
  ASSUME DataInv, NEW p \in Proc, Proc = {p}, pc[p] # "dead"
  PROVE  /\ Held \subseteq {ptr[p]} /\ (ptr[p] # 0 => ptr[p] \in Held)
         /\ (ptr[p] = 0 => Held = {}) /\ 0 \notin DOMAIN mem
         /\ State(Shared, Held) /\ Held \subseteq DOMAIN mem
<1>1. ASSUME NEW a \in Held PROVE a = ptr[p]
  <2>1. CASE a \in Loose(Shared)
    BY <2>1 DEF DataInv, Owned
  <2>2. CASE Holders(a) # {}
    BY <2>2 DEF Holders
  <2> QED
    BY <2>1, <2>2 DEF Held
<1>2. Counted(p)
  BY DEF Counted
<1> QED
  BY <1>1, <1>2, HeldFacts DEF DataInv

\* What lets entries carry the counts of others keeps them uncounted.
LEMMA CountsCarried ==
  ASSUME NEW c, NEW d, NEW H, NEW h, State(c, H), Carries(c, d, H), H \subseteq {h},
         h \in H \/ h = 0, Counts(c.mem, h)
  PROVE  Counts(d.mem, h)
<1> SUFFICES ASSUME NEW a \in DOMAIN d.mem
             PROVE  (a # h => d.mem[a].ref <= 0) /\ (a = h => d.mem[a].ref <= 1)
  BY DEF Counts
<1>1. a # 0 /\ 0 \notin DOMAIN c.mem
  BY CellsAssumption DEF Carries, State, Sound, Entries, IsHeap
<1>2. CASE a \in H
  BY <1>2 DEF Carries, State, Pinned, Counts
<1>3. CASE a \notin H
  <2>1. PICK b \in DOMAIN c.mem \ H : d.mem[a].ref = c.mem[b].ref
    BY <1>3 DEF Carries
  <2>2. a # h /\ b # h
    BY <1>1, <1>3, <2>1
  <2> QED
    BY <2>1, <2>2 DEF Counts
<1> QED
  BY <1>2, <1>3

LEMMA AloneSame ==
  ASSUME NEW p \in Proc, Alone(p), UNCHANGED <<mem, gc>>,
         pc'[p] # "dead" => pc[p] # "dead" /\ ptr'[p] = ptr[p]
  PROVE  Alone(p)'
BY DEF Alone, Counts

\* A critical section that puts nothing on the gc list.
LEMMA AloneKept ==
  ASSUME DataInv, NEW p \in Proc, Proc = {p}, Alone(p), pc[p] # "dead", ptr'[p] = ptr[p],
         NEW d, SetShared(d), Carries(Shared, d, Held), d.gc = {}
  PROVE  Alone(p)'
<1>1. /\ Held \subseteq {ptr[p]} /\ (ptr[p] # 0 => ptr[p] \in Held)
      /\ State(Shared, Held)
  BY HeldAlone
<1>2. Counts(Shared.mem, ptr[p])
  BY SharedIs DEF Alone
<1>3. Counts(d.mem, ptr[p])
  BY <1>1, <1>2, CountsCarried
<1>4. mem' = d.mem /\ gc' = {}
  BY DEF SetShared
<1> QED
  BY <1>3, <1>4 DEF Alone, Counts

LEMMA RemoveAllFrees ==
  ASSUME NEW c, NEW A, \A a \in A : c.mem[a].ref <= 0
  PROVE  Unreferenced(c, A) = A /\ RemoveAll(c, A).gc = c.gc
<1>1. Unreferenced(c, A) = A
  BY DEF Unreferenced
<1>2. RemoveAll(c, A).gc = c.gc \cup (A \ Unreferenced(c, A))
  BY DEF RemoveAll
<1> QED
  BY <1>1, <1>2

LEMMA GcShrinks ==
  ASSUME NEW c, IsShared(c), c.gc = {}
  PROVE  Gc(c).gc = {}
BY DEF Gc, IsShared

\* Nothing linked is referenced while p holds nothing.
LEMMA NothingHeld ==
  ASSUME DataInv, NEW p \in Proc, Proc = {p}, Alone(p), pc[p] # "dead", ptr[p] = 0
  PROVE  /\ \A a \in DOMAIN mem : mem[a].ref <= 0
         /\ AllLinked(Shared) = DOMAIN mem /\ Shared.gc = {} /\ Sound(Shared)
<1>1. Held = {} /\ 0 \notin DOMAIN mem /\ State(Shared, Held)
  BY HeldAlone
<1>2. Loose(Shared) = {}
  BY <1>1 DEF State
<1>3. Sound(Shared) /\ AllLinked(Shared) \subseteq DOMAIN mem
  BY <1>1, SharedIs, SoundLists DEF State
<1> QED
  BY <1>1, <1>2, <1>3, SharedIs DEF Loose, Alone, Counts

LEMMA AloneRemoves ==
  ASSUME DataInv, NEW p \in Proc, Proc = {p}, Alone(p), pc[p] # "dead", ptr[p] = 0,
         NEW A \in SUBSET AllLinked(Shared)
  PROVE  RemoveAll(Shared, A).gc = {}
<1>1. \A a \in A : Shared.mem[a].ref <= 0
  BY NothingHeld, SharedIs
<1>2. RemoveAll(Shared, A).gc = Shared.gc
  BY <1>1, RemoveAllFrees
<1> QED
  BY <1>2, NothingHeld

\* A wipe leaves the segment empty.
LEMMA AloneWipes ==
  ASSUME DataInv, NEW p \in Proc, Proc = {p}, Alone(p), pc[p] # "dead", ptr[p] = 0
  PROVE  RealExpunge(Shared).gc = {} /\ DOMAIN RealExpunge(Shared).mem = {}
<1> DEFINE A == AllLinked(Shared)
           r == RemoveAll(Shared, A)
<1>1. r.gc = {}
  BY AloneRemoves
<1>2. Unreferenced(Shared, A) = A /\ Shared.mem = mem /\ A = DOMAIN mem
  <2>1. \A a \in A : Shared.mem[a].ref <= 0
    BY NothingHeld, SharedIs
  <2> QED
    BY <2>1, RemoveAllFrees, NothingHeld, SharedIs
<1>3. Removes(Shared, r, A)
  BY NothingHeld, RemoveAllRemoves
<1> HIDE DEF A
<1>4. DOMAIN r.mem = {}
  BY <1>2, <1>3 DEF Removes
<1> HIDE DEF r
<1>5. RealExpunge(Shared).gc = r.gc /\ RealExpunge(Shared).mem = r.mem
  BY <1>3 DEF RealExpunge, A, r, Removes, IsShared
<1> QED
  BY <1>1, <1>4, <1>5

\* The new entry is linked over entries that nobody holds.
LEMMA AloneInserts ==
  ASSUME LocalsOK, DataInv, NEW p \in Proc, Proc = {p}, Alone(p), pc[p] = "insert", NEW excl
  PROVE  Insert(Shared, ptr[p], excl).c.gc = {}
<1> DEFINE a == ptr[p]
           r == Insert(Shared, a, excl)
<1>1. /\ a \in Loose(Shared) /\ State(Shared, Held) /\ Sound(Shared)
      /\ IsShared(Shared) /\ Shared.gc = {}
  BY HeldAlone, SharedIs DEF DataInv, PointerOf, Alone, State
<1>2. PICK A, cut : Inserted(Shared, r, a, excl, A, cut)
  BY <1>1, InsertKeeps DEF LocalsOK
<1> HIDE DEF r
<1>3. A \subseteq AllLinked(Shared) /\ Removes(Gc(Shared), cut, A) /\ r.c.gc = cut.gc
  BY <1>2 DEF Inserted
<1>4. /\ Gc(Shared).gc = {} /\ \A x \in DOMAIN Gc(Shared).mem : Gc(Shared).mem[x] = Shared.mem[x]
      /\ AllLinked(Gc(Shared)) = AllLinked(Shared) /\ Sound(Gc(Shared))
  <2>1. Gc(Shared).gc = {}
    BY <1>1, GcShrinks
  <2> QED
    BY <1>1, <2>1, GcKeeps DEF Keeps, Carries, State
<1>5. \A x \in A : Gc(Shared).mem[x].ref <= 0
  <2> SUFFICES ASSUME NEW x \in A PROVE Gc(Shared).mem[x].ref <= 0
    OBVIOUS
  <2>1. x \in AllLinked(Shared) /\ x \in DOMAIN Gc(Shared).mem
    BY <1>3, <1>4, SoundLists
  <2>2. x # a /\ x \in DOMAIN mem
    BY <1>1, <2>1, SoundLists, SharedIs DEF Loose
  <2> QED
    BY <1>4, <2>1, <2>2, SharedIs DEF Alone, Counts
<1>6. Unreferenced(Gc(Shared), A) = A
  BY <1>5, RemoveAllFrees
<1>7. cut.gc = {}
  BY <1>3, <1>4, <1>6 DEF Removes
<1> QED
  BY <1>3, <1>7 DEF r

\* The count of one entry changes by n, and p holds it afterwards, or not.
LEMMA AloneAlters ==
  ASSUME NEW p \in Proc, Alone(p), pc[p] # "dead", NEW a \in DOMAIN mem,
         \A b \in DOMAIN mem : mem[b].ref \in Int,
         \/ (Alters(Shared, Shared', a, 0) /\ ptr'[p] = ptr[p])
         \/ (Alters(Shared, Shared', a, 1) /\ ptr[p] \notin DOMAIN mem /\ ptr'[p] = a)
         \/ (Alters(Shared, Shared', a, -1) /\ ptr[p] = a)
  PROVE  Alone(p)'
<1>1. /\ gc' = {} /\ DOMAIN mem' = DOMAIN mem
      /\ \A b \in DOMAIN mem \ {a} : mem'[b] = mem[b]
  <2>1. Shared.mem = mem /\ Shared.gc = gc /\ Shared'.mem = mem' /\ Shared'.gc = gc'
    BY DEF Shared
  <2> QED
    BY <2>1 DEF Alters, Alone
<1>2. \/ (mem'[a].ref = mem[a].ref /\ ptr'[p] = ptr[p])
      \/ (mem'[a].ref = mem[a].ref + 1 /\ ptr[p] \notin DOMAIN mem /\ ptr'[p] = a)
      \/ (mem'[a].ref = mem[a].ref - 1 /\ ptr[p] = a)
  <2>1. Shared.mem = mem /\ Shared'.mem = mem'
    BY DEF Shared
  <2>2. CASE Alters(Shared, Shared', a, 0) /\ ptr'[p] = ptr[p]
    BY <2>1, <2>2 DEF Alters
  <2>3. CASE Alters(Shared, Shared', a, 1) /\ ptr[p] \notin DOMAIN mem /\ ptr'[p] = a
    BY <2>1, <2>3 DEF Alters
  <2>4. CASE Alters(Shared, Shared', a, -1) /\ ptr[p] = a
    BY <2>1, <2>4 DEF Alters
  <2> QED
    BY <2>2, <2>3, <2>4
<1>3. \A b \in DOMAIN mem : (b # ptr[p] => mem[b].ref <= 0) /\ (b = ptr[p] => mem[b].ref <= 1)
  BY DEF Alone, Counts
<1>4. ASSUME NEW b \in DOMAIN mem
      PROVE  (b # ptr'[p] => mem'[b].ref <= 0) /\ (b = ptr'[p] => mem'[b].ref <= 1)
  <2>1. /\ mem[b].ref \in Int
        /\ (b # ptr[p] => mem[b].ref <= 0) /\ (b = ptr[p] => mem[b].ref <= 1)
    BY <1>3
  <2>2. CASE b = a
    BY <1>2, <2>1, <2>2
  <2>3. CASE b # a
    BY <1>1, <1>2, <2>1, <2>3
  <2> QED
    BY <2>2, <2>3
<1> QED
  BY <1>1, <1>4 DEF Alone, Counts

LEMMA AloneStep ==
  ASSUME LocalsOK, Control, DataInv, NEW p \in Proc, Proc = {p}, Alone(p), [Next]_vars
  PROVE  Alone(p)'
<1>0. pc = [q \in Proc |-> pc[q]] /\ ptr = [q \in Proc |-> ptr[q]]
  BY DEF LocalsOK
<1>1. /\ pc[p] \notin Holding \cup {"dead"} => ptr[p] = 0
      /\ \A a \in DOMAIN mem : mem[a].ref \in Int
  BY HeldFacts DEF Control, ControlOf
<1>same. ASSUME pc[p] # "dead", ptr'[p] = ptr[p], UNCHANGED cacheVars PROVE Alone(p)'
  BY <1>same, AloneSame DEF cacheVars
<1>calls. ASSUME Calls(p) PROVE Alone(p)'
  BY <1>calls, <1>same DEF Calls, Call, localVars
<1>locals. ASSUME \/ MallocRetries(p) \/ InsertUnlocked(p) \/ Snapshot(p) \/ SkipExpunge(p)
                  \/ ExpungeUnlocked(p) \/ Misses(p) \/ RequestUnlocked(p)
                  \/ UpdateMisses(p) \/ EntryMiss(p)
                  \/ \E ttl \in Ttls, len \in Lens : CallbackReturns(p, ttl, len)
           PROVE  Alone(p)'
  BY <1>locals, <1>same DEF At, localVars, MallocRetries, InsertUnlocked, Snapshot, SkipExpunge,
     ExpungeUnlocked, Misses, RequestUnlocked, UpdateMisses, EntryMiss, CallbackReturns, LockFails
<1>returns. ASSUME MallocFails(p) \/ CallbackThrows(p) PROVE Alone(p)'
  <2>1. Return(p) /\ pc[p] \in {"malloc", "callback"} /\ UNCHANGED cacheVars
    BY <1>returns DEF MallocFails, NoRoom, CallbackThrows, At
  <2>2. ptr'[p] = ptr[p]
    BY <1>1, <2>1, Returned DEF Holding
  <2> QED
    BY <2>1, <2>2, <1>same
<1>section. ASSUME pc[p] \in {"delete", "clear"} \cup {"expunge"} \cup Expunging, ptr'[p] = ptr[p],
                   NEW d, SetShared(d), Keeps(Shared, d, Held), d.gc = {}
            PROVE  Alone(p)'
  BY <1>section, AloneKept DEF Keeps, Expunging
<1>Sweep. ASSUME Sweep(p) PROVE Alone(p)'
  <2> DEFINE stale == {a \in AllLinked(Shared) : Expired(mem[a], snap[p].t)}
             r == RemoveAll(Shared, stale)
  <2>1. pc[p] = "expunge" /\ ptr'[p] = ptr[p] /\ ptr[p] = 0 /\ SetShared(Gc(r))
    BY <1>Sweep, <1>1 DEF Sweep, At, localVars, Holding
  <2>2. stale \in SUBSET AllLinked(Shared)
    OBVIOUS
  <2>3. r.gc = {} /\ Keeps(Shared, r, Held)
    BY <2>1, <2>2, AloneRemoves, RemoveKeeps
  <2>4. Keeps(Shared, Gc(r), Held)
    BY <2>2, SweepKeeps
  <2> HIDE DEF stale, r
  <2>5. Gc(r).gc = {}
    BY <2>3, GcShrinks DEF Keeps, Carries, State, Sound
  <2> QED
    BY <2>1, <2>4, <2>5, <1>section
<1>wipe. ASSUME pc[p] \in {"clear"} \cup Expunging, ptr'[p] = ptr[p], SetShared(RealExpunge(Shared))
         PROVE  Alone(p)'
  <2>1. ptr[p] = 0 /\ pc[p] # "dead"
    BY <1>wipe, <1>1 DEF Holding, Expunging
  <2>2. Keeps(Shared, RealExpunge(Shared), Held)
    BY ExpungeKeeps DEF LocalsOK, DataInv
  <2>3. RealExpunge(Shared).gc = {}
    BY <2>1, AloneWipes
  <2> QED
    BY <1>wipe, <2>2, <2>3, <1>section
<1>Clear. ASSUME Clear(p) PROVE Alone(p)'
  BY <1>Clear, <1>wipe DEF Clear, At, localVars
<1>CheckAvail. ASSUME CheckAvail(p) PROVE Alone(p)'
  <2>1. pc[p] = "avail" /\ ptr'[p] = ptr[p]
    BY <1>CheckAvail DEF CheckAvail, At
  <2>2. SetShared(RealExpunge(Shared)) \/ UNCHANGED cacheVars
    BY <1>CheckAvail DEF CheckAvail
  <2> QED
    BY <2>1, <2>2, <1>same, <1>wipe DEF Expunging
<1>CheckContiguous. ASSUME CheckContiguous(p) PROVE Alone(p)'
  <2>1. pc[p] = "contiguous" /\ ptr'[p] = ptr[p]
    BY <1>CheckContiguous DEF CheckContiguous, At
  <2>2. SetShared(RealExpunge(Shared)) \/ UNCHANGED <<mem, gc>>
    BY <1>CheckContiguous DEF CheckContiguous
  <2> QED
    BY <2>1, <2>2, <1>wipe, AloneSame DEF Expunging
<1>Compact. ASSUME Compact(p) PROVE Alone(p)'
  <2>1. pc[p] = "compact" /\ ptr'[p] = ptr[p] /\ SetShared(Defrag(Shared))
    BY <1>Compact DEF Compact, At, localVars
  <2>2. Keeps(Shared, Defrag(Shared), Held)
    BY DefragKeeps DEF DataInv
  <2>3. PICK to : Redirects(Shared, Defrag(Shared), to)
    BY DefragRedirects DEF DataInv, State
  <2>4. Defrag(Shared).gc = {}
    BY <2>3, SharedIs DEF Redirects, Alone
  <2> QED
    BY <2>1, <2>2, <2>4, <1>section DEF Expunging
<1>Delete. ASSUME Delete(p) PROVE Alone(p)'
  <2>1. /\ pc[p] = "delete" /\ ptr'[p] = ptr[p] /\ ptr[p] = 0
        /\ SetShared(RemoveAll(Shared, Linked(op[p].key)))
    BY <1>Delete, <1>1 DEF Delete, At, localVars, Holding
  <2>2. Linked(op[p].key) \in SUBSET AllLinked(Shared)
    BY LinkedListed
  <2>3. /\ Keeps(Shared, RemoveAll(Shared, Linked(op[p].key)), Held)
        /\ RemoveAll(Shared, Linked(op[p].key)).gc = {}
    BY <2>1, <2>2, RemoveKeeps, AloneRemoves
  <2> QED
    BY <2>1, <2>3, <1>section
<1>Exists. ASSUME Exists(p) PROVE Alone(p)'
  <2>1. PICK a \in Found(op[p].key, op[p].t) : mem' = Touched(a, op[p].t, 0)
    BY <1>Exists DEF Exists
  <2>2. a \in DOMAIN mem /\ Alters(Shared, Shared', a, 0)
    BY <1>Exists, <2>1, FoundLinked, TouchAlters DEF Exists
  <2>3. ptr'[p] = ptr[p] /\ pc[p] # "dead"
    BY <1>Exists DEF Exists, At, localVars
  <2> QED
    BY <1>1, <2>2, <2>3, AloneAlters
<1>Update. ASSUME Update(p) PROVE Alone(p)'
  <2>1. PICK a \in Found(op[p].key, op[p].t) : mem' = [mem EXCEPT ![a].val = @ + 1]
    BY <1>Update DEF Update
  <2>2. a \in DOMAIN mem /\ Alters(Shared, Shared', a, 0)
    BY <1>Update, <2>1, FoundLinked, UpdateAlters DEF Update
  <2>3. ptr'[p] = ptr[p] /\ pc[p] # "dead"
    BY <1>Update DEF Update, At, localVars
  <2> QED
    BY <1>1, <2>2, <2>3, AloneAlters
<1>finds. ASSUME Fetch(p) \/ EntryHit(p) PROVE Alone(p)'
  <2>1. PICK a \in Found(op[p].key, op[p].t) :
          mem' = Touched(a, op[p].t, 1) /\ ptr' = [ptr EXCEPT ![p] = a]
    BY <1>finds DEF Fetch, EntryHit
  <2>2. a \in DOMAIN mem /\ Alters(Shared, Shared', a, 1)
    BY <1>finds, <2>1, FoundLinked, TouchAlters DEF Fetch, EntryHit
  <2>3. ptr'[p] = a /\ pc[p] \notin Holding \cup {"dead"}
    BY <1>finds, <1>0, <2>1 DEF Fetch, EntryHit, At, Holding
  <2>4. ptr[p] \notin DOMAIN mem
    BY <1>1, <2>3, HeldAlone
  <2> QED
    BY <1>1, <2>2, <2>3, <2>4, AloneAlters
<1>Release. ASSUME Release(p) PROVE Alone(p)'
  <2>1. pc[p] \in {"release", "copy"} /\ ptr[p] # 0 /\ UNCHANGED <<slots, gc, now>>
    BY <1>Release DEF Release, DataInv, PointerOf
  <2>2. ptr[p] \in DOMAIN mem
    BY <2>1, HeldAlone
  <2>3. mem' = [mem EXCEPT ![ptr[p]].ref = @ - 1]
    BY <1>Release, <2>2 DEF Release
  <2>4. Alters(Shared, Shared', ptr[p], -1)
    BY <2>1, <2>2, <2>3, ReleaseAlters
  <2> QED
    BY <1>1, <2>1, <2>2, <2>4, AloneAlters
<1>Malloc. ASSUME Malloc(p) PROVE Alone(p)'
  <2>1. PICK a \in Fitting(mem, op[p].len) :
          mem' = With(mem, a, NewEntry(op[p])) /\ ptr' = [ptr EXCEPT ![p] = a]
    BY <1>Malloc DEF Malloc
  <2>2. /\ ptr'[p] = a /\ gc' = {} /\ ptr[p] \notin DOMAIN mem
        /\ \A b \in DOMAIN mem : mem[b].ref <= 0
    <3>1. pc[p] = "malloc"
      BY <1>Malloc DEF Malloc, At
    <3> QED
      BY <1>Malloc, <1>0, <1>1, <2>1, <3>1, HeldAlone DEF Malloc, Holding, Alone, Counts
  <2>3. NewEntry(op[p]).ref = 1
    BY DEF NewEntry
  <2>4. /\ DOMAIN mem' = DOMAIN mem \cup {a} /\ mem'[a].ref = 1
        /\ \A b \in DOMAIN mem \ {a} : mem'[b] = mem[b]
    BY <2>1, <2>3 DEF With
  <2>5. Counts(mem, a)' /\ gc' = {}
    BY <2>2, <2>4 DEF Counts
  <2> QED
    BY <2>2, <2>4 DEF Alone, Counts
<1>Discard. ASSUME Discard(p) PROVE Alone(p)'
  <2>1. pc[p] = "discard" /\ gc' = gc /\ mem' = Without(mem, {ptr[p]})
    BY <1>Discard DEF Discard, At
  <2>2. /\ DOMAIN mem' = DOMAIN mem \ {ptr[p]}
        /\ \A b \in DOMAIN mem \ {ptr[p]} : mem'[b] = mem[b] /\ mem[b].ref <= 0
    BY <2>1 DEF Without, Alone, Counts
  <2>3. \A b \in DOMAIN mem' : mem'[b].ref <= 0 /\ mem'[b].ref <= 1
    BY <1>1, <2>2
  <2> QED
    BY <2>1, <2>3 DEF Alone, Counts
<1>InsertEntry. ASSUME InsertEntry(p) PROVE Alone(p)'
  <2> DEFINE d == Insert(Shared, ptr[p], Exclusive(op[p])).c
  <2>1. pc[p] = "insert" /\ ptr'[p] = ptr[p] /\ SetShared(d)
    BY <1>InsertEntry DEF InsertEntry, At, localVars
  <2>2. ptr[p] \in Loose(Shared)
    BY <2>1 DEF DataInv, PointerOf
  <2>3. Carries(Shared, d, Held)
    BY <2>2, InsertKeeps DEF LocalsOK, DataInv
  <2>4. d.gc = {}
    BY <2>1, AloneInserts
  <2> HIDE DEF d
  <2> QED
    BY <2>1, <2>3, <2>4, AloneKept
<1>Crash. ASSUME Crash(p) PROVE Alone(p)'
  BY <1>Crash, <1>0 DEF Crash, Goto, cacheVars, Alone
<1>Tick. ASSUME Tick \/ UNCHANGED vars PROVE Alone(p)'
  <2>1. UNCHANGED <<mem, gc, pc, ptr>>
    BY <1>Tick DEF Tick, vars, cacheVars, localVars
  <2> QED
    BY <2>1 DEF Alone, Counts
<1>continues. ASSUME Continues(p) PROVE Alone(p)'
  BY <1>continues, <1>locals, <1>returns, <1>Sweep, <1>Clear, <1>CheckAvail, <1>CheckContiguous,
     <1>Compact, <1>Delete, <1>Exists, <1>Update, <1>finds, <1>Release, <1>Malloc, <1>Discard,
     <1>InsertEntry DEF Continues
<1>next. ASSUME Next PROVE Alone(p)'
  <2>1. CASE Tick
    BY <2>1, <1>Tick
  <2>2. CASE Calls(p) \/ Continues(p) \/ Crash(p)
    BY <2>2, <1>calls, <1>continues, <1>Crash
  <2> QED
    BY <1>next, <2>1, <2>2 DEF Next
<1> QED
  BY <1>next, <1>Tick

LEMMA ProductGrows ==
  ASSUME NEW s \in Nat, s # 0, NEW n \in Nat
  PROVE  s * n \in Nat /\ n <= s * n
<1>1. PICK r \in Nat : s = r + 1
  <2>1. s - 1 \in Nat /\ s = (s - 1) + 1
    OBVIOUS
  <2> QED
    BY <2>1
<1>2. s * n = r * n + n /\ r * n \in Nat
  BY <1>1
<1> QED
  BY <1>2

\* The expunge asks for at least what the allocation needs.
LEMMA NeedCovers ==
  ASSUME NEW o, o.len \in Lens
  PROVE  Need(o) \in Nat /\ o.len \in Nat /\ o.len <= Need(o)
<1>1. o.len \in Nat /\ o.len > 1 /\ Smart \in Nat
  BY CacheAssumption DEF Hdr
<1>2. CASE Smart = 0
  BY <1>1, <1>2 DEF Need
<1>3. CASE Smart # 0
  <2>1. PICK n \in Nat : n = o.len - 1
    BY <1>1
  <2>2. Smart * n \in Nat /\ n <= Smart * n
    BY <1>1, <1>3, ProductGrows
  <2>3. Need(o) = Smart * n + 1
    BY <1>1, <1>3, <2>1 DEF Need, Hdr
  <2> QED
    BY <1>1, <2>1, <2>2, <2>3
<1> QED
  BY <1>2, <1>3

LEMMA WipedFits ==
  ASSUME DataInv, NEW p \in Proc, Proc = {p}, Alone(p), pc[p] # "dead", ptr[p] = 0,
         SetShared(RealExpunge(Shared)), NEW n \in Nat
  PROVE  n > Cells \/ Fitting(mem', n) # {}
<1>1. DOMAIN mem' = {}
  BY AloneWipes DEF SetShared
<1> QED
  BY <1>1, EmptyFits, CellsAssumption

\* The expunge ended, and there is room for what p stores.
LEMMA EndsRoomy ==
  ASSUME LocalsOK, Control, DataInv, NEW p \in Proc, Proc = {p}, Alone(p),
         pc[p] \in Expunging, EndExpunge(p), UNCHANGED op,
         \/ SetShared(RealExpunge(Shared))
         \/ UNCHANGED mem /\ Fitting(mem, Need(op[p])) # {}
  PROVE  Roomy(p)'
<1>1. ptr[p] = 0 /\ pc[p] # "dead" /\ op[p].len \in Lens
  BY DEF Control, ControlOf, Holding, Expunging, Storing
<1>2. pc'[p] = "malloc" /\ op'[p] = op[p]
  BY DEF EndExpunge, Goto, LocalsOK
<1>3. op[p].len \in Nat /\ Need(op[p]) \in Nat /\ op[p].len <= Need(op[p])
  BY <1>1, NeedCovers
<1>4. op[p].len > Cells \/ Fitting(mem', op[p].len) # {}
  <2>1. CASE SetShared(RealExpunge(Shared))
    BY <1>1, <1>3, <2>1, WipedFits
  <2>2. CASE UNCHANGED mem /\ Fitting(mem, Need(op[p])) # {}
    BY <1>3, <2>2, ShorterFits
  <2> QED
    BY <2>1, <2>2
<1> QED
  BY <1>2, <1>4 DEF Roomy

\* p is not back from an expunge.
LEMMA NotNuked ==
  ASSUME NEW p \in Proc, Roomy(p),
         pc[p] \notin {"malloc", "insert", "discard", "release", "dead"} \/ ~nuked[p],
         nuked'[p] = nuked[p]
  PROVE  Roomy(p)'
BY DEF Roomy

LEMMA RoomyStep ==
  ASSUME ~WLockMayFail, LocalsOK, Control, DataInv, NEW p \in Proc, Proc = {p}, Alone(p),
         Roomy(p), [Next]_vars
  PROVE  Roomy(p)'
<1>0. pc = [q \in Proc |-> pc[q]] /\ nuked = [q \in Proc |-> nuked[q]]
      /\ nuked[p] \in BOOLEAN
  BY DEF LocalsOK
<1>calls. ASSUME Calls(p) PROVE Roomy(p)'
  <2>1. pc[p] \in {"idle", "callback"} /\ nuked'[p] = nuked[p]
    BY <1>calls DEF Calls, Call, localVars
  <2> QED
    BY <2>1, NotNuked
<1>locals. ASSUME \/ Snapshot(p) \/ SkipExpunge(p) \/ Sweep(p) \/ Compact(p) \/ Fetch(p)
                  \/ Exists(p) \/ Misses(p) \/ Delete(p) \/ Clear(p) \/ Update(p)
                  \/ UpdateMisses(p) \/ EntryHit(p) \/ EntryMiss(p) \/ MallocRetries(p)
                  \/ \E ttl \in Ttls, len \in Lens : CallbackReturns(p, ttl, len)
           PROVE  Roomy(p)'
  <2>1. /\ nuked'[p] = nuked[p]
        /\ pc[p] \notin {"malloc", "insert", "discard", "release", "dead"} \/ ~nuked[p]
    BY <1>locals DEF At, localVars, Snapshot, SkipExpunge, Sweep, Compact, Fetch, Exists, Misses,
       Delete, Clear, Update, UpdateMisses, EntryHit, EntryMiss, MallocRetries, CallbackReturns
  <2> QED
    BY <2>1, NotNuked
<1>unlocked. ~InsertUnlocked(p) /\ ~ExpungeUnlocked(p) /\ ~RequestUnlocked(p)
  BY DEF InsertUnlocked, ExpungeUnlocked, RequestUnlocked, LockFails
<1>returns. ASSUME MallocFails(p) \/ Discard(p) \/ Release(p) \/ CallbackThrows(p)
            PROVE  Roomy(p)'
  <2>1. nuked'[p] = FALSE
    BY <1>returns, <1>0 DEF MallocFails, Discard, Release, CallbackThrows, Return
  <2> QED
    BY <2>1 DEF Roomy
<1>stores. ASSUME Malloc(p) \/ InsertEntry(p) PROVE Roomy(p)'
  <2>1. pc'[p] \in {"insert", "release", "discard"}
    BY <1>stores, <1>0 DEF Malloc, InsertEntry, Goto
  <2> QED
    BY <2>1 DEF Roomy
<1>CheckAvail. ASSUME CheckAvail(p) PROVE Roomy(p)'
  <2>1. pc[p] = "avail" /\ UNCHANGED op
    BY <1>CheckAvail DEF CheckAvail, At
  <2>2. CASE Avail(mem) < Need(op[p])
    BY <1>CheckAvail, <2>1, <2>2, EndsRoomy DEF CheckAvail, Expunging
  <2>3. CASE ~(Avail(mem) < Need(op[p]))
    <3>1. nuked'[p] = nuked[p]
      BY <1>CheckAvail, <2>3 DEF CheckAvail, localVars
    <3> QED
      BY <2>1, <3>1, NotNuked
  <2> QED
    BY <2>2, <2>3
<1>CheckContiguous. ASSUME CheckContiguous(p) PROVE Roomy(p)'
  <2>1. pc[p] \in Expunging /\ UNCHANGED op /\ EndExpunge(p)
    BY <1>CheckContiguous DEF CheckContiguous, At, Expunging
  <2>2. \/ SetShared(RealExpunge(Shared))
        \/ UNCHANGED mem /\ Fitting(mem, Need(op[p])) # {}
    BY <1>CheckContiguous DEF CheckContiguous
  <2> QED
    BY <2>1, <2>2, EndsRoomy
<1>Crash. ASSUME Crash(p) PROVE Roomy(p)'
  <2>1. pc'[p] = "dead"
    BY <1>Crash, <1>0 DEF Crash, Goto
  <2> QED
    BY <2>1 DEF Roomy
<1>Tick. ASSUME Tick \/ UNCHANGED vars PROVE Roomy(p)'
  <2>1. UNCHANGED <<mem, pc, op, nuked>>
    BY <1>Tick DEF Tick, vars, cacheVars, localVars
  <2> QED
    BY <2>1 DEF Roomy
<1>continues. ASSUME Continues(p) PROVE Roomy(p)'
  BY <1>continues, <1>locals, <1>unlocked, <1>returns, <1>stores, <1>CheckAvail,
     <1>CheckContiguous DEF Continues
<1>next. ASSUME Next PROVE Roomy(p)'
  <2>1. CASE Tick
    BY <2>1, <1>Tick
  <2>2. CASE Calls(p) \/ Continues(p) \/ Crash(p)
    BY <2>2, <1>calls, <1>continues, <1>Crash
  <2> QED
    BY <1>next, <2>1, <2>2 DEF Next
<1> QED
  BY <1>next, <1>Tick

\* The invariant of a process alone: nobody can keep a reference too long.
LEMMA SafeAlone ==
  ASSUME NEW p \in Proc, Proc = {p}
  PROVE  Spec => [](DataSafe /\ Alone(p))
<1>1. Init => DataSafe /\ Alone(p)
  <2> SUFFICES ASSUME Init PROVE Alone(p)
    BY SafeInit
  <2>1. gc = {} /\ mem = <<>>
    BY DEF Init
  <2> QED
    BY <2>1 DEF Alone, Counts
<1>2. DataSafe /\ Alone(p) /\ [Next]_vars => DataSafe' /\ Alone(p)'
  <2> SUFFICES ASSUME DataSafe, Alone(p), [Next]_vars PROVE DataSafe' /\ Alone(p)'
    OBVIOUS
  <2>1. Alone(p)'
    BY AloneStep DEF DataSafe
  <2>2. Prompt'
    BY <2>1 DEF Prompt, Alone
  <2> QED
    BY <2>1, <2>2, SafeStep DEF Punctual
<1> QED
  BY <1>1, <1>2, PTL DEF Spec

\* A process alone stores everything that fits in the segment, whatever it stored
\* before and whatever the setting of apc.smart: the one expunge that
\* apc_sma_malloc() tries makes enough room.  The write lock does not time out
\* on a process alone: there are no readers to wait for.
THEOREM AloneAlwaysStoresHolds ==
  ASSUME \A p, q \in Proc : p = q, ~WLockMayFail
  PROVE  Spec => []AloneAlwaysStores
<1>1. CASE Proc = {}
  <2>1. AloneAlwaysStores
    BY <1>1 DEF AloneAlwaysStores
  <2> QED
    BY <2>1, PTL
<1>2. CASE Proc # {}
  <2>1. PICK p \in Proc : Proc = {p}
    BY <1>2
  <2>2. Init => Roomy(p)
    BY DEF Init, Roomy
  <2>3. DataSafe /\ Alone(p) /\ Roomy(p) /\ [Next]_vars => Roomy(p)'
    BY <2>1, RoomyStep DEF DataSafe
  <2>4. DataSafe /\ Roomy(p) => AloneAlwaysStores
    <3> SUFFICES ASSUME DataSafe, Roomy(p), NoRoom(p) PROVE op[p].len > Cells
      BY <2>1 DEF AloneAlwaysStores
    <3>1. pc[p] = "malloc" /\ op[p].len \in Nat
      BY CacheAssumption DEF NoRoom, At, DataSafe, Control, ControlOf, Storing
    <3>2. CASE TooLarge(op[p])
      BY <3>1, <3>2, CacheAssumption, CellsAssumption DEF TooLarge
    <3>3. CASE ~TooLarge(op[p])
      BY <3>1, <3>3 DEF NoRoom, Roomy
    <3> QED
      BY <3>2, <3>3
  <2>5. Spec => [](DataSafe /\ Alone(p))
    BY <2>1, SafeAlone
  <2> QED
    BY <2>2, <2>3, <2>4, <2>5, PTL DEF Spec
<1> QED
  BY <1>1, <1>2
=============================================================================
