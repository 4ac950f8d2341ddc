------------------------------- MODULE ApcCache -------------------------------
(***************************************************************************)
(* The shared user cache of apc_cache.c: hash slots of entries, the list   *)
(* of removed entries that are still referenced, reference counts,         *)
(* expiry, garbage collection, the expunge that a failed allocation        *)
(* triggers, and the operations PHP requests run on them concurrently.     *)
(*                                                                         *)
(* One step is one critical section of the cache lock, one of the          *)
(* allocator's lock, or one lock-free access (release, the ncleanups       *)
(* snapshot).  ApcLock shows that the lock is that of a readers/writer     *)
(* lock, ApcSma that the allocator is that of ApcHeap.  Doubly linked      *)
(* lists are sequences of addresses; an entry is known by its address, so  *)
(* that a pointer kept across a move or a free is caught.                  *)
(***************************************************************************)
EXTENDS ApcHeap, Integers, Sequences, SequencesExt

CONSTANTS
  Proc,        \* processes running PHP requests
  Key, SlotOf, \* keys, and the hash slot of each
  Ops,         \* which operations the requests use
  Lens,        \* block lengths of new entries
  Ttls,        \* per-entry ttl arguments (0: none)
  CacheTtl,    \* apc.ttl
  GcTtl,       \* apc.gc_ttl
  Smart,       \* apc.smart
  HeaderCells, \* the cells outside Cells that the cache header took
  WLockMayFail, \* whether the write lock may time out (Windows)
  MaxTime,     \* bound on the clock
  MaxOps,      \* bound on the operations of a process
  MaxCrashes,  \* bound on how many processes are killed
  NoProc

ASSUME CacheAssumption ==
  /\ IsFiniteSet(Proc) /\ NoProc \notin Proc /\ Key # {}
  /\ Lens \subseteq {n \in Nat : n > Hdr} /\ Ttls \subseteq Nat
  /\ CacheTtl \in Nat /\ GcTtl \in Nat
  /\ Smart \in Nat /\ HeaderCells \in Nat
  /\ WLockMayFail \in BOOLEAN
  /\ MaxTime \in Nat /\ MaxOps \in Nat /\ MaxCrashes \in Nat
  /\ Ops \subseteq {"store", "add", "fetch", "exists", "delete", "clear",
                    "inc", "entry"}

VARIABLES
  mem,        \* entries in the segment, by address
  slots,      \* cache->slots: the list of each hash slot
  gc,         \* header->gc: removed entries that were still referenced
  mem_size,   \* header->mem_size
  nentries,   \* header->nentries
  ncleanups,  \* header->ncleanups
  now,        \* the clock
  owner,      \* the process that holds the write lock across steps
  level,      \* APCG(entry_level) of each process: inside apcu_entry()?
  pc,         \* where each process is
  op,         \* the operation it runs
  outer,      \* the key of the apcu_entry() call whose callback it runs
  ptr,        \* the entry it holds a pointer to (0: none)
  nuked,      \* local nuked of apc_sma_malloc()
  snap,       \* locals ncleanups and t of apc_cache_default_expunge()
  missed,     \* history: another expunge ended since the snapshot
  count       \* operations it began

cacheVars == <<mem, slots, gc, mem_size, nentries, ncleanups>>
lockVars == <<owner, level>>
localVars == <<ptr, nuked, snap, missed>>
vars == <<mem, slots, gc, mem_size, nentries, ncleanups, now, owner, level,
          pc, op, outer, ptr, nuked, snap, missed, count>>

Slot == {SlotOf[k] : k \in Key}
Kinds == {"store", "add", "fetch", "exists", "delete", "clear", "inc", "entry"}
PC == (Kinds \ {"store", "add", "inc"}) \cup
      {"idle", "malloc", "snapshot", "expunge", "avail", "compact",
       "contiguous", "insert", "release", "discard", "update", "copy",
       "callback", "dead"}
Time == 0..MaxTime

Entry == [key : Key, val : Nat, len : Lens, ttl : Ttls \cup {0},
          ctime : Time, atime : Time, dtime : Time, ref : Int]

\* t is the time an operation started at, ct the one its entry is created at.
Op == [kind : Kinds \cup {"none", "incagain"}, key : Key, ttl : Ttls \cup {0},
       t : Time, ct : Time, len : Lens \cup {0}]
NoOp == [kind |-> "none", key |-> CHOOSE k \in Key : TRUE, ttl |-> 0,
         t |-> 0, ct |-> 0, len |-> 0]
NoSnap == [n |-> 0, t |-> 0]

TypeOK ==
  /\ mem \in [DOMAIN mem -> Entry] /\ DOMAIN mem \subseteq 1..Cells
  /\ slots \in [Slot -> Seq(DOMAIN mem)]
  /\ gc \subseteq DOMAIN mem
  /\ mem_size \in Nat /\ nentries \in Nat /\ ncleanups \in Nat
  /\ now \in Time
  /\ owner \in Proc \cup {NoProc} /\ level \in [Proc -> {0, 1}]
  /\ pc \in [Proc -> PC] /\ op \in [Proc -> Op] /\ outer \in [Proc -> Key]
  /\ ptr \in [Proc -> 0..Cells]
  /\ nuked \in [Proc -> BOOLEAN] /\ missed \in [Proc -> BOOLEAN]
  /\ snap \in [Proc -> [n : Nat, t : Time]]
  /\ count \in [Proc -> 0..MaxOps]

Init ==
  /\ mem = <<>>
  /\ slots = [s \in Slot |-> <<>>]
  /\ gc = {}
  /\ mem_size = 0 /\ nentries = 0 /\ ncleanups = 0
  /\ now = 0
  /\ owner = NoProc
  /\ level = [p \in Proc |-> 0]
  /\ pc = [p \in Proc |-> "idle"]
  /\ op = [p \in Proc |-> NoOp]
  /\ outer = [p \in Proc |-> NoOp.key]
  /\ ptr = [p \in Proc |-> 0]
  /\ nuked = [p \in Proc |-> FALSE]
  /\ snap = [p \in Proc |-> NoSnap]
  /\ missed = [p \in Proc |-> FALSE]
  /\ count = [p \in Proc |-> 0]

-----------------------------------------------------------------------------
(* Entries and lists.  The functions under the write lock take and return  *)
(* the shared state as a record.                                           *)

Shared == [mem |-> mem, slots |-> slots, gc |-> gc, mem_size |-> mem_size,
           nentries |-> nentries]

SetShared(c) ==
  /\ mem' = c.mem /\ slots' = c.slots /\ gc' = c.gc
  /\ mem_size' = c.mem_size /\ nentries' = c.nentries

HardExpired(e, t) == e.ttl # 0 /\ e.ctime + e.ttl < t
SoftExpired(e, t) == e.ttl = 0 /\ CacheTtl # 0 /\ e.atime + CacheTtl < t
Expired(e, t) == HardExpired(e, t) \/ SoftExpired(e, t)

\* The list s without the entries in A.
Drop(s, A) ==
  LET kept[i \in 0..Len(s)] ==
        IF i = 0 THEN <<>>
        ELSE IF s[i] \in A THEN kept[i - 1] ELSE Append(kept[i - 1], s[i])
  IN  kept[Len(s)]

Bytes(m, A) == MapThenSumSet(LAMBDA a : m[a].len - Hdr, A)

\* "if (n) n -= d"
Minus(n, d) == IF n # 0 THEN n - d ELSE n

Unreferenced(c, A) == {a \in A : c.mem[a].ref <= 0}

\* Mutant: a removed entry that is referenced is not put on the gc list.
RemoveAllLost(c, A) ==
  [c EXCEPT !.mem = Without(@, Unreferenced(c, A)),
            !.slots = [s \in Slot |-> Drop(@[s], A)],
            !.mem_size = Minus(@, Bytes(c.mem, A)),
            !.nentries = Minus(@, Cardinality(A))]

\* Mutant: the header is adjusted only for the entries freed at once.
RemoveAllUncounted(c, A) ==
  LET freed == Unreferenced(c, A)
  IN  [mem |-> [a \in DOMAIN c.mem \ freed |->
                  IF a \in A THEN [c.mem[a] EXCEPT !.dtime = now] ELSE c.mem[a]],
       slots |-> [s \in Slot |-> Drop(c.slots[s], A)],
       gc |-> c.gc \cup (A \ freed),
       mem_size |-> Minus(c.mem_size, Bytes(c.mem, freed)),
       nentries |-> Minus(c.nentries, Cardinality(freed))]

\* Unlink each entry of A; free it, or keep it on the gc list while referenced.
RemoveAll(c, A) ==
  LET freed == Unreferenced(c, A)
  IN  [mem |-> [a \in DOMAIN c.mem \ freed |->
                  IF a \in A THEN [c.mem[a] EXCEPT !.dtime = now] ELSE c.mem[a]],
       slots |-> [s \in Slot |-> Drop(c.slots[s], A)],
       gc |-> c.gc \cup (A \ freed),
       mem_size |-> Minus(c.mem_size, Bytes(c.mem, A)),
       nentries |-> Minus(c.nentries, Cardinality(A))]

\* Mutant: freed as soon as gc_ttl is reached.
OverdueEarly(e) == GcTtl # 0 /\ now - e.dtime >= GcTtl

Overdue(e) == GcTtl # 0 /\ now - e.dtime > GcTtl

\* Mutant: the freed entries stay on the gc list.
GcUnlinkForgotten(c) ==
  LET stays == {a \in c.gc : c.mem[a].ref > 0 /\ ~Overdue(c.mem[a])}
  IN  [c EXCEPT !.mem = Without(@, c.gc \ stays)]

Gc(c) ==
  LET stays == {a \in c.gc : c.mem[a].ref > 0 /\ ~Overdue(c.mem[a])}
  IN  [c EXCEPT !.gc = stays, !.mem = Without(@, c.gc \ stays)]

\* Index of the entry for k in the list s, or one past the end.
Position(c, s, k) ==
  Min({i \in 1..Len(s) : c.mem[s[i]].key = k} \cup {Len(s) + 1})

\* Mutant: a new entry is linked last without looking for its key.
InsertBlindly(c0, a, excl) ==
  LET c == Gc(c0)
  IN  [ok |-> TRUE,
       c |-> [c EXCEPT !.slots[SlotOf[c.mem[a].key]] = Append(@, a),
                       !.mem_size = @ + (c.mem[a].len - Hdr),
                       !.nentries = @ + 1]]

\* The scan removes the expired entries it passes, stops at the entry with
\* the key, and the new entry takes that one's place or goes last.
Insert(c0, a, excl) ==
  LET c == Gc(c0)
      new == c.mem[a]
      slot == SlotOf[new.key]
      s == c.slots[slot]
      i == Position(c, s, new.key)
      found == i <= Len(s)
      passed == SubSeq(s, 1, i - 1)
      stale == {b \in ToSet(passed) : Expired(c.mem[b], new.ctime)}
      ok == ~(found /\ excl /\ ~HardExpired(c.mem[s[i]], new.ctime))
      cut == RemoveAll(c, IF found /\ ok THEN stale \cup {s[i]} ELSE stale)
      linked == Drop(passed, stale) \o <<a>> \o SubSeq(s, i + 1, Len(s))
  IN  [ok |-> ok,
       c |-> IF ok THEN [cut EXCEPT !.slots[slot] = linked,
                                    !.mem_size = @ + (new.len - Hdr),
                                    !.nentries = @ + 1]
             ELSE cut]

AllLinked(c) == UNION {ToSet(c.slots[s]) : s \in Slot}

\* Mutant: the scan steps over the entry that follows a removed one.
RealExpungeSkips(c) ==
  LET odd == UNION {{c.slots[s][i] : i \in {j \in DOMAIN c.slots[s] : j % 2 = 1}} :
                    s \in Slot}
  IN  RemoveAll(c, odd)

\* apc_cache_wlocked_real_expunge()
RealExpunge(c) == [RemoveAll(c, AllLinked(c)) EXCEPT !.nentries = 0]

Lengths(m) == [a \in DOMAIN m |-> m[a].len]

\* Mutant: referenced entries move too.
DefragUnpinned(c) ==
  LET to == Slide(c.mem, {}, Lengths(c.mem))
      Redirect(s) == [i \in DOMAIN s |-> to[s[i]]]
  IN  [c EXCEPT !.mem = Moved(@, to),
                !.slots = [s \in Slot |-> Redirect(c.slots[s])],
                !.gc = {to[a] : a \in @}]

\* apc_sma_defrag(): move_entry() refuses an entry that is referenced and
\* redirects the list links to one that moves.
Defrag(c) ==
  LET to == Slide(c.mem, {a \in DOMAIN c.mem : c.mem[a].ref > 0}, Lengths(c.mem))
      Redirect(s) == [i \in DOMAIN s |-> to[s[i]]]
  IN  [c EXCEPT !.mem = Moved(@, to),
                !.slots = [s \in Slot |-> Redirect(c.slots[s])],
                !.gc = {to[a] : a \in @}]

\* The linked entry for k, hard expired or not: at most one (ListsSound).
Linked(k) == {a \in ToSet(slots[SlotOf[k]]) : mem[a].key = k}

\* Mutant: an entry past its ttl is still found.
FoundAny(k, t) == Linked(k)

Found(k, t) == {a \in Linked(k) : ~HardExpired(mem[a], t)}

-----------------------------------------------------------------------------
(* Control.  A process inside apcu_entry() holds the write lock, and its     *)
(* level makes it pass through every lock operation (apc_cache.h).           *)

At(p, l) == pc[p] = l
Goto(p, l) == pc' = [pc EXCEPT ![p] = l]

\* Mutant: apcu_entry() does not exempt its own process from the lock.
CanLockNever(p) == owner = NoProc

CanLock(p) == level[p] > 0 \/ owner = NoProc
TakeLock(p) == CanLock(p) /\ owner' = p
\* Mutant: the expunge returns without its unlock.
DropLockForgotten(p) == owner' = owner

DropLock(p) == owner' = IF level[p] > 0 THEN owner ELSE NoProc

InCallback(p) == level[p] > 0 /\ op[p].kind # "entry"
\* Mutant: the insertion of apcu_inc() is not exclusive.
ExclusiveNotInc(o) == o.kind \in {"add", "entry"}

Exclusive(o) == o.kind \in {"add", "inc", "entry"}

\* The operation begins: it reads the clock, and goes to its first step.
Call(p, kind, k, ttl, len) ==
  /\ pc[p] \in {"idle", "callback"}
  /\ kind \in Ops /\ (kind = "entry" => At(p, "idle"))
  /\ count[p] < MaxOps /\ count' = [count EXCEPT ![p] = @ + 1]
  /\ op' = [op EXCEPT ![p] = [kind |-> kind, key |-> k, ttl |-> ttl, t |-> now,
                              ct |-> now, len |-> len]]
  /\ Goto(p, CASE kind \in {"store", "add"} -> "malloc"
               [] kind = "inc" -> "update"
               [] OTHER -> kind)
  /\ UNCHANGED <<cacheVars, now, lockVars, outer, localVars>>

\* The operation returns, to the callback if that one made it.
Leave(p) ==
  /\ Goto(p, IF InCallback(p) THEN "callback" ELSE "idle")
  /\ op' = [op EXCEPT ![p] = IF InCallback(p)
                             THEN [NoOp EXCEPT !.kind = "entry", !.key = outer[p]]
                             ELSE NoOp]

\* apc_cache_store() or the fetch of an entry returns: apcu_inc() looks again
\* after its insertion, apcu_entry() gives the lock back.
Return(p) ==
  /\ ptr' = [ptr EXCEPT ![p] = 0]
  /\ nuked' = [nuked EXCEPT ![p] = FALSE]
  /\ snap' = [snap EXCEPT ![p] = NoSnap]
  /\ missed' = [missed EXCEPT ![p] = FALSE]
  /\ IF op[p].kind = "inc"
     THEN /\ Goto(p, "update")
          /\ op' = [op EXCEPT ![p].kind = "incagain"]
          /\ UNCHANGED lockVars
     ELSE /\ Leave(p)
          /\ IF op[p].kind = "entry"
             THEN owner' = NoProc /\ level' = [level EXCEPT ![p] = 0]
             ELSE UNCHANGED lockVars

-----------------------------------------------------------------------------
(* Storing: apc_cache_store() and apc_persist() over apc_sma_malloc() *)

\* A new entry is pinned (ref 1) before the allocator's lock is released.
NewEntry(o) ==
  [key |-> o.key, val |-> 0, len |-> o.len, ttl |-> o.ttl, ctime |-> o.ct,
   atime |-> o.ct, dtime |-> 0, ref |-> 1]

\* max_alloc_size was set while the segment was still empty.
TooLarge(o) == o.len > Cells + HeaderCells

Malloc(p) ==
  /\ At(p, "malloc")
  /\ ~TooLarge(op[p])
  /\ \E a \in Fitting(mem, op[p].len) :
       /\ mem' = With(mem, a, NewEntry(op[p]))
       /\ ptr' = [ptr EXCEPT ![p] = a]
  /\ Goto(p, "insert")
  /\ UNCHANGED <<slots, gc, mem_size, nentries, ncleanups, now, lockVars, op,
                 outer, nuked, snap, missed, count>>

\* No block fits: expunge the cache, but only once.
MallocRetries(p) ==
  /\ At(p, "malloc")
  /\ ~TooLarge(op[p]) /\ Fitting(mem, op[p].len) = {} /\ ~nuked[p]
  /\ Goto(p, "snapshot")
  /\ UNCHANGED <<cacheVars, now, lockVars, op, outer, localVars, count>>

\* Too large for the segment, or still no room after the expunge.
NoRoom(p) ==
  /\ At(p, "malloc")
  /\ TooLarge(op[p]) \/ (Fitting(mem, op[p].len) = {} /\ nuked[p])

MallocFails(p) ==
  /\ NoRoom(p)
  /\ Return(p)
  /\ UNCHANGED <<cacheVars, now, outer, count>>

InsertEntry(p) ==
  /\ At(p, "insert") /\ CanLock(p)
  /\ LET r == Insert(Shared, ptr[p], Exclusive(op[p]))
     IN  SetShared(r.c) /\ Goto(p, IF r.ok THEN "release" ELSE "discard")
  /\ UNCHANGED <<ncleanups, now, lockVars, op, outer, localVars, count>>

\* wlock() gives up when the readers do not drain in time.  Inside apcu_entry()
\* there is no lock to wait for.
LockFails(p, l) == WLockMayFail /\ level[p] = 0 /\ At(p, l)

InsertUnlocked(p) ==
  /\ LockFails(p, "insert")
  /\ Goto(p, "discard")
  /\ UNCHANGED <<cacheVars, now, lockVars, op, outer, localVars, count>>

\* Freed while still pinned, so that defragmentation cannot move it before.
Discard(p) ==
  /\ At(p, "discard")
  /\ mem' = Without(mem, {ptr[p]})
  /\ Return(p)
  /\ UNCHANGED <<slots, gc, mem_size, nentries, ncleanups, now, outer, count>>

\* apc_cache_entry_release(): one atomic decrement, under no lock, of the word
\* the pointer leads to, whatever is there by now.
Release(p) ==
  /\ pc[p] \in {"release", "copy"}
  /\ mem' = IF ptr[p] \in DOMAIN mem
            THEN [mem EXCEPT ![ptr[p]].ref = @ - 1] ELSE mem
  /\ Return(p)
  /\ UNCHANGED <<slots, gc, mem_size, nentries, ncleanups, now, outer, count>>

-----------------------------------------------------------------------------
(* apc_cache_default_expunge(), called by the allocator.  Other processes    *)
(* allocate and free between its steps: they need no cache lock for that.    *)

\* It reads ncleanups and the clock before it takes the lock.
Snapshot(p) ==
  /\ At(p, "snapshot")
  /\ snap' = [snap EXCEPT ![p] = [n |-> ncleanups, t |-> now]]
  /\ missed' = [missed EXCEPT ![p] = FALSE]
  /\ Goto(p, "expunge")
  /\ UNCHANGED <<cacheVars, now, lockVars, op, outer, ptr, nuked, count>>

\* Mutant: the test for an expunge that ended meanwhile is off by one.
CleanedTwice(p) == snap[p].n + 1 < ncleanups

\* Another process cleaned up meanwhile: try again without an expunge.
CleanedMeanwhile(p) == snap[p].n < ncleanups

SkipExpunge(p) ==
  /\ At(p, "expunge") /\ CanLock(p)
  /\ CleanedMeanwhile(p)
  /\ Goto(p, "malloc")
  /\ UNCHANGED <<cacheVars, now, lockVars, op, outer, localVars, count>>

\* It returns 1 without the lock, and the allocation tries once more.
ExpungeUnlocked(p) ==
  /\ LockFails(p, "expunge")
  /\ nuked' = [nuked EXCEPT ![p] = TRUE]
  /\ snap' = [snap EXCEPT ![p] = NoSnap]
  /\ missed' = [missed EXCEPT ![p] = FALSE]
  /\ Goto(p, "malloc")
  /\ UNCHANGED <<cacheVars, now, lockVars, op, outer, ptr, count>>

\* Expired entries go, then the gc list is processed.
Sweep(p) ==
  /\ At(p, "expunge") /\ TakeLock(p)
  /\ ~CleanedMeanwhile(p)
  /\ LET stale == {a \in AllLinked(Shared) : Expired(mem[a], snap[p].t)}
     IN  SetShared(Gc(RemoveAll(Shared, stale)))
  /\ Goto(p, "avail")
  /\ UNCHANGED <<ncleanups, now, level, op, outer, localVars, count>>

\* smart > 1 asks for more room than the allocation needs.
Need(o) == IF Smart > 0 THEN Smart * (o.len - Hdr) + Hdr ELSE o.len

EndExpunge(p) ==
  /\ ncleanups' = ncleanups + 1
  /\ DropLock(p)
  /\ nuked' = [nuked EXCEPT ![p] = TRUE]
  /\ snap' = [snap EXCEPT ![p] = NoSnap]
  /\ missed' = [q \in Proc |-> IF q = p THEN FALSE
                               ELSE missed[q] \/ pc[q] = "expunge"]
  /\ Goto(p, "malloc")

CheckAvail(p) ==
  /\ At(p, "avail")
  /\ IF Avail(mem) < Need(op[p])
     THEN SetShared(RealExpunge(Shared)) /\ EndExpunge(p)
     ELSE /\ Goto(p, "compact")
          /\ UNCHANGED <<cacheVars, owner, localVars>>
  /\ UNCHANGED <<now, level, op, outer, ptr, count>>

Compact(p) ==
  /\ At(p, "compact")
  /\ SetShared(Defrag(Shared))
  /\ Goto(p, "contiguous")
  /\ UNCHANGED <<ncleanups, now, lockVars, op, outer, localVars, count>>

CheckContiguous(p) ==
  /\ At(p, "contiguous")
  /\ IF Fitting(mem, Need(op[p])) = {}
     THEN SetShared(RealExpunge(Shared))
     ELSE UNCHANGED <<mem, slots, gc, mem_size, nentries>>
  /\ EndExpunge(p)
  /\ UNCHANGED <<now, level, op, outer, ptr, count>>

-----------------------------------------------------------------------------
(* Looking up and removing *)

\* Mutant: a plain find, without the increment.
TouchedOnly(a, t, refs) == [mem EXCEPT ![a].atime = t]

Touched(a, t, refs) == [mem EXCEPT ![a].atime = t, ![a].ref = @ + refs]

\* find_incref under the read lock; the value is copied after it.
Fetch(p) ==
  /\ At(p, "fetch") /\ CanLock(p)
  /\ \E a \in Found(op[p].key, op[p].t) :
       /\ mem' = Touched(a, op[p].t, 1)
       /\ ptr' = [ptr EXCEPT ![p] = a]
  /\ Goto(p, "copy")
  /\ UNCHANGED <<slots, gc, mem_size, nentries, ncleanups, now, lockVars, op,
                 outer, nuked, snap, missed, count>>

Exists(p) ==
  /\ At(p, "exists") /\ CanLock(p)
  /\ \E a \in Found(op[p].key, op[p].t) : mem' = Touched(a, op[p].t, 0)
  /\ Leave(p)
  /\ UNCHANGED <<slots, gc, mem_size, nentries, ncleanups, now, lockVars, outer,
                 localVars, count>>

Misses(p) ==
  /\ pc[p] \in {"fetch", "exists"} /\ CanLock(p)
  /\ Found(op[p].key, op[p].t) = {}
  /\ Leave(p)
  /\ UNCHANGED <<cacheVars, now, lockVars, outer, localVars, count>>

Delete(p) ==
  /\ At(p, "delete") /\ CanLock(p)
  /\ SetShared(RemoveAll(Shared, Linked(op[p].key)))
  /\ Leave(p)
  /\ UNCHANGED <<ncleanups, now, lockVars, outer, localVars, count>>

Clear(p) ==
  /\ At(p, "clear") /\ CanLock(p)
  /\ SetShared(RealExpunge(Shared)) /\ ncleanups' = 0
  /\ Leave(p)
  /\ UNCHANGED <<now, lockVars, outer, localVars, count>>

RequestUnlocked(p) ==
  /\ \E l \in {"delete", "clear", "entry"} : LockFails(p, l)
  /\ Leave(p)
  /\ UNCHANGED <<cacheVars, now, lockVars, outer, localVars, count>>

-----------------------------------------------------------------------------
(* apcu_inc(): apc_cache_atomic_update_long() *)

Update(p) ==
  /\ At(p, "update") /\ CanLock(p)
  /\ \E a \in Found(op[p].key, op[p].t) : mem' = [mem EXCEPT ![a].val = @ + 1]
  /\ Leave(p)
  /\ UNCHANGED <<slots, gc, mem_size, nentries, ncleanups, now, lockVars, outer,
                 localVars, count>>

\* Not there: add the key with value 0, once, whoever wins, and look again.
UpdateMisses(p) ==
  /\ At(p, "update") /\ CanLock(p)
  /\ Found(op[p].key, op[p].t) = {}
  /\ IF op[p].kind = "inc"
     THEN Goto(p, "malloc") /\ op' = [op EXCEPT ![p].ct = now]
     ELSE Leave(p)
  /\ UNCHANGED <<cacheVars, now, lockVars, outer, localVars, count>>

-----------------------------------------------------------------------------
(* apcu_entry(): the write lock is held while the callback runs *)

EntryHit(p) ==
  /\ At(p, "entry") /\ TakeLock(p)
  /\ level' = [level EXCEPT ![p] = 1]
  /\ \E a \in Found(op[p].key, op[p].t) :
       /\ mem' = Touched(a, op[p].t, 1)
       /\ ptr' = [ptr EXCEPT ![p] = a]
  /\ Goto(p, "copy")
  /\ UNCHANGED <<slots, gc, mem_size, nentries, ncleanups, now, op, outer,
                 nuked, snap, missed, count>>

EntryMiss(p) ==
  /\ At(p, "entry") /\ TakeLock(p)
  /\ level' = [level EXCEPT ![p] = 1]
  /\ Found(op[p].key, op[p].t) = {}
  /\ outer' = [outer EXCEPT ![p] = op[p].key]
  /\ Goto(p, "callback")
  /\ UNCHANGED <<cacheVars, now, op, localVars, count>>

\* The callback returned a value: store_internal() adds it.
CallbackReturns(p, ttl, len) ==
  /\ At(p, "callback")
  /\ op' = [op EXCEPT ![p] = [kind |-> "entry", key |-> outer[p], ttl |-> ttl,
                              t |-> now, ct |-> now, len |-> len]]
  /\ Goto(p, "malloc")
  /\ UNCHANGED <<cacheVars, now, lockVars, outer, localVars, count>>

\* The callback threw: nothing is stored, the lock is released.
CallbackThrows(p) ==
  /\ At(p, "callback")
  /\ Return(p)
  /\ UNCHANGED <<cacheVars, now, outer, count>>

-----------------------------------------------------------------------------
(* Environment *)

Tick ==
  /\ now < MaxTime
  /\ now' = now + 1
  /\ UNCHANGED <<cacheVars, lockVars, pc, op, outer, localVars, count>>

\* A process is killed between two steps; the lock it may hold is revoked.
Crash(p) ==
  /\ pc[p] \notin {"idle", "dead"}
  /\ Cardinality({q \in Proc : pc[q] = "dead"}) < MaxCrashes
  /\ Goto(p, "dead")
  /\ owner' = IF owner = p THEN NoProc ELSE owner
  /\ UNCHANGED <<cacheVars, now, level, op, outer, localVars, count>>

Calls(p) ==
  \/ \E k \in Key, ttl \in Ttls, len \in Lens, kind \in {"store", "add", "inc"} :
       Call(p, kind, k, ttl, len)
  \/ \E k \in Key, kind \in {"fetch", "exists", "delete", "entry"} :
       Call(p, kind, k, 0, 0)
  \/ Call(p, "clear", NoOp.key, 0, 0)

\* What a process does once its operation began.
Continues(p) ==
  \/ Malloc(p) \/ MallocRetries(p) \/ MallocFails(p)
  \/ InsertEntry(p) \/ InsertUnlocked(p) \/ Discard(p) \/ Release(p)
  \/ Snapshot(p) \/ SkipExpunge(p) \/ ExpungeUnlocked(p) \/ Sweep(p)
  \/ CheckAvail(p) \/ Compact(p) \/ CheckContiguous(p)
  \/ Fetch(p) \/ Exists(p) \/ Misses(p) \/ Delete(p) \/ Clear(p)
  \/ RequestUnlocked(p) \/ Update(p) \/ UpdateMisses(p)
  \/ EntryHit(p) \/ EntryMiss(p) \/ CallbackThrows(p)
  \/ \E ttl \in Ttls, len \in Lens : CallbackReturns(p, ttl, len)

Next ==
  \/ \E p \in Proc : Calls(p) \/ Continues(p) \/ Crash(p)
  \/ Tick

Spec == Init /\ [][Next]_vars

\* A live process keeps running, and callbacks return.
FairSpec == Spec /\ \A p \in Proc : WF_vars(Continues(p))

\* Every live process lets go of a removed entry within apc.gc_ttl.
Prompt ==
  \A p \in Proc : (pc[p] # "dead" /\ ptr[p] \in gc) =>
    now - mem[ptr[p]].dtime <= GcTtl
PromptSpec == Init /\ [][Next /\ (now' # now => Prompt')]_vars

-----------------------------------------------------------------------------
(* Safety *)

\* An entry's reference count is the number of processes that point to it, so
\* every check of ref_count <= 0 in removal, gc and move sees the holders.
RefCountExact ==
  \A a \in DOMAIN mem : mem[a].ref = Cardinality({p \in Proc : ptr[p] = a})

\* While a process holds an entry, from find_incref or allocation to release,
\* the entry is neither freed, nor moved, nor its block reused.
HeldEntryIntact ==
  \A p \in Proc : (ptr[p] # 0 /\ pc[p] # "dead") =>
    ptr[p] \in DOMAIN mem /\ mem[ptr[p]].key = op[p].key

\* Every list is sound: an entry is on one list only, in the slot of its key,
\* and no key is linked twice.
ListsSound ==
  \A s \in Slot :
    /\ ToSet(slots[s]) \cap gc = {}
    /\ \A i, j \in DOMAIN slots[s] :
         /\ SlotOf[mem[slots[s][i]].key] = s
         /\ i # j => mem[slots[s][i]].key # mem[slots[s][j]].key

\* header->nentries and header->mem_size count what the slots link.
Accounting ==
  /\ nentries = Cardinality(AllLinked(Shared))
  /\ mem_size = Bytes(mem, AllLinked(Shared))

\* No two blocks overlap, whatever defragmentation did around pinned ones.
BlocksDisjoint == Disjoint(mem)

\* No block is lost: it is linked, on the gc list, or in the hands of a live
\* process -- unless a process was killed between allocation and insertion.
NoLeak ==
  \A a \in DOMAIN mem :
    a \in AllLinked(Shared) \cup gc \/ \E p \in Proc :
      ptr[p] = a /\ pc[p] \in {"insert", "discard", "dead"}

\* An expunge that has passed its test never works on a snapshot from before
\* another one ended: a burst of failed allocations cleans up once (the comment
\* in default_expunge: "skip processing if another default expunge operation
\* was performed while waiting for the write lock").
OneExpungePerShortage ==
  \A p \in Proc : pc[p] \in {"avail", "compact", "contiguous"} => ~missed[p]

\* A process alone stores everything that fits in the segment: one expunge
\* makes enough room (apc_sma_malloc() tries no second one).
AloneAlwaysStores ==
  \A p \in Proc : NoRoom(p) => op[p].len > Cells

\* A live process holds the write lock exactly inside apcu_entry(), where its
\* level lets it pass every lock operation, and between the steps of an expunge:
\* no way out of an operation, a thrown exception or a failed store included,
\* keeps the lock, leaves the level up without it, or keeps a reference.
LockExact ==
  \A p \in Proc :
    /\ pc[p] # "dead" =>
         (owner = p <=> level[p] > 0 \/ pc[p] \in {"avail", "compact", "contiguous"})
    /\ pc[p] = "idle" => level[p] = 0 /\ ptr[p] = 0

-----------------------------------------------------------------------------
(* Liveness and refinement *)

\* From some time on nobody begins an operation.
CallsStop == <>[][UNCHANGED count]_count

\* If only finitely many operations begin, every one ends: no allocation goes on
\* expunging and retrying, and no store inside apcu_entry() waits for the lock
\* its own process holds.  The condition is needed: the lock is not fair, and an
\* expunge that is skipped does not count as the one retry, so calls of others
\* that never stop may hold an operation up for ever.
EveryOpEnds ==
  CallsStop => \A p \in Proc : pc[p] # "idle" ~> pc[p] \in {"idle", "dead"}

\* What a step of a process is about to do to the table of linked entries.
Request(p) ==
  LET o == op[p]
      On(what) == [do |-> what, key |-> o.key, t |-> o.t]
  IN  CASE At(p, "insert") ->
             [do |-> IF o.kind = "store" THEN "store" ELSE "add", key |-> o.key,
              ttl |-> o.ttl, t |-> o.ct]
        [] At(p, "delete") -> On("delete")
        [] At(p, "update") -> On("bump")
        [] pc[p] \in {"fetch", "exists", "entry"} -> On("touch")
        [] pc[p] \in {"clear", "avail", "contiguous"} -> [do |-> "wipe"]
        [] At(p, "expunge") -> [do |-> "expire", t |-> snap[p].t]
        [] OTHER -> [do |-> "none"]

Item(e) == [val |-> e.val, ttl |-> e.ttl, ctime |-> e.ctime, atime |-> e.atime]

\* An absent key is shown by a value that is no item.
ASSUME AbsentAssumption ==
  NoProc \notin [val : Nat, ttl : Nat, ctime : Nat, atime : Nat]

\* The table that the linked entries amount to, and all requests.
View == [k \in Key |-> IF Linked(k) = {} THEN NoProc
                       ELSE Item(mem[CHOOSE a \in Linked(k) : TRUE])]
Requests == [p \in Proc |-> Request(p)]

Table == INSTANCE ApcTable WITH
  Absent <- NoProc, table <- View, req <- Requests

\* The cache implements the table: whatever the interleaving, an entry changes
\* or goes only by a request that says so, by expiry, or in a full wipe.
ImplementsTable == Table!Spec
=============================================================================
