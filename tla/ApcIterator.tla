----------------------------- MODULE ApcIterator -----------------------------
(***************************************************************************)
(* APCUIterator (apc_iterator.c): a script walks over the user cache, or   *)
(* over its gc list, in chunks that are copied under the read lock, while  *)
(* other processes store, remove and collect between the chunks.  It also  *)
(* asks for totals, and hands the iterator to apcu_delete().               *)
(*                                                                         *)
(* The cache is its table of linked entries, at most one for each key      *)
(* (ListsSound of ApcCache), and the gc list, newest first.  A hash slot   *)
(* is always fetched as a whole, so the order within it is left open.  The *)
(* gc list is kept only for an iterator that reads it.                     *)
(***************************************************************************)
EXTENDS Naturals, Sequences, SequencesExt, FiniteSets

CONSTANTS
  Key, NSlots, SlotOf,  \* keys, cache->nslots, and the slot of each
  Match,        \* the keys that the regex or the search array accepts
  ChunkSize,    \* iterator->chunk_size
  Lists,        \* which lists are iterated: "active", "deleted"
  Ttls,         \* ttl arguments of the stores (0: none)
  Careful,      \* the script calls next() only where there is an item
  MaxTime,      \* bound on the clock
  MaxStores,    \* bound on the stores of the other processes
  MaxCalls,     \* bound on the calls of rewind() and apcu_delete()
  MaxGc,        \* bound on the length of the gc list
  Absent

ASSUME IteratorAssumption ==
  /\ IsFiniteSet(Key)
  /\ NSlots \in Nat \ {0} /\ SlotOf \in [Key -> 0..(NSlots - 1)]
  /\ Match \subseteq Key /\ Absent \notin Key
  /\ ChunkSize \in Nat \ {0}
  /\ Lists \subseteq {"active", "deleted"} /\ Ttls \subseteq Nat
  /\ Careful \in BOOLEAN
  /\ MaxTime \in Nat /\ MaxStores \in Nat /\ MaxCalls \in Nat /\ MaxGc \in Nat

VARIABLES
  table,     \* the linked entry of each key: [id, ttl, ctime], or Absent
  gc,        \* keys of the removed entries that are still referenced
  now,       \* the clock
  stores,    \* number of stores so far
  list,      \* which fetch function the constructor chose
  slot_idx, stack, stack_idx,  \* fields of the iterator
  totals,    \* iterator->count once totals_flag is set, else Absent
  pc,        \* "script", "fetch" or "totals" (t is read), "items" (deleting)
  call,      \* the method that called fetch()
  t,         \* local t of the fetch or the totals
  calls,     \* number of rewinds and deletions
  pass,      \* history: what pass over the active list this is
  through,   \* history: keys that were live ever since the pass began
  visited,   \* history: keys of the items the script has passed, up to the
             \* first one that comes again
  since,     \* history: stores when the pass began
  calm       \* history: pass and totals saw one and the same table

cacheVars == <<table, gc, now, stores>>
itVars == <<list, slot_idx, stack, stack_idx, totals>>
control == <<pc, call, t, calls>>
history == <<pass, through, visited, since, calm>>
vars == <<table, gc, now, stores, list, slot_idx, stack, stack_idx, totals,
          pc, call, t, calls, pass, through, visited, since, calm>>

Entry == [id : 0..MaxStores, ttl : Ttls, ctime : 0..MaxTime]
Methods == {"rewind", "valid", "current", "delete"}
Passes == {"none", "on", "ended", "deleting", "deleted", "gaveup"}
NotCalm == [pass |-> FALSE, totals |-> FALSE]

TypeOK ==
  /\ table \in [Key -> Entry \cup {Absent}] /\ gc \in Seq(Key)
  /\ now \in 0..MaxTime /\ stores \in 0..MaxStores
  /\ list \in Lists
  /\ slot_idx \in Nat /\ stack \in Seq(Match) /\ stack_idx \in Nat
  /\ list = "active" => slot_idx <= NSlots
  /\ totals \in Nat \cup {Absent}
  /\ pc \in {"script", "fetch", "totals", "items"}
  /\ call \in Methods /\ t \in 0..now /\ calls \in 0..MaxCalls
  /\ pass \in Passes /\ through \subseteq Key /\ visited \in Seq(Match)
  /\ since \in 0..MaxStores
  /\ calm \in [pass : BOOLEAN, totals : BOOLEAN]

\* The iterator is new; its list argument is one of those given.
Init ==
  /\ table \in [Key -> [id : {0}, ttl : Ttls, ctime : {0}] \cup {Absent}]
  /\ gc = <<>> /\ now = 0 /\ stores = 0
  /\ list \in Lists
  /\ slot_idx = 0 /\ stack = <<>> /\ stack_idx = 0 /\ totals = Absent
  /\ pc = "script" /\ call = "valid" /\ t = 0 /\ calls = 0
  /\ pass = "none" /\ through = {} /\ visited = <<>> /\ since = 0
  /\ calm = NotCalm

-----------------------------------------------------------------------------
(* What a fetch copies *)

\* apc_iterator_check_expiry() of the entry linked for k
Unexpired(k, time) ==
  table[k].ttl = 0 \/ table[k].ctime + table[k].ttl >= time

Live(time) == {k \in Key : table[k] # Absent /\ Unexpired(k, time)}

\* The keys to copy in the slots from i up to j (counting from 0).
Chunk(i, j, time) == {k \in Live(time) \cap Match : SlotOf[k] \in i..(j - 1)}

\* Slots are taken whole until the chunk has its size.
ChunkEnd(i, time) ==
  LET full == {j \in i..NSlots : Cardinality(Chunk(i, j, time)) >= ChunkSize}
  IN  IF full = {} THEN NSlots ELSE CHOOSE j \in full : \A x \in full : j <= x

\* In which order is left open.
Items(upto) == SetToSeq(Chunk(slot_idx, upto, t))

\* Mutant: the chunk is cut at its size, within a slot.
FetchActiveCuts ==
  LET upto == ChunkEnd(slot_idx, t)
      all == Items(upto)
  IN  /\ stack' = SubSeq(all, 1, IF Len(all) < ChunkSize THEN Len(all) ELSE ChunkSize)
      /\ slot_idx' = upto /\ stack_idx' = 0

\* Mutant: the index is not set back.
FetchActiveKeepsIndex ==
  LET upto == ChunkEnd(slot_idx, t)
  IN  /\ stack' = Items(upto)
      /\ slot_idx' = upto /\ UNCHANGED stack_idx

\* Mutant: the slot after a full chunk is passed over.
FetchActiveSkips ==
  LET upto == ChunkEnd(slot_idx, t)
  IN  /\ stack' = Items(upto)
      /\ slot_idx' = IF stack' = <<>> THEN upto ELSE upto + 1
      /\ stack_idx' = 0

\* Mutant: the slot at which the chunk was full is fetched again.
FetchActiveRepeats ==
  LET upto == ChunkEnd(slot_idx, t)
  IN  /\ stack' = Items(upto)
      /\ slot_idx' = IF Len(Items(upto)) >= ChunkSize
                     THEN upto - 1 ELSE upto
      /\ stack_idx' = 0

FetchActive ==
  LET upto == ChunkEnd(slot_idx, t)
  IN  /\ stack' = Items(upto)
      /\ slot_idx' = upto /\ stack_idx' = 0

\* The keys of s that match, in order.
Matching(s) ==
  LET got[i \in 0..Len(s)] == IF i = 0 THEN <<>>
                              ELSE IF s[i] \in Match THEN Append(got[i - 1], s[i])
                              ELSE got[i - 1]
  IN  got[Len(s)]

\* One more entry than slot_idx is skipped, the stack keeps its old items.
FetchDeleted ==
  LET rest == Matching(SubSeq(gc, slot_idx + 2, Len(gc)))
      got == SubSeq(rest, 1, IF Len(rest) < ChunkSize THEN Len(rest) ELSE ChunkSize)
  IN  /\ stack' = stack \o got
      /\ slot_idx' = slot_idx + Len(got) /\ stack_idx' = 0

Fetch == IF list = "active" THEN FetchActive ELSE FetchDeleted

\* What fetch() returns: the number of items it added.
Fetched == IF list = "active" THEN Len(stack') ELSE Len(stack') - Len(stack)

-----------------------------------------------------------------------------
(* The methods.  A method that needs a fetch reads the clock first, and then *)
(* waits for the read lock.                                                  *)

Empty == Len(stack) = stack_idx

StartFetch(method) == pc' = "fetch" /\ call' = method /\ t' = now

NoChange == UNCHANGED <<pc, call, t>>

rewind ==
  /\ pc = "script" /\ calls < MaxCalls /\ calls' = calls + 1
  /\ slot_idx' = 0 /\ stack_idx' = 0
  /\ StartFetch("rewind")
  /\ IF list = "active"
     THEN /\ pass' = "on" /\ through' = Live(now) /\ visited' = <<>>
          /\ since' = stores /\ calm' = [calm EXCEPT !.pass = TRUE]
     ELSE UNCHANGED history
  /\ UNCHANGED <<cacheVars, list, stack, totals>>

\* valid() returns whether the stack is not empty.
Answer(items) == pass' = IF pass = "on" /\ items = <<>> THEN "ended" ELSE pass

valid ==
  /\ pc = "script"
  /\ IF Empty
     THEN StartFetch("valid") /\ UNCHANGED pass
     ELSE Answer(stack) /\ NoChange
  /\ UNCHANGED <<cacheVars, itVars, calls, through, visited, since, calm>>

\* current() and key(): the item at stack_idx, after a fetch if there is none.
current ==
  /\ pc = "script" /\ Empty
  /\ StartFetch("current")
  /\ UNCHANGED <<cacheVars, itVars, calls, history>>

next ==
  /\ pc = "script" /\ stack # <<>>
  /\ Careful => stack_idx < Len(stack)
  /\ stack_idx' = stack_idx + 1
  /\ visited' = IF pass = "on" /\ stack_idx < Len(stack) /\ IsInjective(visited)
                THEN Append(visited, stack[stack_idx + 1]) ELSE visited
  /\ UNCHANGED <<cacheVars, list, slot_idx, stack, totals, control, pass, through,
                 since, calm>>

\* getTotalCount(), and its sisters, unless totals_flag is set.  They read the
\* slots whatever the list is, and are followed for the active one.
getTotalCount ==
  /\ pc = "script" /\ list = "active" /\ totals = Absent
  /\ pc' = "totals" /\ t' = now
  /\ calm' = [calm EXCEPT !.totals = TRUE]
  /\ UNCHANGED <<cacheVars, itVars, call, calls, pass, through, visited, since>>

CountTotals ==
  /\ pc = "totals"
  /\ totals' = Cardinality(Live(t) \cap Match)
  /\ pc' = "script"
  /\ UNCHANGED <<cacheVars, list, slot_idx, stack, stack_idx, call, t, calls, history>>

\* The body of fetch() under the read lock, and the return of the method.
FetchChunk ==
  /\ pc = "fetch" /\ Fetch
  /\ CASE call = "valid" -> Answer(stack') /\ pc' = "script"
       [] call = "delete" ->
            /\ pc' = IF Fetched = 0 THEN "script" ELSE "items"
            /\ pass' = IF pass = "deleting" /\ Fetched = 0 THEN "deleted" ELSE pass
       [] OTHER -> pc' = "script" /\ UNCHANGED pass
  /\ UNCHANGED <<cacheVars, list, totals, call, t, calls, through, visited, since,
                 calm>>

-----------------------------------------------------------------------------
(* apc_iterator_delete(): fetch until nothing comes, delete each item's key  *)

\* Are the entries that go still referenced, so that they go to the gc list?
Pinned == IF list = "deleted" /\ Len(gc) < MaxGc THEN BOOLEAN ELSE {FALSE}

Unlink(keys, held) ==
  /\ table' = [k \in Key |-> IF k \in keys THEN Absent ELSE table[k]]
  /\ gc' = IF held THEN SetToSeq({k \in keys : table[k] # Absent}) \o gc ELSE gc

\* Keys seen live ever since; a change ends the calm.
Watched ==
  /\ through' = {k \in through : table'[k] # Absent /\
                  (table'[k].ttl = 0 \/ table'[k].ctime + table'[k].ttl >= now')}
  /\ calm' = NotCalm

apcu_delete ==
  /\ pc = "script" /\ calls < MaxCalls /\ calls' = calls + 1
  /\ StartFetch("delete")
  /\ IF list = "active" /\ slot_idx = 0
     THEN pass' = "deleting" /\ since' = stores
     ELSE pass' = "none" /\ UNCHANGED since
  /\ UNCHANGED <<cacheVars, itVars, through, visited, calm>>

\* apc_cache_delete() of the next item, under the write lock.
DeleteItem(held) ==
  /\ pc = "items" /\ ~Empty
  /\ Unlink({stack[stack_idx + 1]}, held)
  /\ stack_idx' = stack_idx + 1
  /\ UNCHANGED <<now, stores>>
  /\ Watched
  /\ UNCHANGED <<list, slot_idx, stack, totals, control, pass,
                 visited, since>>

\* The write lock timed out: the return value of apc_cache_delete() is ignored.
DeleteItemUnlocked ==
  /\ pc = "items" /\ ~Empty
  /\ stack_idx' = stack_idx + 1
  /\ pass' = IF pass = "deleting" THEN "gaveup" ELSE pass
  /\ UNCHANGED <<cacheVars, list, slot_idx, stack, totals, control, through,
                 visited, since, calm>>

\* Mutant: an if in place of the while around fetch().
DeleteOneChunk ==
  /\ pc = "items" /\ Empty
  /\ pc' = "script" /\ UNCHANGED <<call, t>>
  /\ pass' = IF pass = "deleting" THEN "deleted" ELSE pass
  /\ UNCHANGED <<cacheVars, itVars, calls, through, visited, since, calm>>

DeleteMore ==
  /\ pc = "items" /\ Empty
  /\ StartFetch("delete")
  /\ UNCHANGED <<cacheVars, itVars, calls, history>>

-----------------------------------------------------------------------------
(* Other processes, between two steps of the iterator *)

\* Insertion: expired entries that the scan of the slot meets go, the entry
\* with the key is replaced.
Store(k, ttl, held) ==
  /\ stores < MaxStores /\ stores' = stores + 1
  /\ \E gone \in SUBSET {x \in Key \ (Live(now) \cup {k}) : SlotOf[x] = SlotOf[k]} :
       /\ gc' = IF held THEN SetToSeq({x \in gone \cup {k} : table[x] # Absent}) \o gc
                ELSE gc
       /\ table' = [x \in Key |->
            IF x = k THEN [id |-> stores', ttl |-> ttl, ctime |-> now]
            ELSE IF x \in gone THEN Absent ELSE table[x]]
  /\ UNCHANGED now
  /\ Watched
  /\ UNCHANGED <<itVars, control, pass, visited, since>>

\* A deletion, or an expunge of everything.
Vanish(keys, held) ==
  /\ keys = Key \/ Cardinality(keys) = 1
  /\ \E k \in keys : table[k] # Absent
  /\ Unlink(keys, held)
  /\ UNCHANGED <<now, stores>>
  /\ Watched
  /\ UNCHANGED <<itVars, control, pass, visited, since>>

\* Garbage collection frees an entry of the gc list.
Collect(i) ==
  /\ gc' = RemoveAt(gc, i)
  /\ UNCHANGED <<table, now, stores, itVars, control, history>>

Tick ==
  /\ now < MaxTime /\ now' = now + 1
  /\ UNCHANGED <<table, gc, stores>>
  /\ Watched
  /\ UNCHANGED <<itVars, control, pass, visited, since>>

\* What follows of itself once a method was called.
Continues ==
  \/ FetchChunk \/ CountTotals \/ DeleteItemUnlocked \/ DeleteMore
  \/ \E held \in Pinned : DeleteItem(held)
Script == rewind \/ valid \/ current \/ next \/ getTotalCount \/ apcu_delete
Others ==
  \/ \E k \in Key, ttl \in Ttls, held \in Pinned : Store(k, ttl, held)
  \/ \E keys \in SUBSET Key, held \in Pinned : Vanish(keys, held)
  \/ \E i \in DOMAIN gc : Collect(i)
  \/ Tick

Next == Script \/ Continues \/ Others

Spec == Init /\ [][Next]_vars

\* A loop over the iterator goes on: it asks valid() again and again, and calls
\* next() on the items.
FairSpec == Spec /\ WF_vars(Continues) /\ SF_vars(valid) /\ WF_vars(next)

-----------------------------------------------------------------------------
(* Properties *)

\* The index never runs past the stack, over either list, so that the assertion
\* of apc_stack_get() (size > n) holds after the test of current(): however the
\* list changes between the fetches, as long as next() is called on an item.
InBounds == stack_idx <= Len(stack)

\* A pass visits no key twice, and at its end it has visited each key that was
\* live all the time -- though its entry may have been replaced, and entries
\* in the same and other slots came and went between the chunks. If nothing
\* changed meanwhile, getTotalCount() counts what a pass visits: the two loops
\* over the slots choose the same entries.
PassExact ==
  /\ IsInjective(visited)
  /\ pass = "ended" => (through \cap Match) \subseteq ToSet(visited)
  /\ (pass = "ended" /\ calm.pass /\ calm.totals /\ totals # Absent)
       => totals = Len(visited)

\* apcu_delete() with a new iterator leaves, of the entries that the iterator
\* matches, only those that expired or that others stored after it began -- if
\* no deletion gave up on the write lock.
DeleteLeavesOnlyNewer ==
  pass = "deleted" =>
    \A k \in Live(now) \cap Match : table[k].id > since

\* However much the others store, a loop over the active list ends, and so does
\* apcu_delete() of an iterator.
WalksEnd ==
  /\ pass = "on" ~> pass # "on"
  /\ pass = "deleting" ~> pass # "deleting"
=============================================================================
