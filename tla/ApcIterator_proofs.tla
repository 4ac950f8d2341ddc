-------------------------- MODULE ApcIterator_proofs --------------------------
(***************************************************************************)
(* The iterator, for any keys, slots, chunk size, clock and numbers of     *)
(* stores and calls: what a pass visits, and what a deletion leaves.       *)
(***************************************************************************)
EXTENDS ApcIterator, ApcInduction

-----------------------------------------------------------------------------
(* Sequences *)

\* An enumeration of a finite set lists each element once.
LEMMA Enumerated ==
  ASSUME NEW S, IsFiniteSet(S)
  PROVE  /\ SetToSeq(S) \in Seq(S) /\ IsInjective(SetToSeq(S))
         /\ ToSet(SetToSeq(S)) = S
<1> DEFINE n == Cardinality(S)
<1>1. n \in Nat /\ ExistsBijection(1..n, S)
  BY FS_CardinalityType
<1>2. \E f \in [1..n -> S] : IsInjective(f)
  BY <1>1 DEF ExistsBijection, Bijection, Injection, IsInjective
<1>3. SetToSeq(S) \in [1..n -> S] /\ IsInjective(SetToSeq(S))
  BY <1>2 DEF SetToSeq
<1>4. SetToSeq(S) \in Injection(1..n, S)
  BY <1>3 DEF Injection
<1>5. Cardinality(1..n) = n
  BY <1>1, FS_Interval
<1> HIDE DEF n
<1>6. SetToSeq(S) \in Surjection(1..n, S)
  BY <1>4, <1>5, FS_Injection DEF n
<1>7. \A x \in S : \E i \in 1..n : SetToSeq(S)[i] = x
  BY <1>6 DEF Surjection
<1>8. SetToSeq(S) \in Seq(S)
  BY <1>1, <1>3
<1>9. ToSet(SetToSeq(S)) = S
  BY <1>3, <1>7 DEF ToSet
<1> QED
  BY <1>3, <1>8, <1>9

\* A sequence without repetitions is as long as it has elements.
LEMMA LengthCounts ==
  ASSUME NEW S, NEW s \in Seq(S), IsInjective(s)
  PROVE  Cardinality(ToSet(s)) = Len(s)
<1>1. Len(s) \in Nat /\ DOMAIN s = 1..Len(s)
  OBVIOUS
<1>2. s \in Bijection(1..Len(s), ToSet(s))
  BY <1>1 DEF Bijection, Injection, Surjection, IsInjective, ToSet
<1>3. ExistsBijection(1..Len(s), ToSet(s))
  BY <1>2 DEF ExistsBijection
<1> QED
  BY <1>1, <1>3, FS_CountingElements

LEMMA Listed ==
  ASSUME NEW S, NEW s \in Seq(S)
  PROVE  /\ ToSet(s) = {s[i] : i \in 1..Len(s)} /\ ToSet(s) \subseteq S
         /\ ToSet(s) = {} <=> s = <<>>
BY DEF ToSet

\* One more element, that was not listed before.
LEMMA OneMore ==
  ASSUME NEW S, NEW s \in Seq(S), NEW x \in S
  PROVE  /\ Append(s, x) \in Seq(S) /\ ToSet(Append(s, x)) = ToSet(s) \cup {x}
         /\ IsInjective(s) /\ x \notin ToSet(s) => IsInjective(Append(s, x))
<1> DEFINE r == Append(s, x)
<1>1. /\ r \in Seq(S) /\ Len(r) = Len(s) + 1 /\ r[Len(s) + 1] = x
      /\ \A i \in 1..Len(s) : r[i] = s[i]
  OBVIOUS
<1> HIDE DEF r
<1>2. DOMAIN r = 1..(Len(s) + 1) /\ DOMAIN s = 1..Len(s) /\ Len(s) \in Nat
  BY <1>1
<1>3. \A i \in 1..(Len(s) + 1) : i \in 1..Len(s) \/ i = Len(s) + 1
  BY <1>2
<1>4. \A i \in 1..Len(s) : i \in 1..(Len(s) + 1)
  BY <1>2
<1>5. Len(s) + 1 \in 1..(Len(s) + 1)
  BY <1>2
<1>6. ToSet(r) = ToSet(s) \cup {x}
  BY <1>1, <1>2, <1>3, <1>4, <1>5 DEF ToSet
<1>7. IsInjective(s) /\ x \notin ToSet(s) => IsInjective(r)
  BY <1>1, <1>2, <1>3 DEF ToSet, IsInjective
<1> QED
  BY <1>1, <1>6, <1>7 DEF r

\* The keys that match in the first i of s, when g gives those of fewer.
MatchedOf(s, g, i) ==
  IF i = 0 THEN <<>> ELSE IF s[i] \in Match THEN Append(g[i - 1], s[i]) ELSE g[i - 1]

LEMMA MatchingExists ==
  ASSUME NEW s \in Seq(Key)
  PROVE  \E g : g = [i \in 0..Len(s) |-> MatchedOf(s, g, i)]
<1> DEFINE Upto == {n \in 0..Len(s) : \E g : g = [i \in 0..n |-> MatchedOf(s, g, i)]}
<1>1. 0 \in Upto
  <2> DEFINE g == [i \in 0..0 |-> <<>>]
  <2>1. g = [i \in 0..0 |-> MatchedOf(s, g, i)]
    BY DEF MatchedOf
  <2> QED
    BY <2>1
<1>2. ASSUME NEW n \in 1..Len(s), n - 1 \in Upto PROVE n \in Upto
  <2>1. PICK g : g = [i \in 0..(n - 1) |-> MatchedOf(s, g, i)]
    BY <1>2
  <2> DEFINE f == [i \in 0..n |-> MatchedOf(s, g, i)]
  <2>2. \A i \in 0..(n - 1) : f[i] = g[i]
    BY <2>1
  <2>3. \A i \in 0..n : i # 0 => i - 1 \in 0..(n - 1)
    OBVIOUS
  <2>4. \A i \in 0..n : MatchedOf(s, f, i) = MatchedOf(s, g, i)
    <3> HIDE DEF f
    <3> QED
      BY <2>2, <2>3 DEF MatchedOf
  <2>5. f = [i \in 0..n |-> MatchedOf(s, f, i)]
    BY <2>4
  <2> HIDE DEF f
  <2> QED
    BY <2>5
<1> HIDE DEF Upto
<1>3. Len(s) \in Nat /\ \A n \in 1..Len(s) : n - 1 \in Upto => n \in Upto
  BY <1>2
<1>4. 0..Len(s) \subseteq Upto
  BY <1>1, <1>3, StepByStep
<1> QED
  BY <1>3, <1>4 DEF Upto

LEMMA MatchingMatches ==
  ASSUME NEW s \in Seq(Key)
  PROVE  Matching(s) \in Seq(Match)
<1> DEFINE g == CHOOSE g : g = [i \in 0..Len(s) |-> MatchedOf(s, g, i)]
<1>1. g = [i \in 0..Len(s) |-> MatchedOf(s, g, i)]
  BY MatchingExists
<1>2. Matching(s) = g[Len(s)]
  BY DEF Matching, MatchedOf
<1> HIDE DEF g
<1> DEFINE Good == {n \in 0..Len(s) : g[n] \in Seq(Match)}
<1>3. 0 \in Good
  BY <1>1 DEF MatchedOf
<1>4. ASSUME NEW n \in 1..Len(s), n - 1 \in Good PROVE n \in Good
  <2>1. n \in 0..Len(s) /\ g[n - 1] \in Seq(Match)
    BY <1>4
  <2>2. g[n] = IF s[n] \in Match THEN Append(g[n - 1], s[n]) ELSE g[n - 1]
    <3>1. g[n] = MatchedOf(s, g, n)
      BY <1>1, <2>1
    <3> QED
      BY <3>1 DEF MatchedOf
  <2>3. s[n] \in Match => Append(g[n - 1], s[n]) \in Seq(Match)
    BY <2>1
  <2> QED
    BY <2>1, <2>2, <2>3
<1> HIDE DEF Good
<1>5. Len(s) \in Nat /\ \A n \in 1..Len(s) : n - 1 \in Good => n \in Good
  BY <1>4
<1>6. 0..Len(s) \subseteq Good
  BY <1>3, <1>5, StepByStep
<1> QED
  BY <1>2, <1>5, <1>6 DEF Good

-----------------------------------------------------------------------------
(* The inductive invariants *)

\* A deletion that goes through its items is within the stack.
TypeInv == TypeOK /\ (pc = "items" => stack_idx <= Len(stack))

\* The items of the stack that are still to come.  A method that fetches found
\* none of use.
Left == IF pc = "fetch" THEN {} ELSE {stack[i] : i \in (stack_idx + 1)..Len(stack)}

Seen == ToSet(visited)

\* What was visited and what is to come lies in the slots before slot_idx, and
\* of the keys in these slots none is missing that was live all the time.
Walk ==
  /\ list = "active" /\ pc # "items"
  /\ pc = "fetch" => call # "delete"
  /\ pc # "fetch" => IsInjective(stack)
  /\ Seen \cap Left = {}
  /\ \A k \in Seen \cup Left : SlotOf[k] < slot_idx
  /\ \A k \in through \cap Match : SlotOf[k] < slot_idx => k \in Seen \cup Left

PassInv ==
  /\ IsInjective(visited)
  /\ stack = <<>> => stack_idx = 0
  /\ through \subseteq Live(now)
  /\ pass = "on" => Walk
  /\ pass = "ended" => (through \cap Match) \subseteq Seen

\* As long as nothing changed, what is visited is live.
CalmInv ==
  /\ calm.pass /\ pass \in {"on", "ended"} => Seen \subseteq Live(now) /\ Live(now) \subseteq through
  /\ calm.pass /\ pass = "on" => Left \subseteq Live(now) /\ (pc = "fetch" => t = now)
  /\ calm.totals /\ totals # Absent => totals = Cardinality(Live(now) \cap Match)
  /\ calm.totals /\ pc = "totals" => t = now

\* An old entry has its turn still to come.
DeleteInv ==
  /\ since <= stores
  /\ pass = "deleting" =>
       /\ list = "active" /\ pc \in {"fetch", "items"} /\ call = "delete"
       /\ \A k \in Live(now) \cap Match :
            table[k].id > since \/ SlotOf[k] >= slot_idx \/ k \in Left
  /\ DeleteLeavesOnlyNewer

-----------------------------------------------------------------------------
(* The chunks *)

LEMMA ChunkFinite ==
  ASSUME NEW i, NEW j, NEW u
  PROVE  /\ Chunk(i, j, u) \subseteq Match /\ IsFiniteSet(Chunk(i, j, u))
         /\ IsFiniteSet(Live(u) \cap Match)
<1>1. Chunk(i, j, u) \in SUBSET Key /\ Live(u) \cap Match \in SUBSET Key
  BY IteratorAssumption DEF Chunk
<1>2. Chunk(i, j, u) \subseteq Match
  BY DEF Chunk
<1> QED
  BY <1>1, <1>2, FS_Subset, IteratorAssumption

\* The slots are taken up to the first that fills the chunk, and all of them if
\* there is nothing to copy.
LEMMA ChunkEnds ==
  ASSUME NEW i \in 0..NSlots, NEW u
  PROVE  /\ ChunkEnd(i, u) \in i..NSlots
         /\ Chunk(i, ChunkEnd(i, u), u) = {} => ChunkEnd(i, u) = NSlots
<1> DEFINE full == {j \in i..NSlots : Cardinality(Chunk(i, j, u)) >= ChunkSize}
<1>1. NSlots \in Nat /\ ChunkSize \in Nat \ {0} /\ i \in Nat
  BY IteratorAssumption
<1>2. CASE full = {}
  BY <1>1, <1>2 DEF ChunkEnd
<1>3. CASE full # {}
  <2>1. full \in SUBSET Nat
    BY <1>1
  <2>2. \E j \in full : \A x \in full : j <= x
    BY <1>3, <2>1, LeastElement
  <2>3. ChunkEnd(i, u) = CHOOSE j \in full : \A x \in full : j <= x
    BY <1>3 DEF ChunkEnd
  <2> HIDE DEF full
  <2>4. ChunkEnd(i, u) \in full
    BY <2>2, <2>3
  <2>5. ChunkEnd(i, u) \in i..NSlots /\ Cardinality(Chunk(i, ChunkEnd(i, u), u)) >= ChunkSize
    BY <2>4 DEF full
  <2>6. Cardinality({}) = 0
    BY FS_EmptySet
  <2> QED
    BY <1>1, <2>5, <2>6
<1> QED
  BY <1>2, <1>3

\* What a fetch of the active list does: the stack lists the live keys that match
\* in the slots that it passes.
Fetches ==
  /\ slot_idx' \in slot_idx..NSlots /\ stack_idx' = 0
  /\ stack' \in Seq(Match) /\ IsInjective(stack')
  /\ ToSet(stack') = Chunk(slot_idx, slot_idx', t)
  /\ stack' = <<>> => slot_idx' = NSlots

LEMMA FetchActiveFetches ==
  ASSUME slot_idx \in 0..NSlots, FetchActive
  PROVE  Fetches
<1> DEFINE upto == ChunkEnd(slot_idx, t)
           chunk == Chunk(slot_idx, upto, t)
<1>1. stack' = SetToSeq(chunk) /\ slot_idx' = upto /\ stack_idx' = 0
  BY DEF FetchActive, Items
<1>2. upto \in slot_idx..NSlots /\ (chunk = {} => upto = NSlots)
  BY ChunkEnds
<1>3. chunk \subseteq Match /\ IsFiniteSet(chunk)
  BY ChunkFinite
<1> HIDE DEF upto
<1>4. chunk = Chunk(slot_idx, slot_idx', t)
  BY <1>1
<1> HIDE DEF chunk
<1>5. stack' \in Seq(chunk) /\ IsInjective(stack') /\ ToSet(stack') = chunk
  BY <1>1, <1>3, Enumerated
<1>6. stack' \in Seq(Match)
  BY <1>3, <1>5
<1>7. stack' = <<>> => chunk = {}
  BY <1>5, Listed
<1> QED
  BY <1>1, <1>2, <1>4, <1>5, <1>6, <1>7 DEF Fetches

LEMMA FetchDeletedTyped ==
  ASSUME TypeOK, FetchDeleted
  PROVE  stack' \in Seq(Match) /\ slot_idx' \in Nat /\ stack_idx' = 0
<1>1. gc \in Seq(Key) /\ slot_idx \in Nat /\ stack \in Seq(Match)
  BY DEF TypeOK
<1> DEFINE from == SubSeq(gc, slot_idx + 2, Len(gc))
           rest == Matching(from)
           n == IF Len(rest) < ChunkSize THEN Len(rest) ELSE ChunkSize
           got == SubSeq(rest, 1, n)
<1>2. from \in Seq(Key)
  BY <1>1
<1>3. rest \in Seq(Match)
  <2> HIDE DEF from
  <2> QED
    BY <1>2, MatchingMatches
<1>4. /\ stack' = stack \o got
      /\ slot_idx' = slot_idx + Len(got) /\ stack_idx' = 0
  BY DEF FetchDeleted
<1> HIDE DEF rest
<1>5. n \in 0..Len(rest)
  BY <1>3, IteratorAssumption
<1> HIDE DEF n
<1>6. got \in Seq(Match) /\ Len(got) \in Nat
  BY <1>3, <1>5
<1> QED
  BY <1>1, <1>4, <1>6

-----------------------------------------------------------------------------
(* Types *)

\* What the other processes do meanwhile: entries go, or are replaced by newer
\* ones, and time passes.
Meanwhile ==
  /\ UNCHANGED <<list, slot_idx, stack, stack_idx, totals, pc, call, t, calls, pass,
                 visited, since>>
  /\ now' \in now..MaxTime /\ stores' \in stores..MaxStores
  /\ table' \in [Key -> Entry \cup {Absent}] /\ gc' \in Seq(Key)
  /\ \A k \in Key : table'[k] # Absent => table'[k] = table[k] \/ table'[k].id > stores
  /\ \/ UNCHANGED <<table, now, through, calm>>
     \/ through' = through \cap Live(now)' /\ calm' = NotCalm

LEMMA WatchedKeys ==
  ASSUME Watched, TypeOK
  PROVE  through' = through \cap Live(now)' /\ calm' = NotCalm
BY DEF Watched, TypeOK, Live, Unexpired

LEMMA GcTyped ==
  ASSUME NEW keys \in SUBSET Key, gc \in Seq(Key)
  PROVE  SetToSeq({k \in keys : table[k] # Absent}) \o gc \in Seq(Key)
<1> DEFINE gone == {k \in keys : table[k] # Absent}
<1>1. gone \in SUBSET Key /\ IsFiniteSet(gone)
  BY FS_Subset, IteratorAssumption
<1> HIDE DEF gone
<1>2. SetToSeq(gone) \in Seq(gone)
  BY <1>1, Enumerated
<1>3. SetToSeq(gone) \in Seq(Key)
  BY <1>1, <1>2
<1> QED
  BY <1>3 DEF gone

LEMMA OthersMeanwhile ==
  ASSUME TypeOK, Others
  PROVE  Meanwhile
<1>1. /\ table \in [Key -> Entry \cup {Absent}] /\ gc \in Seq(Key)
      /\ now \in 0..MaxTime /\ stores \in 0..MaxStores /\ MaxTime \in Nat /\ MaxStores \in Nat
      /\ now \in now..MaxTime /\ stores \in stores..MaxStores
  BY IteratorAssumption DEF TypeOK
<1>2. ASSUME NEW k \in Key, NEW ttl \in Ttls, NEW held \in Pinned, Store(k, ttl, held)
      PROVE  Meanwhile
  <2>1. PICK gone \in SUBSET {x \in Key \ (Live(now) \cup {k}) : SlotOf[x] = SlotOf[k]} :
          /\ gc' = IF held THEN SetToSeq({x \in gone \cup {k} : table[x] # Absent}) \o gc
                   ELSE gc
          /\ table' = [x \in Key |->
               IF x = k THEN [id |-> stores', ttl |-> ttl, ctime |-> now]
               ELSE IF x \in gone THEN Absent ELSE table[x]]
    BY <1>2 DEF Store
  <2>2. gc' \in Seq(Key)
    <3>1. gone \cup {k} \in SUBSET Key
      OBVIOUS
    <3> QED
      BY <1>1, <2>1, <3>1, GcTyped
  <2>3. stores' = stores + 1 /\ stores' \in stores..MaxStores /\ now' = now
    BY <1>1, <1>2 DEF Store
  <2>4. [id |-> stores', ttl |-> ttl, ctime |-> now] \in Entry
    BY <1>1, <2>3 DEF Entry
  <2>5. table' \in [Key -> Entry \cup {Absent}]
    BY <1>1, <2>1, <2>4
  <2>6. \A x \in Key : table'[x] # Absent => table'[x] = table[x] \/ table'[x].id > stores
    BY <1>1, <2>1, <2>3
  <2>7. through' = through \cap Live(now)' /\ calm' = NotCalm
    BY <1>2, WatchedKeys DEF Store
  <2>8. UNCHANGED <<list, slot_idx, stack, stack_idx, totals, pc, call, t, calls, pass,
                    visited, since>>
    BY <1>2 DEF Store, itVars, control
  <2> QED
    BY <1>1, <2>2, <2>3, <2>5, <2>6, <2>7, <2>8 DEF Meanwhile
<1>3. ASSUME NEW keys \in SUBSET Key, NEW held \in Pinned, Vanish(keys, held)
      PROVE  Meanwhile
  <2>1. /\ table' = [k \in Key |-> IF k \in keys THEN Absent ELSE table[k]]
        /\ gc' = IF held THEN SetToSeq({k \in keys : table[k] # Absent}) \o gc ELSE gc
        /\ UNCHANGED <<now, stores>> /\ Watched
        /\ UNCHANGED <<list, slot_idx, stack, stack_idx, totals, pc, call, t, calls,
                       pass, visited, since>>
    BY <1>3 DEF Vanish, Unlink, itVars, control
  <2>2. gc' \in Seq(Key)
    BY <1>1, <2>1, GcTyped
  <2>3. through' = through \cap Live(now)' /\ calm' = NotCalm
    BY <2>1, WatchedKeys
  <2> QED
    BY <1>1, <2>1, <2>2, <2>3 DEF Meanwhile
<1>4. ASSUME NEW i \in DOMAIN gc, Collect(i)
      PROVE  Meanwhile
  <2>1. gc' \in Seq(Key)
    <3>1. i \in 1..Len(gc)
      BY <1>1
    <3>2. SubSeq(gc, 1, i - 1) \in Seq(Key) /\ SubSeq(gc, i + 1, Len(gc)) \in Seq(Key)
      BY <1>1, <3>1
    <3> QED
      BY <1>4, <3>2 DEF Collect, RemoveAt
  <2> QED
    BY <1>1, <1>4, <2>1 DEF Collect, Meanwhile, itVars, control, history
<1>5. ASSUME Tick PROVE Meanwhile
  <2>1. through' = through \cap Live(now)' /\ calm' = NotCalm
    BY <1>5, WatchedKeys DEF Tick
  <2> QED
    BY <1>1, <1>5, <2>1 DEF Tick, Meanwhile, itVars, control
<1> QED
  BY <1>2, <1>3, <1>4, <1>5 DEF Others

\* The index, the stack and the slot after a fetch of either list.
LEMMA FetchTyped ==
  ASSUME TypeOK, Fetch
  PROVE  /\ slot_idx' \in Nat /\ (list = "active" => slot_idx' <= NSlots)
         /\ stack' \in Seq(Match) /\ stack_idx' = 0
         /\ list = "active" => Fetches
<1>1. CASE list = "active"
  <2>1. slot_idx \in 0..NSlots /\ NSlots \in Nat
    BY <1>1, IteratorAssumption DEF TypeOK
  <2>2. Fetches
    BY <1>1, <2>1, FetchActiveFetches DEF Fetch
  <2> QED
    BY <2>1, <2>2 DEF Fetches
<1>2. CASE list # "active"
  BY <1>2, FetchDeletedTyped DEF Fetch
<1> QED
  BY <1>1, <1>2

LEMMA MeanwhileTyped ==
  ASSUME TypeInv, Meanwhile
  PROVE  TypeInv'
<1>1. now \in 0..MaxTime /\ stores \in 0..MaxStores /\ MaxTime \in Nat /\ MaxStores \in Nat
  BY IteratorAssumption DEF TypeInv, TypeOK
<1>2. now' \in 0..MaxTime /\ stores' \in 0..MaxStores /\ 0..now \subseteq 0..now'
  BY <1>1 DEF Meanwhile
<1>3. through' \subseteq Key /\ calm' \in [pass : BOOLEAN, totals : BOOLEAN]
  <2>1. through \subseteq Key /\ calm \in [pass : BOOLEAN, totals : BOOLEAN]
    BY DEF TypeInv, TypeOK
  <2>2. NotCalm \in [pass : BOOLEAN, totals : BOOLEAN]
    BY DEF NotCalm
  <2> QED
    BY <2>1, <2>2 DEF Meanwhile
<1>4. stack_idx' = stack_idx /\ stack' = stack /\ pc' = pc
  BY DEF Meanwhile
<1>5. TypeOK'
  BY <1>2, <1>3 DEF Meanwhile, TypeInv, TypeOK
<1> QED
  BY <1>4, <1>5 DEF TypeInv

LEMMA TypeStep ==
  ASSUME TypeInv, [Next]_vars
  PROVE  TypeInv'
<1>1. /\ TypeOK /\ (pc = "items" => stack_idx <= Len(stack))
      /\ now \in Nat /\ stores \in Nat /\ slot_idx \in Nat /\ stack_idx \in Nat
      /\ stack \in Seq(Match) /\ Len(stack) \in Nat
      /\ MaxCalls \in Nat /\ NSlots \in Nat
  BY IteratorAssumption DEF TypeInv, TypeOK
<1> USE DEF TypeInv, TypeOK, Methods, Passes, cacheVars, itVars, control, history
<1>2. CASE rewind
  <2>1. Live(now) \subseteq Key
    BY DEF Live
  <2>2. now \in 0..now /\ calls' \in 0..MaxCalls /\ slot_idx' = 0 /\ stack_idx' = 0
    BY <1>1, <1>2 DEF rewind
  <2>3. through' \subseteq Key /\ visited' \in Seq(Match) /\ since' \in 0..MaxStores
        /\ pass' \in Passes
    <3>1. CASE list = "active"
      BY <1>1, <1>2, <2>1, <3>1 DEF rewind
    <3>2. CASE list # "active"
      BY <1>1, <1>2, <3>2 DEF rewind
    <3> QED
      BY <3>1, <3>2
  <2>4. calm' \in [pass : BOOLEAN, totals : BOOLEAN]
    BY <1>2 DEF rewind
  <2> QED
    BY <1>1, <1>2, <2>2, <2>3, <2>4 DEF rewind, StartFetch
<1>3. CASE valid
  <2>1. now \in 0..now
    BY <1>1
  <2> QED
    BY <1>1, <1>3, <2>1 DEF valid, StartFetch, Answer, NoChange
<1>4. CASE current
  <2>1. now \in 0..now
    BY <1>1
  <2> QED
    BY <1>1, <1>4, <2>1 DEF current, StartFetch
<1>5. CASE next
  <2>1. visited' \in Seq(Match)
    <3>1. CASE stack_idx < Len(stack)
      <4>1. stack_idx + 1 \in 1..Len(stack)
        BY <1>1, <3>1
      <4>2. stack[stack_idx + 1] \in Match
        BY <1>1, <4>1
      <4> QED
        BY <1>5, <4>2 DEF next
    <3>2. CASE ~(stack_idx < Len(stack))
      BY <1>5, <3>2 DEF next
    <3> QED
      BY <3>1, <3>2
  <2> QED
    BY <1>1, <1>5, <2>1 DEF next
<1>6. CASE getTotalCount
  <2>1. now \in 0..now
    BY <1>1
  <2> QED
    BY <1>1, <1>6, <2>1 DEF getTotalCount
<1>7. CASE apcu_delete
  <2>1. now \in 0..now /\ calls' \in 0..MaxCalls /\ since' \in 0..MaxStores
    BY <1>1, <1>7 DEF apcu_delete
  <2> QED
    BY <1>1, <1>7, <2>1 DEF apcu_delete, StartFetch
<1>8. CASE FetchChunk
  <2>1. /\ slot_idx' \in Nat /\ (list = "active" => slot_idx' <= NSlots)
        /\ stack' \in Seq(Match) /\ stack_idx' = 0
    BY <1>1, <1>8, FetchTyped DEF FetchChunk
  <2>2. pc' \in {"script", "items"} /\ pass' \in Passes
    BY <1>8 DEF FetchChunk, Answer
  <2>3. stack_idx' <= Len(stack')
    BY <2>1
  <2> QED
    BY <1>1, <1>8, <2>1, <2>2, <2>3 DEF FetchChunk
<1>9. CASE CountTotals
  <2>1. Cardinality(Live(t) \cap Match) \in Nat
    BY ChunkFinite, FS_CardinalityType
  <2> QED
    BY <1>1, <1>9, <2>1 DEF CountTotals
<1>10. CASE DeleteItemUnlocked
  <2>1. stack_idx' \in Nat /\ stack_idx' <= Len(stack)
    BY <1>1, <1>10 DEF DeleteItemUnlocked, Empty
  <2> QED
    BY <1>1, <1>10, <2>1 DEF DeleteItemUnlocked
<1>11. CASE DeleteMore
  <2>1. now \in 0..now
    BY <1>1
  <2> QED
    BY <1>1, <1>11, <2>1 DEF DeleteMore, StartFetch
<1>12. ASSUME NEW held \in Pinned, DeleteItem(held) PROVE TypeInv'
  <2>1. stack_idx' = stack_idx + 1 /\ stack_idx + 1 \in 1..Len(stack)
    BY <1>1, <1>12 DEF DeleteItem, Empty
  <2>2. {stack[stack_idx + 1]} \in SUBSET Key
    BY <1>1, <2>1, IteratorAssumption
  <2>3. gc' \in Seq(Key)
    BY <1>12, <2>2, GcTyped DEF DeleteItem, Unlink
  <2>4. table' \in [Key -> Entry \cup {Absent}]
    BY <1>12 DEF DeleteItem, Unlink
  <2>5. through' \subseteq Key /\ calm' \in [pass : BOOLEAN, totals : BOOLEAN]
    <3>1. through' \subseteq through /\ calm' = NotCalm
      BY <1>12 DEF DeleteItem, Watched
    <3> QED
      BY <3>1 DEF NotCalm
  <2> QED
    BY <1>1, <1>12, <2>1, <2>3, <2>4, <2>5 DEF DeleteItem
<1>13. CASE Others
  <2>1. Meanwhile
    BY <1>1, <1>13, OthersMeanwhile
  <2> QED
    BY <2>1, MeanwhileTyped
<1>14. CASE UNCHANGED vars
  BY <1>1, <1>14 DEF vars
<1> QED
  BY <1>2, <1>3, <1>4, <1>5, <1>6, <1>7, <1>8, <1>9, <1>10, <1>11, <1>12, <1>13, <1>14
  DEF Next, Script, Continues

LEMMA TypeStart == Init => TypeInv
<1> SUFFICES ASSUME Init PROVE TypeInv
  OBVIOUS
<1>1. 0 \in 0..MaxStores /\ 0 \in 0..MaxTime /\ 0 \in 0..MaxCalls
  BY IteratorAssumption
<1>2. [id : {0}, ttl : Ttls, ctime : {0}] \subseteq Entry
  BY <1>1 DEF Entry
<1>3. table \in [Key -> Entry \cup {Absent}]
  BY <1>2 DEF Init
<1> QED
  BY <1>1, <1>3, IteratorAssumption DEF Init, TypeInv, TypeOK, Methods, Passes, NotCalm

LEMMA AlwaysTyped == Spec => []TypeInv
<1>1. TypeInv /\ [Next]_vars => TypeInv'
  BY TypeStep
<1> QED
  BY <1>1, TypeStart, PTL DEF Spec

\* The variables have their types, whatever the bounds.
THEOREM TypeCorrect == Spec => []TypeOK
<1>1. TypeInv => TypeOK
  BY DEF TypeInv
<1> QED
  BY <1>1, AlwaysTyped, PTL

-----------------------------------------------------------------------------
(* The index of the stack *)

\* If the script calls next() on items only, the index never runs past the stack
\* (apc_stack_get() asserts size > n), however the lists change between chunks.
THEOREM InBoundsHolds == Careful => (Spec => []InBounds)
<1> SUFFICES ASSUME Careful PROVE Spec => []InBounds
  OBVIOUS
<1>1. Init => InBounds
  BY DEF Init, InBounds
<1>2. TypeInv /\ InBounds /\ [Next]_vars => InBounds'
  <2> SUFFICES ASSUME TypeInv, InBounds, [Next]_vars PROVE InBounds'
    OBVIOUS
  <2>1. stack_idx \in Nat /\ Len(stack) \in Nat
    BY DEF TypeInv, TypeOK
  <2> USE DEF InBounds, itVars
  <2>2. CASE rewind
    BY <2>1, <2>2 DEF rewind
  <2>3. CASE FetchChunk
    <3>1. stack_idx' = 0 /\ stack' \in Seq(Match)
      BY <2>3, FetchTyped DEF FetchChunk, TypeInv
    <3> QED
      BY <3>1
  <2>4. CASE next
    BY <2>1, <2>4 DEF next
  <2>5. ASSUME NEW held \in Pinned, DeleteItem(held) PROVE InBounds'
    BY <2>1, <2>5 DEF DeleteItem, Empty
  <2>6. CASE DeleteItemUnlocked
    BY <2>1, <2>6 DEF DeleteItemUnlocked, Empty
  <2>7. CASE Others
    <3>1. Meanwhile
      BY <2>7, OthersMeanwhile DEF TypeInv
    <3> QED
      BY <3>1 DEF Meanwhile
  <2>8. CASE valid \/ current \/ getTotalCount \/ apcu_delete \/ CountTotals \/ DeleteMore
    BY <2>8 DEF valid, current, getTotalCount, apcu_delete, CountTotals, DeleteMore
  <2>9. CASE UNCHANGED vars
    BY <2>9 DEF vars
  <2> QED
    BY <2>2, <2>3, <2>4, <2>5, <2>6, <2>7, <2>8, <2>9 DEF Next, Script, Continues
<1> QED
  BY <1>1, <1>2, AlwaysTyped, PTL DEF Spec

-----------------------------------------------------------------------------
(* Passes *)

LEMMA StillLive ==
  ASSUME UNCHANGED <<table, now>>
  PROVE  Live(now)' = Live(now)
BY DEF Live, Unexpired

LEMMA EntryTyped ==
  ASSUME NEW e \in Entry
  PROVE  e.id \in Nat /\ e.ttl \in Nat /\ e.ctime \in Nat
<1>1. Ttls \subseteq Nat /\ 0..MaxTime \subseteq Nat /\ 0..MaxStores \subseteq Nat
  BY IteratorAssumption
<1> QED
  BY <1>1 DEF Entry

\* What is live now was so when the clock was read.
LEMMA LiveEarlier ==
  ASSUME TypeOK, NEW u \in 0..now
  PROVE  Live(now) \subseteq Live(u)
<1> SUFFICES ASSUME NEW k \in Live(now) PROVE k \in Live(u)
  OBVIOUS
<1>1. k \in Key /\ table[k] # Absent /\ Unexpired(k, now)
  BY DEF Live
<1>2. table[k].ttl \in Nat /\ table[k].ctime \in Nat /\ now \in Nat /\ u \in Nat /\ u <= now
  <2>1. table[k] \in Entry /\ now \in Nat
    BY <1>1, IteratorAssumption DEF TypeOK
  <2> QED
    BY <2>1, EntryTyped
<1>3. Unexpired(k, u)
  BY <1>1, <1>2 DEF Unexpired
<1> QED
  BY <1>1, <1>3 DEF Live

LEMMA NothingLeft ==
  ASSUME TypeOK, Empty
  PROVE  Left = {}
BY DEF TypeOK, Empty, Left

\* What the other processes do takes keys out of those that were live all the
\* time, and nothing else.
LEMMA MeanwhilePass ==
  ASSUME PassInv, Meanwhile
  PROVE  PassInv'
<1>1. /\ UNCHANGED <<list, slot_idx, stack, stack_idx, pc, call, pass, visited>>
      /\ through' \subseteq through /\ through' \subseteq Live(now)'
  <2>1. CASE UNCHANGED <<table, now, through, calm>>
    BY <2>1, StillLive DEF PassInv, Meanwhile
  <2>2. CASE through' = through \cap Live(now)'
    BY <2>2 DEF Meanwhile
  <2> QED
    BY <2>1, <2>2 DEF Meanwhile
<1>2. Left' = Left /\ Seen' = Seen
  BY <1>1 DEF Left, Seen
<1>3. Walk => Walk'
  BY <1>1, <1>2 DEF Walk
<1> QED
  BY <1>1, <1>2, <1>3 DEF PassInv

\* A pass of which a fetch takes the next slots.
LEMMA FetchWalks ==
  ASSUME TypeInv, PassInv, Walk, pc = "fetch", pc' = "script", Fetches,
         UNCHANGED <<list, through, visited>>
  PROVE  /\ Walk' /\ Left' = Chunk(slot_idx, slot_idx', t)
         /\ stack' = <<>> => (through \cap Match) \subseteq Seen
<1>1. /\ slot_idx \in Nat /\ slot_idx' \in Nat /\ slot_idx <= slot_idx' /\ slot_idx' <= NSlots
      /\ stack_idx' = 0 /\ stack' \in Seq(Match) /\ IsInjective(stack')
      /\ ToSet(stack') = Chunk(slot_idx, slot_idx', t)
      /\ stack' = <<>> => slot_idx' = NSlots
  BY IteratorAssumption DEF Fetches, TypeInv, TypeOK
<1>2. Left' = ToSet(stack')
  <2>1. Left' = {stack'[i] : i \in 1..Len(stack')}
    BY <1>1 DEF Left
  <2> QED
    BY <1>1, <2>1, Listed
<1>3. Left = {} /\ Seen' = Seen
  BY DEF Left, Seen
<1>4. \A k \in Chunk(slot_idx, slot_idx', t) :
        k \in Key /\ SlotOf[k] \in Nat /\ SlotOf[k] >= slot_idx /\ SlotOf[k] < slot_idx'
  BY <1>1, IteratorAssumption DEF Chunk, Live
<1>5. \A k \in Seen : SlotOf[k] < slot_idx /\ SlotOf[k] \in Nat
  <2>1. Seen \subseteq Key
    BY Listed, IteratorAssumption DEF Seen, TypeInv, TypeOK
  <2> QED
    BY <2>1, IteratorAssumption DEF Walk
<1>6. Seen' \cap Left' = {}
  BY <1>1, <1>2, <1>3, <1>4, <1>5
<1>7. \A k \in Seen' \cup Left' : SlotOf[k] < slot_idx'
  BY <1>1, <1>2, <1>3, <1>4, <1>5
<1>8. ASSUME NEW k \in through \cap Match, SlotOf[k] < slot_idx' PROVE k \in Seen \cup Left'
  <2>1. CASE SlotOf[k] < slot_idx
    BY <1>3, <2>1 DEF Walk
  <2>2. CASE ~(SlotOf[k] < slot_idx)
    <3>1. k \in Live(now) /\ t \in 0..now
      BY DEF PassInv, TypeInv, TypeOK
    <3>2. k \in Live(t)
      BY <3>1, LiveEarlier DEF TypeInv
    <3>3. k \in Key
      BY <3>2 DEF Live
    <3>4. SlotOf[k] \in slot_idx..(slot_idx' - 1)
      BY <1>1, <1>8, <2>2, <3>3, IteratorAssumption
    <3>5. k \in Chunk(slot_idx, slot_idx', t)
      BY <3>2, <3>4 DEF Chunk
    <3> QED
      BY <1>1, <1>2, <3>5
  <2> QED
    BY <2>1, <2>2
<1>9. Walk'
  BY <1>1, <1>3, <1>6, <1>7, <1>8 DEF Walk
<1>10. ASSUME stack' = <<>>, NEW k \in through \cap Match PROVE k \in Seen
  <2>1. slot_idx' = NSlots /\ Left' = {}
    BY <1>1, <1>2, <1>10, Listed
  <2>2. k \in Key
    BY DEF TypeInv, TypeOK
  <2>3. SlotOf[k] < slot_idx'
    BY <2>1, <2>2, IteratorAssumption
  <2> QED
    BY <1>8, <2>1, <2>3
<1> QED
  BY <1>1, <1>2, <1>9, <1>10

LEMMA PassStep ==
  ASSUME TypeInv, PassInv, [Next]_vars
  PROVE  PassInv'
<1>1. /\ TypeOK /\ (pc = "items" => stack_idx <= Len(stack))
      /\ slot_idx \in Nat /\ stack_idx \in Nat /\ stack \in Seq(Match) /\ Len(stack) \in Nat
      /\ visited \in Seq(Match)
  BY DEF TypeInv, TypeOK
<1> USE DEF cacheVars, itVars, control, history
<1>2. CASE rewind
  <2>1. UNCHANGED <<table, now, list>> /\ slot_idx' = 0 /\ stack_idx' = 0 /\ pc' = "fetch" /\ call' = "rewind"
    BY <1>2 DEF rewind, StartFetch
  <2>2. Live(now)' = Live(now)
    BY <2>1, StillLive
  <2>3. CASE list = "active"
    <3>1. pass' = "on" /\ through' = Live(now) /\ visited' = <<>>
      BY <1>2, <2>3 DEF rewind
    <3>2. Left' = {} /\ Seen' = {} /\ IsInjective(visited')
      BY <2>1, <3>1 DEF Left, Seen, ToSet, IsInjective
    <3>3. \A k \in through' : ~(SlotOf[k] < 0)
      BY <3>1, IteratorAssumption DEF Live
    <3>4. Walk'
      BY <2>1, <2>3, <3>1, <3>2, <3>3 DEF Walk
    <3> QED
      BY <2>1, <2>2, <3>1, <3>2, <3>4 DEF PassInv
  <2>4. CASE list # "active"
    <3>1. UNCHANGED <<pass, through, visited>> /\ pass # "on"
      BY <1>2, <2>4 DEF rewind, PassInv, Walk
    <3> QED
      BY <2>1, <2>2, <3>1 DEF PassInv, Seen
  <2> QED
    BY <2>3, <2>4
<1>3. CASE (valid /\ Empty) \/ current
  <2>1. /\ UNCHANGED <<table, now, list, slot_idx, stack, stack_idx, pass, through, visited>>
        /\ Empty /\ pc' = "fetch" /\ call' # "delete"
    BY <1>3 DEF valid, current, StartFetch
  <2>2. Left' = Left /\ Seen' = Seen /\ Live(now)' = Live(now)
    BY <1>1, <2>1, NothingLeft, StillLive DEF Left, Seen
  <2>3. Walk => Walk'
    BY <2>1, <2>2 DEF Walk
  <2> QED
    BY <2>1, <2>2, <2>3 DEF PassInv
<1>4. CASE (valid /\ ~Empty) \/ getTotalCount \/ CountTotals
  <2>1. ~Empty => stack # <<>>
    BY DEF Empty, PassInv
  <2>2. /\ UNCHANGED <<table, now, list, slot_idx, stack, stack_idx, pass, through, visited>>
        /\ pc \in {"script", "totals"} /\ pc' \in {"script", "totals"}
    BY <1>4, <2>1 DEF valid, getTotalCount, CountTotals, Answer, NoChange
  <2>3. Left' = Left /\ Seen' = Seen /\ Live(now)' = Live(now)
    BY <2>2, StillLive DEF Left, Seen
  <2>4. Walk => Walk'
    BY <2>2, <2>3 DEF Walk
  <2> QED
    BY <2>2, <2>3, <2>4 DEF PassInv
<1>5. CASE next
  <2>1. /\ UNCHANGED <<table, now, list, slot_idx, stack, pc, call, pass, through>>
        /\ pc = "script" /\ stack # <<>> /\ stack_idx' = stack_idx + 1
    BY <1>5 DEF next
  <2>2. Live(now)' = Live(now)
    BY <2>1, StillLive
  <2>3. CASE pass = "on" /\ stack_idx < Len(stack)
    <3> DEFINE x == stack[stack_idx + 1]
    <3>1. stack_idx + 1 \in 1..Len(stack) /\ x \in Match /\ visited' = Append(visited, x)
      BY <1>1, <1>5, <2>3 DEF next, PassInv
    <3>2. Left = {stack[i] : i \in (stack_idx + 1)..Len(stack)}
          /\ Left' = {stack[i] : i \in (stack_idx + 2)..Len(stack)}
      BY <1>1, <2>1 DEF Left
    <3>3. IsInjective(stack) /\ DOMAIN stack = 1..Len(stack)
      BY <1>1, <2>1, <2>3 DEF PassInv, Walk
    <3>4. x \in Left
      BY <1>1, <3>1, <3>2
    <3>5. \A i \in (stack_idx + 1)..Len(stack) :
            i = stack_idx + 1 \/ i \in (stack_idx + 2)..Len(stack)
      BY <1>1
    <3>6. Left = Left' \cup {x} /\ x \notin Left'
      <4>1. \A i \in (stack_idx + 2)..Len(stack) :
              i \in 1..Len(stack) /\ i # stack_idx + 1 /\ i \in (stack_idx + 1)..Len(stack)
        BY <1>1
      <4>2. \A i \in (stack_idx + 2)..Len(stack) : stack[i] # x
        BY <3>1, <3>3, <4>1 DEF IsInjective
      <4> QED
        BY <3>2, <3>4, <3>5, <4>1, <4>2
    <3> HIDE DEF x
    <3>7. x \notin Seen
      BY <2>3, <3>4 DEF PassInv, Walk
    <3>8. Seen' = Seen \cup {x} /\ IsInjective(visited')
      BY <1>1, <3>1, <3>7, OneMore DEF Seen, PassInv
    <3>9. Walk'
      BY <2>1, <2>3, <3>6, <3>7, <3>8 DEF Walk, PassInv
    <3> QED
      BY <2>1, <2>2, <2>3, <3>8, <3>9 DEF PassInv
  <2>4. CASE pass = "on" /\ ~(stack_idx < Len(stack))
    <3>1. visited' = visited
      BY <1>5, <2>4 DEF next
    <3>2. Left = {} /\ Left' = {} /\ Seen' = Seen
      BY <1>1, <2>1, <2>4, <3>1 DEF Left, Seen
    <3>3. Walk'
      BY <2>1, <2>4, <3>2 DEF Walk, PassInv
    <3> QED
      BY <2>1, <2>2, <2>4, <3>1, <3>3 DEF PassInv
  <2>5. CASE pass # "on"
    <3>1. visited' = visited
      BY <1>5, <2>5 DEF next
    <3> QED
      BY <2>1, <2>2, <2>5, <3>1 DEF PassInv, Seen
  <2> QED
    BY <2>3, <2>4, <2>5
<1>6. CASE apcu_delete
  <2>1. /\ UNCHANGED <<table, now, stack, stack_idx, through, visited>>
        /\ pass' \in {"deleting", "none"}
    BY <1>6 DEF apcu_delete
  <2> QED
    BY <2>1, StillLive DEF PassInv
<1>7. CASE FetchChunk
  <2>1. /\ UNCHANGED <<table, now, list, through, visited, call>> /\ pc = "fetch"
        /\ stack_idx' = 0 /\ (list = "active" => Fetches)
    BY <1>1, <1>7, FetchTyped DEF FetchChunk
  <2>2. Live(now)' = Live(now) /\ Seen' = Seen
    BY <2>1, StillLive DEF Seen
  <2>3. CASE pass = "on"
    <3>1. Walk /\ list = "active" /\ call # "delete"
      BY <2>1, <2>3 DEF PassInv, Walk
    <3>2. pc' = "script" /\ (pass' = "on" \/ (pass' = "ended" /\ stack' = <<>>))
      <4>1. CASE call = "valid"
        BY <1>7, <2>3, <4>1 DEF FetchChunk, Answer
      <4>2. CASE call # "valid"
        BY <1>7, <2>3, <3>1, <4>2 DEF FetchChunk
      <4> QED
        BY <4>1, <4>2
    <3>3. Walk' /\ (stack' = <<>> => (through \cap Match) \subseteq Seen)
      BY <2>1, <3>1, <3>2, FetchWalks
    <3> QED
      BY <2>1, <2>2, <3>2, <3>3 DEF PassInv
  <2>4. CASE pass # "on"
    <3>1. pass' # "on" /\ (pass' = "ended" => pass = "ended")
      BY <1>7, <2>4 DEF FetchChunk, Answer
    <3> QED
      BY <2>1, <2>2, <3>1 DEF PassInv
  <2> QED
    BY <2>3, <2>4
<1>8. ASSUME NEW held \in Pinned, DeleteItem(held) PROVE PassInv'
  <2>1. /\ UNCHANGED <<stack, pass, visited>> /\ pc = "items" /\ ~Empty
        /\ through' = through \cap Live(now)'
    BY <1>1, <1>8, WatchedKeys DEF DeleteItem
  <2>2. pass # "on" /\ stack # <<>>
    BY <1>1, <2>1 DEF PassInv, Walk, Empty
  <2> QED
    BY <2>1, <2>2 DEF PassInv, Seen
<1>9. CASE DeleteItemUnlocked \/ DeleteMore
  <2>1. /\ UNCHANGED <<table, now, stack, through, visited>> /\ pc = "items"
        /\ pass' = pass \/ pass' = "gaveup"
        /\ stack_idx' = stack_idx \/ ~Empty
    BY <1>9 DEF DeleteItemUnlocked, DeleteMore
  <2>2. pass # "on" /\ (stack' = <<>> => stack_idx' = 0)
    BY <1>1, <2>1 DEF PassInv, Walk, Empty
  <2> QED
    BY <2>1, <2>2, StillLive DEF PassInv, Seen
<1>10. CASE Others
  BY <1>1, <1>10, OthersMeanwhile, MeanwhilePass
<1>11. CASE UNCHANGED vars
  <2>1. /\ UNCHANGED <<table, now, list, slot_idx, stack, stack_idx, pc, call, pass, through, visited>>
    BY <1>11 DEF vars
  <2> QED
    BY <2>1, StillLive DEF PassInv, Walk, Left, Seen
<1> QED
  BY <1>2, <1>3, <1>4, <1>5, <1>6, <1>7, <1>8, <1>9, <1>10, <1>11 DEF Next, Script, Continues

\* If nothing changes, the pass and the totals see the same entries.
LEMMA CalmStep ==
  ASSUME TypeInv, PassInv, CalmInv, [Next]_vars
  PROVE  CalmInv'
<1>1. /\ TypeOK /\ (pc = "items" => stack_idx <= Len(stack))
      /\ stack_idx \in Nat /\ stack \in Seq(Match) /\ Len(stack) \in Nat
      /\ visited \in Seq(Match)
  BY DEF TypeInv, TypeOK
<1>2. pass = "on" => Walk
  BY DEF PassInv
<1> USE DEF cacheVars, itVars, control, history
<1>3. CASE rewind
  <2>1. /\ UNCHANGED <<table, now, totals>> /\ pc' = "fetch" /\ t' = now /\ calm'.totals = calm.totals
    <3>1. CASE list = "active"
      BY <1>1, <1>3, <3>1 DEF rewind, StartFetch, TypeOK
    <3>2. CASE list # "active"
      BY <1>3, <3>2 DEF rewind, StartFetch
    <3> QED
      BY <3>1, <3>2
  <2>2. Live(now)' = Live(now)
    BY <2>1, StillLive
  <2>3. CASE list = "active"
    <3>1. through' = Live(now) /\ visited' = <<>>
      BY <1>3, <2>3 DEF rewind
    <3>2. Left' = {} /\ Seen' = {}
      BY <2>1, <3>1 DEF Left, Seen, ToSet
    <3> QED
      BY <2>1, <2>2, <3>1, <3>2 DEF CalmInv
  <2>4. CASE list # "active"
    <3>1. UNCHANGED <<pass, through, visited, calm>> /\ pass # "on"
      BY <1>2, <1>3, <2>4 DEF rewind, Walk
    <3> QED
      BY <2>1, <2>2, <3>1 DEF CalmInv, Seen
  <2> QED
    BY <2>3, <2>4
<1>4. CASE (valid /\ Empty) \/ current
  <2>1. /\ UNCHANGED <<table, now, totals, stack, stack_idx, pass, through, visited, calm>>
        /\ Empty /\ pc' = "fetch" /\ t' = now
    BY <1>4 DEF valid, current, StartFetch
  <2>2. Left' = {} /\ Seen' = Seen /\ Live(now)' = Live(now)
    BY <2>1, StillLive DEF Left, Seen
  <2> QED
    BY <2>1, <2>2 DEF CalmInv
<1>5. CASE valid /\ ~Empty
  <2>1. stack # <<>>
    BY <1>5 DEF Empty, PassInv
  <2>2. UNCHANGED <<table, now, totals, stack, stack_idx, pc, t, pass, through, visited, calm>>
    BY <1>5, <2>1 DEF valid, Answer, NoChange
  <2>3. Left' = Left /\ Seen' = Seen /\ Live(now)' = Live(now)
    BY <2>2, StillLive DEF Left, Seen
  <2> QED
    BY <2>2, <2>3 DEF CalmInv
<1>6. CASE getTotalCount
  <2>1. /\ UNCHANGED <<table, now, totals, stack, stack_idx, pass, through, visited>>
        /\ totals = Absent /\ pc = "script" /\ pc' = "totals" /\ t' = now /\ calm'.pass = calm.pass
    BY <1>1, <1>6 DEF getTotalCount, TypeOK
  <2>2. Left' = Left /\ Seen' = Seen /\ Live(now)' = Live(now)
    BY <2>1, StillLive DEF Left, Seen
  <2> QED
    BY <2>1, <2>2 DEF CalmInv
<1>7. CASE CountTotals
  <2>1. /\ UNCHANGED <<table, now, stack, stack_idx, t, pass, through, visited, calm>>
        /\ totals' = Cardinality(Live(t) \cap Match) /\ pc = "totals" /\ pc' = "script"
    BY <1>7 DEF CountTotals
  <2>2. Left' = Left /\ Seen' = Seen /\ Live(now)' = Live(now)
    BY <2>1, StillLive DEF Left, Seen
  <2>3. calm.totals => t = now
    BY <2>1 DEF CalmInv
  <2> QED
    BY <2>1, <2>2, <2>3 DEF CalmInv
<1>8. CASE next
  <2>1. /\ UNCHANGED <<table, now, totals, stack, pc, t, pass, through, calm>>
        /\ pc = "script" /\ stack_idx' = stack_idx + 1
    BY <1>8 DEF next
  <2>2. Live(now)' = Live(now)
    BY <2>1, StillLive
  <2>3. Left' \subseteq Left
    <3>1. \A i \in (stack_idx + 2)..Len(stack) : i \in (stack_idx + 1)..Len(stack)
      BY <1>1
    <3>2. Left = {stack[i] : i \in (stack_idx + 1)..Len(stack)}
          /\ Left' = {stack[i] : i \in (stack_idx + 2)..Len(stack)}
      BY <1>1, <2>1 DEF Left
    <3> QED
      BY <3>1, <3>2
  <2>4. pass = "on" => Seen' \subseteq Seen \cup Left
    <3>1. CASE stack_idx < Len(stack) /\ pass = "on"
      <4> DEFINE x == stack[stack_idx + 1]
      <4>1. stack_idx + 1 \in 1..Len(stack) /\ stack_idx + 1 \in (stack_idx + 1)..Len(stack)
        BY <1>1, <3>1
      <4>2. x \in Match /\ x \in Left
        BY <1>1, <2>1, <4>1 DEF Left
      <4>3. visited' = Append(visited, x)
        BY <1>8, <3>1 DEF next, PassInv
      <4> HIDE DEF x
      <4>4. Seen' = Seen \cup {x}
        BY <1>1, <4>2, <4>3, OneMore DEF Seen
      <4> QED
        BY <4>2, <4>4
    <3>2. CASE ~(stack_idx < Len(stack) /\ pass = "on")
      BY <1>8, <3>2 DEF next, Seen
    <3> QED
      BY <3>1, <3>2
  <2>5. pass # "on" => Seen' = Seen
    BY <1>8 DEF next, Seen
  <2> QED
    BY <2>1, <2>2, <2>3, <2>4, <2>5 DEF CalmInv
<1>9. CASE apcu_delete
  <2>1. /\ UNCHANGED <<table, now, totals, calm>> /\ pc' = "fetch"
        /\ pass' \in {"deleting", "none"}
    BY <1>9 DEF apcu_delete, StartFetch
  <2> QED
    BY <2>1, StillLive DEF CalmInv
<1>10. CASE FetchChunk
  <2>1. /\ UNCHANGED <<table, now, list, totals, t, through, visited, calm, call>>
        /\ pc = "fetch" /\ pc' \in {"script", "items"}
        /\ (list = "active" => Fetches)
    <3>1. list = "active" => Fetches
      BY <1>1, <1>10, FetchTyped DEF FetchChunk
    <3> QED
      BY <1>10, <3>1 DEF FetchChunk
  <2>2. Live(now)' = Live(now) /\ Seen' = Seen
    BY <2>1, StillLive DEF Seen
  <2>3. CASE pass = "on"
    <3>1. Walk /\ list = "active" /\ call # "delete"
      BY <1>2, <2>1, <2>3 DEF Walk
    <3>2. pc' = "script" /\ pass' \in {"on", "ended"}
      <4>1. CASE call = "valid"
        BY <1>10, <2>3, <4>1 DEF FetchChunk, Answer
      <4>2. CASE call # "valid"
        BY <1>10, <2>3, <3>1, <4>2 DEF FetchChunk
      <4> QED
        BY <4>1, <4>2
    <3>3. Left' = Chunk(slot_idx, slot_idx', t)
      BY <2>1, <3>1, <3>2, FetchWalks
    <3>4. calm.pass => Left' \subseteq Live(now)
      BY <2>1, <2>3, <3>3 DEF CalmInv, Chunk
    <3> QED
      BY <2>1, <2>2, <2>3, <3>2, <3>4 DEF CalmInv
  <2>4. CASE pass # "on"
    <3>1. pass' # "on" /\ (pass' = "ended" => pass = "ended")
      BY <1>10, <2>4 DEF FetchChunk, Answer
    <3> QED
      BY <2>1, <2>2, <3>1 DEF CalmInv
  <2> QED
    BY <2>3, <2>4
<1>11. ASSUME NEW held \in Pinned, DeleteItem(held) PROVE CalmInv'
  BY <1>1, <1>11, WatchedKeys DEF DeleteItem, CalmInv, NotCalm
<1>12. CASE DeleteItemUnlocked \/ DeleteMore
  <2>1. /\ UNCHANGED <<table, now, totals, through, visited, calm>> /\ pc = "items" /\ pc' # "totals"
        /\ pass' = pass \/ pass' = "gaveup"
    BY <1>12 DEF DeleteItemUnlocked, DeleteMore, StartFetch
  <2>2. pass # "on"
    BY <1>2, <2>1 DEF Walk
  <2> QED
    BY <2>1, <2>2, StillLive DEF CalmInv, Seen
<1>13. CASE Others
  <2>1. Meanwhile
    BY <1>1, <1>13, OthersMeanwhile
  <2>2. CASE UNCHANGED <<table, now, through, calm>>
    <3>1. Left' = Left /\ Seen' = Seen /\ Live(now)' = Live(now)
      BY <2>1, <2>2, StillLive DEF Meanwhile, Left, Seen
    <3>2. UNCHANGED <<pass, pc, t, totals>>
      BY <2>1 DEF Meanwhile
    <3> QED
      BY <2>2, <3>1, <3>2 DEF CalmInv
  <2>3. CASE calm' = NotCalm
    BY <2>3 DEF CalmInv, NotCalm
  <2> QED
    BY <2>1, <2>2, <2>3 DEF Meanwhile
<1>14. CASE UNCHANGED vars
  <2>1. UNCHANGED <<table, now, totals, stack, stack_idx, pc, t, pass, through, visited, calm>>
    BY <1>14 DEF vars
  <2>2. Left' = Left /\ Seen' = Seen /\ Live(now)' = Live(now)
    BY <2>1, StillLive DEF Left, Seen
  <2> QED
    BY <2>1, <2>2 DEF CalmInv
<1> QED
  BY <1>3, <1>4, <1>5, <1>6, <1>7, <1>8, <1>9, <1>10, <1>11, <1>12, <1>13, <1>14
  DEF Next, Script, Continues

\* A pass visits no key twice, in the end it has visited each key that was live
\* all the time, and as many as getTotalCount() counts if nothing changed
\* (apc_iterator_fetch_active(), apc_iterator_totals()).
THEOREM PassExactHolds == Spec => []PassExact
<1>1. Init => PassInv /\ CalmInv
  <2> SUFFICES ASSUME Init PROVE PassInv /\ CalmInv
    OBVIOUS
  <2>1. pass = "none" /\ through = {} /\ visited = <<>> /\ stack_idx = 0 /\ calm = NotCalm
    BY DEF Init
  <2>2. IsInjective(visited)
    BY <2>1 DEF IsInjective
  <2> QED
    BY <2>1, <2>2 DEF PassInv, CalmInv, NotCalm
<1>2. TypeInv /\ PassInv /\ CalmInv /\ [Next]_vars => PassInv' /\ CalmInv'
  BY PassStep, CalmStep
<1>3. TypeInv /\ PassInv /\ CalmInv => PassExact
  <2> SUFFICES ASSUME TypeInv, PassInv, CalmInv PROVE PassExact
    OBVIOUS
  <2>1. visited \in Seq(Match) /\ IsInjective(visited) /\ Seen = ToSet(visited)
    BY DEF TypeInv, TypeOK, PassInv, Seen
  <2>2. ASSUME pass = "ended", calm.pass, calm.totals, totals # Absent
        PROVE  totals = Len(visited)
    <3>1. Seen = Live(now) \cap Match
      <4>1. Seen \subseteq Match
        BY <2>1, Listed
      <4> QED
        BY <2>2, <4>1 DEF PassInv, CalmInv
    <3>2. Cardinality(Seen) = Len(visited)
      BY <2>1, LengthCounts
    <3> QED
      BY <2>2, <3>1, <3>2 DEF CalmInv
  <2> QED
    BY <2>1, <2>2 DEF PassExact, PassInv
<1> QED
  BY <1>1, <1>2, <1>3, AlwaysTyped, PTL DEF Spec

-----------------------------------------------------------------------------
(* Deletions *)

\* What is live after a step of the others and was not stored since, was live
\* before, as it is.
LEMMA MeanwhileLive ==
  ASSUME TypeOK, Meanwhile
  PROVE  \A k \in Live(now)' : table'[k].id > stores \/ (k \in Live(now) /\ table'[k] = table[k])
<1> SUFFICES ASSUME NEW k \in Live(now)', ~(table'[k].id > stores)
             PROVE  k \in Live(now) /\ table'[k] = table[k]
  OBVIOUS
<1>1. k \in Key /\ table'[k] # Absent
      /\ (table'[k].ttl = 0 \/ table'[k].ctime + table'[k].ttl >= now')
  BY DEF Live, Unexpired
<1>2. table'[k] = table[k]
  BY <1>1 DEF Meanwhile
<1>3. now \in Nat /\ now' \in Nat /\ now <= now'
  BY IteratorAssumption DEF TypeOK, Meanwhile
<1>4. table[k].ttl \in Nat /\ table[k].ctime \in Nat
  <2>1. table[k] \in Entry
    BY <1>1, <1>2 DEF TypeOK
  <2> QED
    BY <2>1, EntryTyped
<1>5. Unexpired(k, now)
  <2>1. table[k].ttl = 0 \/ table[k].ctime + table[k].ttl >= now'
    BY <1>1, <1>2
  <2> QED
    BY <1>3, <1>4, <2>1 DEF Unexpired
<1> QED
  BY <1>1, <1>2, <1>5 DEF Live

LEMMA LiveTyped ==
  ASSUME TypeOK, NEW k \in Live(now)
  PROVE  k \in Key /\ table[k].id \in Nat /\ SlotOf[k] \in 0..(NSlots - 1)
<1>1. k \in Key /\ table[k] \in Entry
  BY DEF Live, TypeOK
<1> QED
  BY <1>1, IteratorAssumption DEF Entry

LEMMA DeleteStep ==
  ASSUME TypeInv, PassInv, DeleteInv, [Next]_vars
  PROVE  DeleteInv'
<1>1. /\ TypeOK /\ (pc = "items" => stack_idx <= Len(stack))
      /\ slot_idx \in Nat /\ stack_idx \in Nat /\ stack \in Seq(Match) /\ Len(stack) \in Nat
      /\ stores \in Nat /\ since \in Nat /\ since <= stores
  BY IteratorAssumption DEF TypeInv, TypeOK, DeleteInv
<1> DEFINE Newer == \A k \in Live(now) \cap Match :
                      table[k].id > since \/ SlotOf[k] >= slot_idx \/ k \in Left
<1> USE DEF cacheVars, itVars, control, history
<1>2. CASE rewind
  <2>1. /\ UNCHANGED <<table, now, stores, list>>
        /\ \/ pass' = "on" /\ since' = stores
           \/ UNCHANGED <<pass, since>>
    BY <1>2 DEF rewind
  <2>2. pass # "deleting"
    BY <1>2 DEF rewind, DeleteInv
  <2> QED
    BY <1>1, <2>1, <2>2, StillLive DEF DeleteInv, DeleteLeavesOnlyNewer
<1>3. CASE valid \/ current \/ next \/ getTotalCount \/ CountTotals
  <2>1. /\ UNCHANGED <<table, now, stores, since>> /\ pc \in {"script", "totals"}
        /\ pass' = pass \/ pass' = "ended"
    BY <1>3 DEF valid, current, next, getTotalCount, CountTotals, Answer
  <2>2. pass # "deleting"
    BY <2>1 DEF DeleteInv
  <2> QED
    BY <2>1, <2>2, StillLive DEF DeleteInv, DeleteLeavesOnlyNewer
<1>4. CASE apcu_delete
  <2>1. /\ UNCHANGED <<table, now, stores, list, slot_idx>> /\ pc' = "fetch" /\ call' = "delete"
    BY <1>4 DEF apcu_delete, StartFetch
  <2>2. CASE pass' = "deleting"
    <3>1. list = "active" /\ slot_idx = 0 /\ since' = stores
      BY <1>4, <2>2 DEF apcu_delete
    <3>2. \A k \in Live(now) : SlotOf[k] >= slot_idx
      BY <1>1, <3>1, LiveTyped, IteratorAssumption
    <3>3. Live(now)' = Live(now)
      BY <2>1, StillLive
    <3> QED
      BY <1>1, <2>1, <2>2, <3>1, <3>2, <3>3 DEF DeleteInv, DeleteLeavesOnlyNewer
  <2>3. CASE pass' # "deleting"
    <3>1. pass' = "none" /\ since' = since
      BY <1>4, <2>3 DEF apcu_delete
    <3> QED
      BY <1>1, <2>1, <3>1 DEF DeleteInv, DeleteLeavesOnlyNewer
  <2> QED
    BY <2>2, <2>3
<1>5. CASE FetchChunk
  <2>1. /\ UNCHANGED <<table, now, stores, since, list, call, t>> /\ pc = "fetch"
        /\ stack_idx' = 0 /\ (list = "active" => Fetches)
    BY <1>1, <1>5, FetchTyped DEF FetchChunk
  <2>2. Live(now)' = Live(now)
    BY <2>1, StillLive
  <2>3. CASE pass = "deleting"
    <3>1. list = "active" /\ call = "delete" /\ Newer /\ Left = {}
      BY <2>1, <2>3 DEF DeleteInv, Left
    <3>2. /\ slot_idx' \in slot_idx..NSlots /\ stack' \in Seq(Match)
          /\ ToSet(stack') = Chunk(slot_idx, slot_idx', t)
          /\ stack' = <<>> => slot_idx' = NSlots
      BY <2>1, <3>1 DEF Fetches
    <3>3. ASSUME NEW k \in Live(now) \cap Match, ~(table[k].id > since), SlotOf[k] < slot_idx'
          PROVE  k \in ToSet(stack')
      <4>1. k \in Key /\ SlotOf[k] \in 0..(NSlots - 1)
        BY <1>1, <3>3, LiveTyped
      <4>2. SlotOf[k] >= slot_idx
        BY <3>1, <3>3
      <4>3. k \in Live(t)
        BY <1>1, <3>3, LiveEarlier DEF TypeOK
      <4>4. SlotOf[k] \in slot_idx..(slot_idx' - 1)
        BY <1>1, <3>2, <3>3, <4>1, <4>2, IteratorAssumption
      <4>5. k \in Chunk(slot_idx, slot_idx', t)
        BY <3>3, <4>3, <4>4 DEF Chunk
      <4> QED
        BY <3>2, <4>5
    <3>4. \A k \in Live(now) : SlotOf[k] >= slot_idx' \/ SlotOf[k] < slot_idx'
      BY <1>1, <3>2, LiveTyped, IteratorAssumption
    <3>5. CASE stack' = <<>>
      <4>1. pass' = "deleted" /\ slot_idx' = NSlots /\ ToSet(stack') = {}
        BY <1>5, <2>3, <3>1, <3>2, <3>5, Listed DEF FetchChunk, Fetched
      <4>2. \A k \in Live(now) : SlotOf[k] < slot_idx'
        BY <1>1, <4>1, LiveTyped, IteratorAssumption
      <4>3. \A k \in Live(now) \cap Match : table[k].id > since
        BY <3>3, <4>1, <4>2
      <4> QED
        BY <1>1, <2>1, <2>2, <4>1, <4>3 DEF DeleteInv, DeleteLeavesOnlyNewer
    <3>6. CASE stack' # <<>>
      <4>1. pc' = "items" /\ pass' = "deleting"
        <5>1. Fetched # 0
          BY <3>1, <3>2, <3>6 DEF Fetched
        <5> QED
          BY <1>5, <2>3, <3>1, <5>1 DEF FetchChunk
      <4>2. Left' = ToSet(stack')
        <5>1. Left' = {stack'[i] : i \in 1..Len(stack')}
          BY <2>1, <4>1 DEF Left
        <5> QED
          BY <3>2, <5>1, Listed
      <4> QED
        BY <1>1, <2>1, <2>2, <3>1, <3>3, <3>4, <4>1, <4>2 DEF DeleteInv, DeleteLeavesOnlyNewer
    <3> QED
      BY <3>5, <3>6
  <2>4. CASE pass # "deleting"
    <3>1. pass' # "deleting" /\ (pass' = "deleted" => pass = "deleted")
      BY <1>5, <2>4 DEF FetchChunk, Answer
    <3> QED
      BY <2>1, <2>2, <3>1 DEF DeleteInv, DeleteLeavesOnlyNewer
  <2> QED
    BY <2>3, <2>4
<1>6. ASSUME NEW held \in Pinned, DeleteItem(held) PROVE DeleteInv'
  <2> DEFINE x == stack[stack_idx + 1]
  <2>1. /\ table' = [k \in Key |-> IF k \in {x} THEN Absent ELSE table[k]]
        /\ UNCHANGED <<now, stores, since, list, slot_idx, stack, pc, call, pass>>
        /\ pc = "items" /\ stack_idx' = stack_idx + 1
    BY <1>6 DEF DeleteItem, Unlink
  <2> HIDE DEF x
  <2>2. \A k \in Live(now)' : k \in Live(now) /\ k # x /\ table'[k] = table[k]
    BY <2>1 DEF Live, Unexpired
  <2>3. Left \subseteq Left' \cup {x}
    <3>1. \A i \in (stack_idx + 1)..Len(stack) :
            i = stack_idx + 1 \/ i \in (stack_idx + 2)..Len(stack)
      BY <1>1
    <3>2. Left = {stack[i] : i \in (stack_idx + 1)..Len(stack)}
          /\ Left' = {stack[i] : i \in (stack_idx + 2)..Len(stack)}
      BY <1>1, <2>1 DEF Left
    <3> QED
      BY <3>1, <3>2 DEF x
  <2> QED
    BY <2>1, <2>2, <2>3 DEF DeleteInv, DeleteLeavesOnlyNewer
<1>7. CASE DeleteItemUnlocked
  <2>1. /\ UNCHANGED <<table, now, stores, since>>
        /\ pass' # "deleting" /\ (pass' = "deleted" => pass = "deleted")
    BY <1>7 DEF DeleteItemUnlocked
  <2> QED
    BY <2>1, StillLive DEF DeleteInv, DeleteLeavesOnlyNewer
<1>8. CASE DeleteMore
  <2>1. /\ UNCHANGED <<table, now, stores, since, list, slot_idx, stack, stack_idx, pass>>
        /\ Empty /\ pc' = "fetch" /\ call' = "delete"
    BY <1>8 DEF DeleteMore, StartFetch
  <2>2. Left = {} /\ Left' = {} /\ Live(now)' = Live(now)
    BY <1>1, <2>1, NothingLeft, StillLive DEF Left
  <2> QED
    BY <2>1, <2>2 DEF DeleteInv, DeleteLeavesOnlyNewer
<1>9. CASE Others
  <2>1. Meanwhile
    BY <1>1, <1>9, OthersMeanwhile
  <2>2. UNCHANGED <<list, slot_idx, pc, call, pass, since>> /\ Left' = Left
    BY <2>1 DEF Meanwhile, Left
  <2>3. since <= stores'
    BY <1>1, <2>1, IteratorAssumption DEF Meanwhile
  <2>4. ASSUME NEW k \in Live(now)'
        PROVE  table'[k].id > since \/ (k \in Live(now) /\ table'[k] = table[k])
    <3>1. CASE table'[k].id > stores
      <4>1. table'[k] \in Entry
        BY <2>1, <2>4 DEF Meanwhile, Live
      <4>2. table'[k].id \in Nat
        BY <4>1, IteratorAssumption DEF Entry
      <4> QED
        BY <1>1, <3>1, <4>2
    <3>2. CASE ~(table'[k].id > stores)
      BY <1>1, <2>1, <3>2, MeanwhileLive
    <3> QED
      BY <3>1, <3>2
  <2> QED
    BY <2>2, <2>3, <2>4 DEF DeleteInv, DeleteLeavesOnlyNewer
<1>10. CASE UNCHANGED vars
  <2>1. UNCHANGED <<table, now, stores, list, slot_idx, stack, stack_idx, pc, call, pass, since>>
    BY <1>10 DEF vars
  <2>2. Left' = Left /\ Live(now)' = Live(now)
    BY <2>1, StillLive DEF Left
  <2> QED
    BY <2>1, <2>2 DEF DeleteInv, DeleteLeavesOnlyNewer
<1> QED
  BY <1>2, <1>3, <1>4, <1>5, <1>6, <1>7, <1>8, <1>9, <1>10 DEF Next, Script, Continues

\* apcu_delete() of a new iterator leaves, of the entries that match, only those
\* that expired or were stored after it began, if no deletion gave up on the write
\* lock (apc_iterator_delete()).
THEOREM DeleteLeavesOnlyNewerHolds == Spec => []DeleteLeavesOnlyNewer
<1>1. Init => PassInv /\ DeleteInv
  <2> SUFFICES ASSUME Init PROVE PassInv /\ DeleteInv
    OBVIOUS
  <2>1. /\ pass = "none" /\ through = {} /\ visited = <<>> /\ stack_idx = 0
        /\ since = 0 /\ stores = 0
    BY DEF Init
  <2>2. IsInjective(visited)
    BY <2>1 DEF IsInjective
  <2> QED
    BY <2>1, <2>2 DEF PassInv, DeleteInv, DeleteLeavesOnlyNewer
<1>2. TypeInv /\ PassInv /\ DeleteInv /\ [Next]_vars => PassInv' /\ DeleteInv'
  BY PassStep, DeleteStep
<1>3. DeleteInv => DeleteLeavesOnlyNewer
  BY DEF DeleteInv
<1> QED
  BY <1>1, <1>2, <1>3, AlwaysTyped, PTL DEF Spec
=============================================================================
