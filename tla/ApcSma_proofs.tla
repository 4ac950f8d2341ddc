---------------------------- MODULE ApcSma_proofs ----------------------------
(***************************************************************************)
(* The allocator, for segments and requests of any size: its headers tile  *)
(* the segment, its tags and its list tell the truth, its clients see the  *)
(* heap of ApcAlloc, and what they write into their blocks stays theirs.   *)
(***************************************************************************)
EXTENDS ApcValues, ApcHeap_proofs

-----------------------------------------------------------------------------
(* Headers *)

Inner(b) == DOMAIN b \ {FirstBlk, LastBlk}

Headers(b) ==
  /\ DOMAIN b \subseteq Offset /\ {FirstBlk, Start, LastBlk} \subseteq DOMAIN b
  /\ \A o \in DOMAIN b : b[o] \in Block

\* What the assumptions say of the constants.
LEMMA Constants ==
  /\ Cells \in Nat \ {0} /\ FirstBlk = 1 /\ Start = 2 /\ LastBlk = Cells + 2 /\ Hdr = 1
  /\ Offset = 1..(Cells + 2) /\ 0 \notin Id
  /\ MinBlock \in Nat /\ MinBlock > 1 /\ BestFitLimit \in Nat
  /\ \A n \in Sizes : n \in Nat /\ n > 1
BY CellsAssumption, SmaAssumption DEF FirstBlk, Start, LastBlk, Offset, Hdr

\* The types of a header's fields.
LEMMA Fields ==
  ASSUME NEW e \in Block
  PROVE  /\ e.size \in 0..Cells /\ e.prev_size \in 0..Cells
         /\ e.fnext \in Offset \cup {0} /\ e.fprev \in 0..LastBlk /\ e.data \in Id \cup {0}
BY DEF Block

\* c is b but for the links: fnext and fprev are as f and g say.
Relinked(b, c, f, g) ==
  /\ DOMAIN c = DOMAIN b /\ Headers(c)
  /\ \A x \in DOMAIN b : /\ c[x].size = b[x].size /\ c[x].prev_size = b[x].prev_size
                         /\ c[x].data = b[x].data
                         /\ c[x].fnext = f[x] /\ c[x].fprev = g[x]

\* unlink_free_block() changes two links.
LEMMA UnlinkIs ==
  ASSUME NEW b, Headers(b), NEW o \in DOMAIN b,
         b[o].fprev \in DOMAIN b, b[o].fnext \in DOMAIN b
  PROVE  Relinked(b, Unlink(b, o),
           [x \in DOMAIN b |-> IF x = b[o].fprev THEN b[o].fnext ELSE b[x].fnext],
           [x \in DOMAIN b |-> IF x = b[o].fnext THEN b[o].fprev ELSE b[x].fprev])
<1> DEFINE p == b[o].fprev
           n == b[o].fnext
           c == [b EXCEPT ![p].fnext = n]
           d == [c EXCEPT ![n].fprev = p]
<1>1. Unlink(b, o) = d
  BY DEF Unlink
<1>2. p \in DOMAIN b /\ n \in DOMAIN b /\ p \in 0..LastBlk /\ n \in Offset
  BY Fields DEF Headers
<1> HIDE DEF p, n
<1>3. \A x \in DOMAIN b : b[x] \in Block
  BY DEF Headers
<1>4. /\ DOMAIN c = DOMAIN b
      /\ \A x \in DOMAIN b : c[x] = IF x = p THEN [b[x] EXCEPT !.fnext = n] ELSE b[x]
  OBVIOUS
<1>5. \A x \in DOMAIN b :
        /\ c[x] \in Block
        /\ c[x].size = b[x].size /\ c[x].prev_size = b[x].prev_size
        /\ c[x].data = b[x].data /\ c[x].fprev = b[x].fprev
        /\ c[x].fnext = IF x = p THEN n ELSE b[x].fnext
  BY <1>2, <1>3, <1>4 DEF Block
<1> HIDE DEF c
<1>6. /\ DOMAIN d = DOMAIN b
      /\ \A x \in DOMAIN b : d[x] = IF x = n THEN [c[x] EXCEPT !.fprev = p] ELSE c[x]
  BY <1>4
<1> HIDE DEF d
<1>7. \A x \in DOMAIN b :
        /\ d[x] \in Block
        /\ d[x].size = c[x].size /\ d[x].prev_size = c[x].prev_size
        /\ d[x].data = c[x].data /\ d[x].fnext = c[x].fnext
        /\ d[x].fprev = IF x = n THEN p ELSE c[x].fprev
  BY <1>2, <1>5, <1>6 DEF Block
<1>8. Headers(d)
  BY <1>6, <1>7 DEF Headers
<1> QED
  BY <1>1, <1>5, <1>6, <1>7, <1>8 DEF Relinked, p, n

\* link_free_block() changes four links.
LEMMA LinkIs ==
  ASSUME NEW b, Headers(b), NEW o \in DOMAIN b, o # FirstBlk,
         b[FirstBlk].fnext \in DOMAIN b, b[FirstBlk].fnext \notin {o, FirstBlk}
  PROVE  Relinked(b, LinkAtStart(b, o),
           [x \in DOMAIN b |-> IF x = o THEN b[FirstBlk].fnext
                               ELSE IF x = FirstBlk THEN o ELSE b[x].fnext],
           [x \in DOMAIN b |-> IF x = o THEN FirstBlk
                               ELSE IF x = b[FirstBlk].fnext THEN o ELSE b[x].fprev])
<1> DEFINE h == b[FirstBlk].fnext
           c == [b EXCEPT ![o].fnext = h, ![o].fprev = FirstBlk, ![FirstBlk].fnext = o,
                          ![h].fprev = o]
<1>1. LinkAtStart(b, o) = c
  BY DEF LinkAtStart
<1>2. h \in DOMAIN b /\ h \in Offset /\ h # o /\ h # FirstBlk /\ o \in Offset
      /\ FirstBlk \in DOMAIN b /\ Offset \subseteq 0..LastBlk
  BY Constants, Fields DEF Headers
<1> HIDE DEF h
<1>3. \A x \in DOMAIN b : b[x] \in Block
  BY DEF Headers
<1>4. /\ DOMAIN c = DOMAIN b
      /\ c[o] = [b[o] EXCEPT !.fnext = h, !.fprev = FirstBlk]
      /\ c[FirstBlk] = [b[FirstBlk] EXCEPT !.fnext = o]
      /\ c[h] = [b[h] EXCEPT !.fprev = o]
      /\ \A x \in DOMAIN b \ {o, FirstBlk, h} : c[x] = b[x]
  BY <1>2
<1> HIDE DEF c
<1>5. /\ c[o] \in Block /\ c[o].size = b[o].size /\ c[o].prev_size = b[o].prev_size
      /\ c[o].data = b[o].data /\ c[o].fnext = h /\ c[o].fprev = FirstBlk
  <2> DEFINE e == [b[o] EXCEPT !.fnext = h]
  <2>1. /\ e \in Block /\ e.size = b[o].size /\ e.prev_size = b[o].prev_size
        /\ e.data = b[o].data /\ e.fnext = h
    BY <1>2, <1>3 DEF Block
  <2>2. c[o] = [[b[o] EXCEPT !.fnext = h] EXCEPT !.fprev = FirstBlk]
    BY <1>4
  <2>3. c[o] = [e EXCEPT !.fprev = FirstBlk]
    BY <2>2 DEF e
  <2>4. FirstBlk \in 0..LastBlk
    BY <1>2, <1>3 DEF Headers
  <2> HIDE DEF e
  <2> QED
    BY <2>1, <2>3, <2>4 DEF Block
<1>6. LET f == FirstBlk IN
      /\ c[f] \in Block /\ c[f].size = b[f].size /\ c[f].prev_size = b[f].prev_size
      /\ c[f].data = b[f].data /\ c[f].fnext = o /\ c[f].fprev = b[f].fprev
  BY <1>2, <1>3, <1>4 DEF Block
<1>7. /\ c[h] \in Block /\ c[h].size = b[h].size /\ c[h].prev_size = b[h].prev_size
      /\ c[h].data = b[h].data /\ c[h].fnext = b[h].fnext /\ c[h].fprev = o
  BY <1>2, <1>3, <1>4 DEF Block
<1>8. Headers(c)
  BY <1>3, <1>4, <1>5, <1>6, <1>7 DEF Headers
<1> DEFINE f == [x \in DOMAIN b |-> IF x = o THEN h ELSE IF x = FirstBlk THEN o ELSE b[x].fnext]
           g == [x \in DOMAIN b |-> IF x = o THEN FirstBlk ELSE IF x = h THEN o ELSE b[x].fprev]
<1>9. ASSUME NEW x \in DOMAIN b
      PROVE  /\ c[x].size = b[x].size /\ c[x].prev_size = b[x].prev_size
             /\ c[x].data = b[x].data /\ c[x].fnext = f[x] /\ c[x].fprev = g[x]
  <2>1. CASE x = o
    BY <1>2, <1>5, <2>1
  <2>2. CASE x = FirstBlk
    BY <1>2, <1>6, <2>2
  <2>3. CASE x = h
    BY <1>2, <1>7, <2>3
  <2>4. CASE x \notin {o, FirstBlk, h}
    BY <1>4, <2>4
  <2> QED
    BY <2>1, <2>2, <2>3, <2>4
<1>10. Relinked(b, c, f, g)
  <2> HIDE DEF f, g
  <2> QED
    BY <1>4, <1>8, <1>9 DEF Relinked
<1> QED
  BY <1>1, <1>10 DEF h

-----------------------------------------------------------------------------
(* The free list: F are its blocks, and their rank falls from the first to    *)
(* the last, so that the list has no cycle and misses none of them.           *)

Linked(b, F, r) ==
  /\ r \in [F \cup {FirstBlk, LastBlk} -> Nat] /\ \A o \in F : r[o] < r[FirstBlk]
  /\ \A o \in F \cup {FirstBlk} :
       /\ b[o].fnext \in F \cup {LastBlk}
       /\ b[b[o].fnext].fprev = o /\ r[b[o].fnext] < r[o]
  /\ \A o \in F \cup {LastBlk} :
       b[o].fprev \in F \cup {FirstBlk} /\ b[b[o].fprev].fnext = o

\* Only the links of the list matter to it.
LEMMA LinkedSame ==
  ASSUME NEW b, NEW c, NEW F, NEW r, Linked(b, F, r),
         \A x \in F \cup {FirstBlk, LastBlk} : c[x].fnext = b[x].fnext /\ c[x].fprev = b[x].fprev
  PROVE  Linked(c, F, r)
BY DEF Linked

\* unlink_free_block() takes the block out and nothing else.
LEMMA UnlinkKeeps ==
  ASSUME NEW b, Headers(b), NEW F \in SUBSET Inner(b), NEW r, Linked(b, F, r), NEW o \in F
  PROVE  LET c == Unlink(b, o) IN
         /\ DOMAIN c = DOMAIN b /\ Headers(c)
         /\ \A x \in DOMAIN b : /\ c[x].size = b[x].size /\ c[x].prev_size = b[x].prev_size
                                /\ c[x].data = b[x].data
         /\ \A x \in DOMAIN b \ ((F \ {o}) \cup {FirstBlk, LastBlk}) :
              c[x].fnext = b[x].fnext /\ c[x].fprev = b[x].fprev
         /\ c[LastBlk].fnext = b[LastBlk].fnext
         /\ \E q : Linked(c, F \ {o}, q)
<1> DEFINE c == Unlink(b, o)
           p == b[o].fprev
           n == b[o].fnext
<1>1. /\ p \in F \cup {FirstBlk} /\ n \in F \cup {LastBlk} /\ b[p].fnext = o /\ b[n].fprev = o
      /\ r[n] < r[o] /\ r[o] < r[p] /\ r[n] \in Nat /\ r[o] \in Nat /\ r[p] \in Nat
  <2>1. p \in F \cup {FirstBlk} /\ n \in F \cup {LastBlk} /\ b[p].fnext = o /\ b[n].fprev = o
    BY DEF Linked
  <2>2. r[n] < r[o] /\ r[o] < r[p]
    BY <2>1 DEF Linked
  <2>3. r[n] \in Nat /\ r[o] \in Nat /\ r[p] \in Nat
    BY <2>1 DEF Linked
  <2> QED
    BY <2>1, <2>2, <2>3
<1>2. FirstBlk \in DOMAIN b /\ LastBlk \in DOMAIN b /\ F \subseteq DOMAIN b
      /\ FirstBlk # LastBlk /\ FirstBlk \notin F /\ LastBlk \notin F
  BY Constants DEF Headers, Inner
<1>3. p # o /\ n # o /\ p # n /\ p # LastBlk /\ n # FirstBlk
  BY <1>1, <1>2
<1>4. Relinked(b, c, [x \in DOMAIN b |-> IF x = p THEN n ELSE b[x].fnext],
                     [x \in DOMAIN b |-> IF x = n THEN p ELSE b[x].fprev])
  BY <1>1, <1>2, UnlinkIs
<1> HIDE DEF c, p, n
<1>5. /\ DOMAIN c = DOMAIN b /\ Headers(c)
      /\ \A x \in DOMAIN b : /\ c[x].size = b[x].size /\ c[x].prev_size = b[x].prev_size
                             /\ c[x].data = b[x].data
                             /\ c[x].fnext = IF x = p THEN n ELSE b[x].fnext
                             /\ c[x].fprev = IF x = n THEN p ELSE b[x].fprev
  BY <1>4 DEF Relinked
<1>6. \A x \in DOMAIN b \ ((F \ {o}) \cup {FirstBlk, LastBlk}) :
        c[x].fnext = b[x].fnext /\ c[x].fprev = b[x].fprev
  BY <1>1, <1>3, <1>5
<1> DEFINE q == [x \in (F \ {o}) \cup {FirstBlk, LastBlk} |-> r[x]]
<1>7. Linked(c, F \ {o}, q)
  <2>1. q \in [(F \ {o}) \cup {FirstBlk, LastBlk} -> Nat]
    BY DEF Linked
  <2>2. ASSUME NEW x \in (F \ {o}) \cup {FirstBlk}
        PROVE  /\ c[x].fnext \in (F \ {o}) \cup {LastBlk}
               /\ c[c[x].fnext].fprev = x /\ q[c[x].fnext] < q[x]
    <3>1. CASE x = p
      BY <1>1, <1>2, <1>3, <1>5, <3>1
    <3>2. CASE x # p
      <4>1. b[x].fnext \in F \cup {LastBlk} /\ b[b[x].fnext].fprev = x /\ r[b[x].fnext] < r[x]
        BY DEF Linked
      <4>2. b[x].fnext # o /\ b[x].fnext # n
        BY <1>1, <1>2, <2>2, <3>2, <4>1 DEF p
      <4>3. c[x].fnext = b[x].fnext
        BY <1>2, <1>5, <3>2
      <4>4. c[b[x].fnext].fprev = b[b[x].fnext].fprev
        BY <1>2, <1>5, <4>1, <4>2
      <4> QED
        BY <4>1, <4>2, <4>3, <4>4
    <3> QED
      BY <3>1, <3>2
  <2>3. ASSUME NEW x \in (F \ {o}) \cup {LastBlk}
        PROVE  c[x].fprev \in (F \ {o}) \cup {FirstBlk} /\ c[c[x].fprev].fnext = x
    <3>1. CASE x = n
      BY <1>1, <1>2, <1>3, <1>5, <3>1
    <3>2. CASE x # n
      <4>1. b[x].fprev \in F \cup {FirstBlk} /\ b[b[x].fprev].fnext = x
        BY DEF Linked
      <4>2. b[x].fprev # o /\ b[x].fprev # p
        BY <1>1, <1>2, <2>3, <3>2, <4>1 DEF n
      <4>3. c[x].fprev = b[x].fprev
        BY <1>2, <1>5, <3>2
      <4>4. c[b[x].fprev].fnext = b[b[x].fprev].fnext
        BY <1>2, <1>5, <4>1, <4>2
      <4> QED
        BY <4>1, <4>2, <4>3, <4>4
    <3> QED
      BY <3>1, <3>2
  <2>4. \A x \in F \ {o} : q[x] < q[FirstBlk]
    BY DEF Linked
  <2> HIDE DEF q
  <2> QED
    BY <2>1, <2>2, <2>3, <2>4 DEF Linked
<1>8. c[LastBlk].fnext = b[LastBlk].fnext
  BY <1>2, <1>3, <1>5
<1> HIDE DEF q
<1> QED
  BY <1>5, <1>6, <1>7, <1>8 DEF c

\* link_free_block_at_start() puts one block before the others.
LEMMA LinkKeeps ==
  ASSUME NEW b, Headers(b), NEW F \in SUBSET Inner(b), NEW r, Linked(b, F, r),
         NEW o \in Inner(b) \ F
  PROVE  LET c == LinkAtStart(b, o) IN
         /\ DOMAIN c = DOMAIN b /\ Headers(c)
         /\ \A x \in DOMAIN b : /\ c[x].size = b[x].size /\ c[x].prev_size = b[x].prev_size
                                /\ c[x].data = b[x].data
         /\ \A x \in DOMAIN b \ (F \cup {o, FirstBlk, LastBlk}) :
              c[x].fnext = b[x].fnext /\ c[x].fprev = b[x].fprev
         /\ c[LastBlk].fnext = b[LastBlk].fnext
         /\ \E q : Linked(c, F \cup {o}, q)
<1> DEFINE c == LinkAtStart(b, o)
           h == b[FirstBlk].fnext
<1>1. /\ h \in F \cup {LastBlk} /\ b[h].fprev = FirstBlk /\ r[h] < r[FirstBlk]
      /\ r[h] \in Nat /\ r[FirstBlk] \in Nat
  <2>1. h \in F \cup {LastBlk} /\ b[h].fprev = FirstBlk /\ r[h] < r[FirstBlk]
    BY DEF Linked
  <2> QED
    BY <2>1 DEF Linked
<1>2. FirstBlk \in DOMAIN b /\ LastBlk \in DOMAIN b /\ F \subseteq DOMAIN b
      /\ FirstBlk # LastBlk /\ FirstBlk \notin F /\ LastBlk \notin F
      /\ o \in DOMAIN b /\ o # FirstBlk /\ o # LastBlk /\ o \notin F
  BY Constants DEF Headers, Inner
<1>3. h # o /\ h # FirstBlk
  BY <1>1, <1>2
<1>4. Relinked(b, c,
        [x \in DOMAIN b |-> IF x = o THEN h ELSE IF x = FirstBlk THEN o ELSE b[x].fnext],
        [x \in DOMAIN b |-> IF x = o THEN FirstBlk ELSE IF x = h THEN o ELSE b[x].fprev])
  BY <1>1, <1>2, <1>3, LinkIs
<1> HIDE DEF c, h
<1>5. /\ DOMAIN c = DOMAIN b /\ Headers(c)
      /\ \A x \in DOMAIN b :
           /\ c[x].size = b[x].size /\ c[x].prev_size = b[x].prev_size
           /\ c[x].data = b[x].data
           /\ c[x].fnext = IF x = o THEN h ELSE IF x = FirstBlk THEN o ELSE b[x].fnext
           /\ c[x].fprev = IF x = o THEN FirstBlk ELSE IF x = h THEN o ELSE b[x].fprev
  BY <1>4 DEF Relinked
<1>6. \A x \in DOMAIN b \ (F \cup {o, FirstBlk, LastBlk}) :
        c[x].fnext = b[x].fnext /\ c[x].fprev = b[x].fprev
  BY <1>1, <1>5
<1> DEFINE q == [x \in F \cup {o, FirstBlk, LastBlk} |->
                   IF x = o THEN r[FirstBlk] ELSE IF x = FirstBlk THEN r[FirstBlk] + 1 ELSE r[x]]
<1>7. Linked(c, F \cup {o}, q)
  <2>1. q \in [(F \cup {o}) \cup {FirstBlk, LastBlk} -> Nat]
    <3>1. \A x \in F \cup {FirstBlk, LastBlk} : r[x] \in Nat
      BY DEF Linked
    <3>2. \A x \in F \cup {o, FirstBlk, LastBlk} : q[x] \in Nat
      BY <1>1, <1>2, <3>1
    <3>3. F \cup {o, FirstBlk, LastBlk} = (F \cup {o}) \cup {FirstBlk, LastBlk}
      OBVIOUS
    <3> QED
      BY <3>2, <3>3
  <2>2. ASSUME NEW x \in (F \cup {o}) \cup {FirstBlk}
        PROVE  /\ c[x].fnext \in (F \cup {o}) \cup {LastBlk}
               /\ c[c[x].fnext].fprev = x /\ q[c[x].fnext] < q[x]
    <3>1. CASE x = o
      BY <1>1, <1>2, <1>3, <1>5, <3>1
    <3>2. CASE x = FirstBlk
      BY <1>1, <1>2, <1>3, <1>5, <3>2
    <3>3. CASE x \in F
      <4>1. b[x].fnext \in F \cup {LastBlk} /\ b[b[x].fnext].fprev = x /\ r[b[x].fnext] < r[x]
        BY <3>3 DEF Linked
      <4>2. b[x].fnext # h /\ b[x].fnext # o /\ x # o /\ x # FirstBlk /\ b[x].fnext # FirstBlk
        BY <1>1, <1>2, <3>3, <4>1
      <4>3. c[x].fnext = b[x].fnext
        BY <1>2, <1>5, <3>3, <4>2
      <4>4. c[b[x].fnext].fprev = b[b[x].fnext].fprev
        BY <1>2, <1>5, <4>1, <4>2
      <4>5. q[b[x].fnext] = r[b[x].fnext] /\ q[x] = r[x]
        BY <3>3, <4>1, <4>2
      <4> HIDE DEF q
      <4> QED
        BY <4>1, <4>2, <4>3, <4>4, <4>5
    <3> QED
      BY <3>1, <3>2, <3>3
  <2>3. ASSUME NEW x \in (F \cup {o}) \cup {LastBlk}
        PROVE  c[x].fprev \in (F \cup {o}) \cup {FirstBlk} /\ c[c[x].fprev].fnext = x
    <3>1. CASE x = o
      BY <1>1, <1>2, <1>3, <1>5, <3>1
    <3>2. CASE x = h
      BY <1>1, <1>2, <1>3, <1>5, <3>2
    <3>3. CASE x # o /\ x # h
      <4>1. b[x].fprev \in F \cup {FirstBlk} /\ b[b[x].fprev].fnext = x
        BY <2>3, <3>3 DEF Linked
      <4>2. b[x].fprev # FirstBlk /\ b[x].fprev # o
        BY <1>1, <1>2, <3>3, <4>1 DEF h
      <4>3. c[x].fprev = b[x].fprev
        BY <1>2, <1>5, <2>3, <3>3
      <4>4. c[b[x].fprev].fnext = b[b[x].fprev].fnext
        BY <1>2, <1>5, <4>1, <4>2
      <4> QED
        BY <4>1, <4>2, <4>3, <4>4
    <3> QED
      BY <3>1, <3>2, <3>3
  <2>4. \A x \in F \cup {o} : q[x] < q[FirstBlk]
    <3>1. \A x \in F : r[x] < r[FirstBlk] /\ r[x] \in Nat
      BY DEF Linked
    <3>2. q[FirstBlk] = r[FirstBlk] + 1
      BY <1>2
    <3>3. \A x \in F : q[x] = r[x]
      BY <1>2
    <3>4. q[o] = r[FirstBlk]
      OBVIOUS
    <3> HIDE DEF q
    <3> QED
      BY <1>1, <3>1, <3>2, <3>3, <3>4
  <2> HIDE DEF q
  <2> QED
    BY <2>1, <2>2, <2>3, <2>4 DEF Linked
<1>8. c[LastBlk].fnext = b[LastBlk].fnext
  BY <1>2, <1>5
<1> HIDE DEF q
<1> QED
  BY <1>5, <1>6, <1>7, <1>8 DEF c


-----------------------------------------------------------------------------
(* Sizes                                                                     *)

Total(b, S) == MapThenSumSet(LAMBDA o : b[o].size, S)

\* The total is a sum over a finite set.
LEMMA TotalSums ==
  ASSUME NEW b, NEW S, IsFiniteSet(S)
  PROVE  \E g : Sums([o \in S |-> b[o].size], S, g) /\ Total(b, S) = g[S]
<1> DEFINE w == [o \in S |-> b[o].size]
           iter == CHOOSE iter : iter = [s \in SUBSET S |-> IF s = {} THEN 0
                     ELSE LET x == CHOOSE x \in s : TRUE IN b[x].size + iter[s \ {x}]]
<1>1. PICK g : Sums(w, S, g)
  BY SumsExist
<1>2. g = [s \in SUBSET S |-> IF s = {} THEN 0
                     ELSE LET x == CHOOSE x \in s : TRUE IN b[x].size + g[s \ {x}]]
  BY <1>1 DEF Sums, Summed
<1>3. iter = [s \in SUBSET S |-> IF s = {} THEN 0
                     ELSE LET x == CHOOSE x \in s : TRUE IN b[x].size + iter[s \ {x}]]
  BY <1>2
<1>4. Total(b, S) = iter[S]
  BY DEF Total, MapThenSumSet, MapThenFoldSet
<1> HIDE DEF iter
<1>5. Sums(w, S, iter)
  BY <1>3 DEF Sums, Summed
<1> QED
  BY <1>4, <1>5

Sized(b, S) == IsFiniteSet(S) /\ \A o \in S : b[o].size \in Nat

\* The sum over a set is the same whichever element is counted first.
LEMMA TotalTakes ==
  ASSUME NEW b, NEW S, Sized(b, S)
  PROVE  /\ Total(b, S) \in Nat /\ (S = {} => Total(b, S) = 0)
         /\ \A y \in S : Total(b, S) = b[y].size + Total(b, S \ {y})
<1> DEFINE w == [o \in S |-> b[o].size]
<1>1. PICK g : Sums(w, S, g) /\ Total(b, S) = g[S]
  BY TotalSums DEF Sized
<1>2. \A x \in S : w[x] \in Nat
  BY DEF Sized
<1> HIDE DEF w
<1>3. /\ g[S] \in Nat /\ (S = {} => g[S] = 0) /\ \A y \in S : g[S] = w[y] + g[S \ {y}]
  <2>1. IsFiniteSet(S) /\ Sums(w, S, g)
    BY <1>1 DEF Sized
  <2>2. AnyOrder(w, S, g)
    BY <1>2, <2>1, SumsAny
  <2> QED
    BY <2>2 DEF AnyOrder
<1>4. ASSUME NEW y \in S PROVE Total(b, S) = b[y].size + Total(b, S \ {y})
  <2> DEFINE B == S \ {y}
             v == [o \in B |-> b[o].size]
  <2>1. IsFiniteSet(B) /\ B \in SUBSET (S \cap B)
    BY FS_Subset DEF Sized
  <2>2. PICK h : Sums(v, B, h) /\ Total(b, B) = h[B]
    BY <2>1, TotalSums
  <2>3. \A x \in B : w[x] = v[x]
    BY DEF w
  <2> HIDE DEF v, B
  <2>4. g[B] = h[B]
    BY <1>1, <2>1, <2>2, <2>3, SumsAgree
  <2> QED
    BY <1>1, <1>3, <2>2, <2>4 DEF w, B
<1> QED
  BY <1>1, <1>3, <1>4

\* The total depends on the sizes only.
LEMMA TotalSame ==
  ASSUME NEW b, NEW c, NEW S, IsFiniteSet(S), \A o \in S : c[o].size = b[o].size
  PROVE  Total(c, S) = Total(b, S)
<1> DEFINE w == [o \in S |-> b[o].size]
           v == [o \in S |-> c[o].size]
<1>1. PICK g : Sums(w, S, g) /\ Total(b, S) = g[S]
  BY TotalSums
<1>2. PICK h : Sums(v, S, h) /\ Total(c, S) = h[S]
  BY TotalSums
<1>3. v = w
  OBVIOUS
<1> HIDE DEF v, w
<1>4. g[S] = h[S]
  BY <1>1, <1>2, <1>3, SumsAgree
<1> QED
  BY <1>1, <1>2, <1>4

-----------------------------------------------------------------------------
(* The blocks tile the segment.                                              *)

Tiles(b) ==
  \A o \in Inner(b) :
    /\ b[o].size > 0 /\ Next_S(b, o) \in DOMAIN b
    /\ \A x \in DOMAIN b : x > o => Next_S(b, o) <= x

\* Headers lie in the segment, and there are finitely many.
LEMMA Offsets ==
  ASSUME NEW b, Headers(b)
  PROVE  /\ DOMAIN b \subseteq 1..(Cells + 2) /\ IsFiniteSet(DOMAIN b)
         /\ Inner(b) \subseteq 2..(Cells + 1) /\ Start \in Inner(b) /\ IsFiniteSet(Inner(b))
         /\ FirstBlk \in DOMAIN b /\ LastBlk \in DOMAIN b
         /\ \A o \in DOMAIN b : b[o].size \in 0..Cells
<1>1. DOMAIN b \subseteq 1..(Cells + 2) /\ Cells \in Nat
  BY Constants DEF Headers
<1>2. IsFiniteSet(1..(Cells + 2))
  BY <1>1, FS_Interval
<1>3. IsFiniteSet(DOMAIN b) /\ IsFiniteSet(Inner(b))
  BY <1>1, <1>2, FS_Subset DEF Inner
<1>4. Inner(b) \subseteq 2..(Cells + 1) /\ Start \in Inner(b)
  BY <1>1, Constants DEF Inner, Headers
<1>5. \A o \in DOMAIN b : b[o].size \in 0..Cells
  BY Fields DEF Headers
<1> QED
  BY <1>1, <1>3, <1>4, <1>5 DEF Headers

\* NEXT_SBLOCK finds the next header.
LEMMA NextIs ==
  ASSUME NEW b, Headers(b), Tiles(b), NEW o \in Inner(b)
  PROVE  /\ o \in 2..(Cells + 1) /\ b[o].size \in 1..Cells
         /\ Next_S(b, o) \in Inner(b) \cup {LastBlk} /\ Next_S(b, o) = o + b[o].size
         /\ Next_S(b, o) \in (o + 1)..(Cells + 2) /\ Next_S(b, o) \in DOMAIN b
         /\ \A x \in DOMAIN b : x > o => Next_S(b, o) <= x
<1>1. o \in 2..(Cells + 1) /\ Cells \in Nat /\ o \in DOMAIN b
  BY Offsets, Constants DEF Inner
<1>2. b[o].size \in 1..Cells
  BY <1>1, Offsets DEF Tiles
<1>3. Next_S(b, o) = o + b[o].size /\ Next_S(b, o) \in DOMAIN b
  BY DEF Next_S, Tiles
<1>4. Next_S(b, o) \in (o + 1)..(Cells + 2)
  BY <1>1, <1>2, <1>3, Offsets
<1>5. Next_S(b, o) # FirstBlk
  BY <1>1, <1>4, Constants
<1> QED
  BY <1>1, <1>2, <1>3, <1>4, <1>5 DEF Inner, Tiles

\* Two blocks do not end at the same place.
LEMMA OnePrevious ==
  ASSUME NEW b, Headers(b), Tiles(b), NEW o \in Inner(b), NEW p \in Inner(b),
         Next_S(b, o) = Next_S(b, p)
  PROVE  o = p
<1>1. o \in Nat /\ p \in Nat /\ Next_S(b, o) \in Nat /\ o < Next_S(b, o) /\ p < Next_S(b, p)
      /\ o \in DOMAIN b /\ p \in DOMAIN b
  BY NextIs DEF Inner
<1>2. ~(o < p) /\ ~(p < o)
  BY <1>1, NextIs
<1> QED
  BY <1>1, <1>2

\* Every cell of the segment is in some block.
LEMMA Covered ==
  ASSUME NEW b, Headers(b), Tiles(b), NEW k \in 2..(Cells + 1)
  PROVE  \E o \in Inner(b) : o <= k /\ k < Next_S(b, o)
<1> DEFINE S == {o \in Inner(b) : o <= k}
<1>1. Cells \in Nat /\ k \in Nat /\ S \in SUBSET (0..k) /\ S # {}
  <2>1. Cells \in Nat /\ Start \in S
    BY Constants, Offsets
  <2> QED
    BY <2>1, Offsets
<1>2. PICK o \in S : \A x \in S : x <= o
  <2> HIDE DEF S
  <2> QED
    BY <1>1, GreatestElement
<1>3. o \in Inner(b) /\ o <= k /\ Next_S(b, o) \in Inner(b) \cup {LastBlk}
      /\ Next_S(b, o) \in Nat /\ Next_S(b, o) > o /\ o \in Nat
  BY <1>2, NextIs
<1>4. CASE Next_S(b, o) = LastBlk
  BY <1>1, <1>3, <1>4, Constants
<1>5. CASE Next_S(b, o) \in Inner(b)
  <2>1. Next_S(b, o) \notin S
    BY <1>2, <1>3
  <2> QED
    BY <1>3, <1>5, <2>1
<1> QED
  BY <1>3, <1>4, <1>5

\* Every block but the first one begins where another ends.
LEMMA PreviousIs ==
  ASSUME NEW b, Headers(b), Tiles(b), NEW o \in Inner(b) \cup {LastBlk}, o # Start
  PROVE  \E p \in Inner(b) : Next_S(b, p) = o
<1>1. Cells \in Nat /\ o \in 3..(Cells + 2)
  <2>1. Cells \in Nat \ {0} /\ LastBlk = Cells + 2 /\ Start = 2
    BY Constants
  <2>2. o \in 2..(Cells + 2)
    BY <2>1, Offsets
  <2> QED
    BY <2>1, <2>2
<1>2. PICK p \in Inner(b) : p <= o - 1 /\ o - 1 < Next_S(b, p)
  <2>1. o - 1 \in 2..(Cells + 1)
    BY <1>1
  <2> QED
    BY <2>1, Covered
<1>3. p \in Nat /\ Next_S(b, p) \in Nat /\ p < o /\ Next_S(b, p) <= o
  <2>1. o \in DOMAIN b
    BY Offsets DEF Inner
  <2> QED
    BY <1>1, <1>2, <2>1, NextIs
<1> QED
  BY <1>1, <1>2, <1>3

\* The blocks do not outgrow the segment.
LEMMA TotalFits ==
  ASSUME NEW b, Headers(b), Tiles(b), NEW S \in SUBSET Inner(b)
  PROVE  Total(b, S) \in 0..Cells
<1> DEFINE From(o) == {x \in S : x >= o}
           Fails == {o \in Inner(b) \cup {LastBlk} : ~(Total(b, From(o)) <= LastBlk - o)}
<1>1. Cells \in Nat /\ LastBlk = Cells + 2 /\ Start = 2 /\ Start \in Inner(b)
      /\ Inner(b) \subseteq 2..(Cells + 1)
  BY Constants, Offsets
<1>2. \A T \in SUBSET S : IsFiniteSet(T) /\ \A x \in T : b[x].size \in Nat
  <2>1. IsFiniteSet(S)
    BY Offsets, FS_Subset
  <2>2. \A x \in S : b[x].size \in Nat
    <3>1. \A o \in DOMAIN b : b[o].size \in 0..Cells
      BY Offsets
    <3>2. \A x \in S : x \in DOMAIN b
      BY DEF Inner
    <3> QED
      BY <3>1, <3>2
  <2> QED
    BY <2>1, <2>2, FS_Subset
<1>3. \A T \in SUBSET S : /\ Total(b, T) \in Nat /\ (T = {} => Total(b, T) = 0)
                          /\ \A y \in T : Total(b, T) = b[y].size + Total(b, T \ {y})
  BY <1>2, TotalTakes DEF Sized
<1>4. Fails = {}
  <2> SUFFICES ASSUME Fails # {} PROVE FALSE
    OBVIOUS
  <2>1. Fails \in SUBSET (0..(Cells + 2)) /\ Cells + 2 \in Nat
    BY <1>1
  <2>2. PICK o \in Fails : \A x \in Fails : x <= o
    <3> HIDE DEF Fails
    <3> QED
      BY <1>1, <2>1, GreatestElement
  <2>3. CASE o = LastBlk
    <3>1. From(o) = {} /\ From(o) \in SUBSET S
      <4>1. \A x \in S : x \in 2..(Cells + 1)
        BY <1>1
      <4>2. \A x \in S : ~(x >= Cells + 2)
        BY <1>1, <4>1
      <4> QED
        BY <1>1, <2>3, <4>2
    <3>2. Total(b, From(o)) = 0
      BY <1>3, <3>1
    <3> QED
      BY <1>1, <2>2, <2>3, <3>2
  <2>4. CASE o \in Inner(b)
    <3> DEFINE n == Next_S(b, o)
    <3>1. /\ n \in Inner(b) \cup {LastBlk} /\ n = o + b[o].size /\ n \in (o + 1)..(Cells + 2)
          /\ o \in 2..(Cells + 1) /\ b[o].size \in 1..Cells
      BY <2>4, NextIs
    <3>2. \A x \in S : x > o => n <= x
      BY <2>4, NextIs DEF Inner
    <3> HIDE DEF n
    <3>3. n \notin Fails
      BY <1>1, <2>2, <3>1
    <3>4. Total(b, From(n)) <= LastBlk - n
      BY <3>1, <3>3
    <3>5. From(n) = From(o) \ {o} /\ From(o) \in SUBSET S /\ From(n) \in SUBSET S
      BY <1>1, <3>1, <3>2
    <3>6. Total(b, From(o)) <= b[o].size + Total(b, From(n))
      <4>1. CASE o \in S
        <5>1. o \in From(o)
          BY <1>1, <3>1, <4>1
        <5>2. Total(b, From(o)) = b[o].size + Total(b, From(o) \ {o})
          BY <1>3, <3>5, <5>1
        <5>3. Total(b, From(n)) \in Nat /\ b[o].size \in Nat
          BY <1>3, <3>1, <3>5
        <5>4. Total(b, From(o)) = b[o].size + Total(b, From(n))
          BY <3>5, <5>2
        <5> HIDE DEF From
        <5> QED
          BY <5>3, <5>4
      <4>2. CASE o \notin S
        <5>1. From(o) = From(n)
          BY <3>5, <4>2
        <5>2. Total(b, From(n)) \in Nat
          BY <1>3, <3>5
        <5> HIDE DEF From
        <5> QED
          BY <3>1, <5>1, <5>2
      <4> QED
        BY <4>1, <4>2
    <3>7. Total(b, From(o)) \in Nat /\ Total(b, From(n)) \in Nat
      BY <1>3, <3>5
    <3>8. ~(Total(b, From(o)) <= LastBlk - o)
      BY <2>2
    <3> HIDE DEF From
    <3> QED
      BY <1>1, <3>1, <3>4, <3>6, <3>7, <3>8
  <2> QED
    BY <2>2, <2>3, <2>4
<1>5. Total(b, From(Start)) <= LastBlk - Start
  BY <1>1, <1>4
<1>6. From(Start) = S
  <2>1. \A x \in S : x \in 2..(Cells + 1)
    BY <1>1
  <2>2. \A x \in S : x >= 2
    BY <1>1, <2>1
  <2> QED
    BY <1>1, <2>2
<1>7. Total(b, S) \in Nat
  BY <1>3
<1> HIDE DEF From
<1> QED
  BY <1>1, <1>5, <1>6, <1>7

-----------------------------------------------------------------------------
(* The invariant of the headers.  F are the blocks in the free list, H are   *)
(* blocks in the middle of a step, neither in the list nor allocated: what   *)
(* comes after a block of H has no tag to rely on.                           *)

Used(b, F, H) == Inner(b) \ (F \cup H)

Parts(b, F, H) == F \subseteq Inner(b) /\ H \subseteq Inner(b) /\ F \cap H = {}

Tags(b, F, H) ==
  /\ b[Start].prev_size = 0
  /\ \A o \in Inner(b) \ H :
       /\ b[Next_S(b, o)].prev_size = IF o \in F THEN b[o].size ELSE 0
       /\ o \in F => Next_S(b, o) \notin F

Busy(b, U) == \A o \in U : b[o].fnext = 0 /\ b[o].fprev \in 1..b[o].size /\ b[o].data \in Id

Sane(b, F, H) ==
  /\ Headers(b) /\ Tiles(b) /\ Parts(b, F, H)
  /\ (\E r : Linked(b, F, r)) /\ b[LastBlk].fnext = 0
  /\ Tags(b, F, H) /\ Busy(b, Used(b, F, H))

\* The blocks at U are in c what they are in b.
Alike(b, c, U) ==
  \A o \in U : c[o].size = b[o].size /\ c[o].fprev = b[o].fprev /\ c[o].data = b[o].data

\* A block of the list has a successor in it: fnext tells free from allocated.
LEMMA FreeHasNext ==
  ASSUME NEW b, NEW F, NEW H, Sane(b, F, H)
  PROVE  /\ \A o \in F : b[o].fnext # 0
         /\ \A o \in Used(b, F, H) \cup {LastBlk} : b[o].fnext = 0
<1>1. PICK r : Linked(b, F, r)
  BY DEF Sane
<1>2. F \subseteq Inner(b) /\ Headers(b)
  BY DEF Sane, Parts
<1>3. ASSUME NEW o \in F PROVE b[o].fnext # 0
  <2>1. b[o].fnext \in F \cup {LastBlk}
    BY <1>1 DEF Linked
  <2>2. b[o].fnext \in Inner(b) \cup {LastBlk}
    BY <1>2, <2>1
  <2>3. 0 \notin Inner(b) /\ LastBlk # 0
    BY <1>2, Offsets, Constants
  <2> QED
    BY <2>2, <2>3
<1>4. \A o \in Used(b, F, H) \cup {LastBlk} : b[o].fnext = 0
  BY DEF Sane, Busy
<1> QED
  BY <1>3, <1>4

\* Sizes and the set of headers are all that tiling depends on.
LEMMA TilesSame ==
  ASSUME NEW b, NEW c, Headers(b), Tiles(b), DOMAIN c = DOMAIN b,
         \A x \in DOMAIN b : c[x].size = b[x].size
  PROVE  /\ Tiles(c) /\ Inner(c) = Inner(b)
         /\ \A x \in Inner(b) : Next_S(c, x) = Next_S(b, x)
<1>1. Inner(c) = Inner(b) /\ Inner(b) \subseteq DOMAIN b
  BY DEF Inner
<1>2. \A x \in Inner(b) : Next_S(c, x) = Next_S(b, x)
  BY <1>1 DEF Next_S
<1> QED
  BY <1>1, <1>2 DEF Tiles

\* c is b with the block o taken out of the free list.
Unlinked(b, c, F, H, o) ==
  /\ Sane(c, F \ {o}, H \cup {o}) /\ DOMAIN c = DOMAIN b
  /\ \A x \in DOMAIN b : c[x].size = b[x].size /\ c[x].prev_size = b[x].prev_size
                         /\ c[x].data = b[x].data
  /\ \A x \in Inner(b) \ (F \ {o}) : c[x].fnext = b[x].fnext /\ c[x].fprev = b[x].fprev

\* A block that leaves the list is in the middle of a step.
LEMMA UnlinkSane ==
  ASSUME NEW b, NEW F, NEW H, Sane(b, F, H), NEW o \in F
  PROVE  Unlinked(b, Unlink(b, o), F, H, o)
<1> DEFINE c == Unlink(b, o)
           G == F \ {o}
           J == H \cup {o}
<1>1. PICK r : Linked(b, F, r)
  BY DEF Sane
<1>2. Headers(b) /\ Tiles(b) /\ F \in SUBSET Inner(b) /\ H \subseteq Inner(b) /\ F \cap H = {}
  BY DEF Sane, Parts
<1>3. /\ DOMAIN c = DOMAIN b /\ Headers(c)
      /\ \A x \in DOMAIN b : /\ c[x].size = b[x].size /\ c[x].prev_size = b[x].prev_size
                             /\ c[x].data = b[x].data
      /\ \A x \in DOMAIN b \ (G \cup {FirstBlk, LastBlk}) :
           c[x].fnext = b[x].fnext /\ c[x].fprev = b[x].fprev
      /\ c[LastBlk].fnext = b[LastBlk].fnext
      /\ \E q : Linked(c, G, q)
  BY <1>1, <1>2, UnlinkKeeps
<1> HIDE DEF c
<1>4. Tiles(c) /\ Inner(c) = Inner(b) /\ \A x \in Inner(b) : Next_S(c, x) = Next_S(b, x)
  BY <1>2, <1>3, TilesSame
<1>5. Parts(c, G, J) /\ Used(c, G, J) = Used(b, F, H) /\ Inner(b) \ J = (Inner(b) \ H) \ {o}
  BY <1>2, <1>4 DEF Parts, Used
<1>6. Tags(c, G, J)
  <2>1. Tags(b, F, H) /\ Start \in DOMAIN b /\ Inner(b) \subseteq DOMAIN b
    BY Offsets, <1>2 DEF Sane, Inner
  <2>2. \A x \in Inner(b) : Next_S(b, x) \in DOMAIN b
    BY <1>2 DEF Tiles
  <2> QED
    BY <1>3, <1>4, <1>5, <2>1, <2>2 DEF Tags
<1>7. Busy(c, Used(c, G, J))
  <2>1. Busy(b, Used(b, F, H))
    BY DEF Sane
  <2>2. \A x \in Used(b, F, H) : x \in DOMAIN b \ (G \cup {FirstBlk, LastBlk})
    BY DEF Used, Inner
  <2> QED
    BY <1>3, <1>5, <2>1, <2>2 DEF Busy
<1>8. Sane(c, G, J)
  BY <1>3, <1>4, <1>5, <1>6, <1>7 DEF Sane
<1>9. \A x \in Inner(b) \ G : c[x].fnext = b[x].fnext /\ c[x].fprev = b[x].fprev
  BY <1>3 DEF Inner
<1> QED
  BY <1>3, <1>8, <1>9 DEF c, Unlinked

\* c is b but for the tags, which are as p says.
Retagged(b, c, p) ==
  /\ DOMAIN c = DOMAIN b /\ Headers(c)
  /\ \A x \in DOMAIN b : /\ c[x].size = b[x].size /\ c[x].data = b[x].data
                         /\ c[x].fnext = b[x].fnext /\ c[x].fprev = b[x].fprev
                         /\ c[x].prev_size = p[x]

\* Writing a tag changes nothing else.
LEMMA RetagIs ==
  ASSUME NEW b, Headers(b), NEW o \in DOMAIN b, NEW v \in 0..Cells
  PROVE  Retagged(b, [b EXCEPT ![o].prev_size = v],
           [x \in DOMAIN b |-> IF x = o THEN v ELSE b[x].prev_size])
<1> DEFINE c == [b EXCEPT ![o].prev_size = v]
<1>1. \A x \in DOMAIN b : b[x] \in Block
  BY DEF Headers
<1>2. /\ DOMAIN c = DOMAIN b
      /\ \A x \in DOMAIN b : c[x] = IF x = o THEN [b[x] EXCEPT !.prev_size = v] ELSE b[x]
  OBVIOUS
<1> HIDE DEF c
<1>3. \A x \in DOMAIN b :
        /\ c[x] \in Block
        /\ c[x].size = b[x].size /\ c[x].data = b[x].data
        /\ c[x].fnext = b[x].fnext /\ c[x].fprev = b[x].fprev
        /\ c[x].prev_size = IF x = o THEN v ELSE b[x].prev_size
  BY <1>1, <1>2 DEF Block
<1>4. Headers(c)
  BY <1>2, <1>3 DEF Headers
<1> QED
  BY <1>2, <1>3, <1>4 DEF Retagged, c

\* c is b with the tag after the block h set to v.
TagSet(b, c, F, H, h, v) ==
  /\ Sane(c, F, H) /\ DOMAIN c = DOMAIN b
  /\ \A x \in DOMAIN b :
       /\ c[x].size = b[x].size /\ c[x].data = b[x].data
       /\ c[x].fnext = b[x].fnext /\ c[x].fprev = b[x].fprev
       /\ c[x].prev_size = IF x = Next_S(b, h) THEN v ELSE b[x].prev_size

\* A block of H may have any tag after it.
LEMMA RetagSane ==
  ASSUME NEW b, NEW F, NEW H, Sane(b, F, H), NEW h \in H, NEW v \in 0..Cells
  PROVE  TagSet(b, [b EXCEPT ![Next_S(b, h)].prev_size = v], F, H, h, v)
<1> DEFINE n == Next_S(b, h)
           c == [b EXCEPT ![n].prev_size = v]
<1>1. PICK r : Linked(b, F, r)
  BY DEF Sane
<1>2. Headers(b) /\ Tiles(b) /\ F \in SUBSET Inner(b) /\ H \subseteq Inner(b) /\ F \cap H = {}
      /\ h \in Inner(b)
  BY DEF Sane, Parts
<1>3. n \in DOMAIN b /\ n # Start
  BY <1>2, NextIs, Constants
<1>4. Retagged(b, c, [x \in DOMAIN b |-> IF x = n THEN v ELSE b[x].prev_size])
  BY <1>2, <1>3, RetagIs
<1>5. /\ DOMAIN c = DOMAIN b /\ Headers(c)
      /\ \A x \in DOMAIN b : /\ c[x].size = b[x].size /\ c[x].data = b[x].data
                             /\ c[x].fnext = b[x].fnext /\ c[x].fprev = b[x].fprev
                             /\ c[x].prev_size = IF x = n THEN v ELSE b[x].prev_size
  BY <1>4 DEF Retagged
<1> HIDE DEF c, n
<1>6. Tiles(c) /\ Inner(c) = Inner(b) /\ \A x \in Inner(b) : Next_S(c, x) = Next_S(b, x)
  BY <1>2, <1>5, TilesSame
<1>7. Parts(c, F, H) /\ Used(c, F, H) = Used(b, F, H) /\ FirstBlk \in DOMAIN b
      /\ LastBlk \in DOMAIN b /\ Start \in DOMAIN b /\ Inner(b) \subseteq DOMAIN b
  BY <1>2, <1>6, Offsets DEF Parts, Used, Inner
<1>8. Linked(c, F, r)
  BY <1>1, <1>2, <1>5, <1>7, LinkedSame
<1>9. Tags(c, F, H)
  <2>1. Tags(b, F, H)
    BY DEF Sane
  <2>2. \A x \in Inner(b) \ H : Next_S(b, x) # n /\ Next_S(b, x) \in DOMAIN b
    BY <1>2, OnePrevious DEF Tiles, n
  <2> QED
    BY <1>3, <1>5, <1>6, <1>7, <2>1, <2>2 DEF Tags
<1>10. Busy(c, Used(c, F, H))
  <2>1. Busy(b, Used(b, F, H)) /\ Used(b, F, H) \subseteq DOMAIN b
    BY <1>7 DEF Sane, Used
  <2> QED
    BY <1>5, <1>7, <2>1 DEF Busy
<1>11. c[LastBlk].fnext = 0
  BY <1>5, <1>7 DEF Sane
<1>12. Sane(c, F, H)
  BY <1>5, <1>6, <1>7, <1>8, <1>9, <1>10, <1>11 DEF Sane
<1> QED
  BY <1>5, <1>12 DEF c, n, TagSet

\* c is b with the block h put into the free list, and a tag after it.
Closed(b, c, F, h) ==
  /\ DOMAIN c = DOMAIN b /\ Headers(c)
  /\ \A x \in DOMAIN b :
       /\ c[x].size = b[x].size /\ c[x].data = b[x].data
       /\ c[x].prev_size = IF x = Next_S(b, h) THEN b[h].size ELSE b[x].prev_size
  /\ \A x \in DOMAIN b \ (F \cup {h, FirstBlk, LastBlk}) :
       c[x].fnext = b[x].fnext /\ c[x].fprev = b[x].fprev
  /\ c[LastBlk].fnext = b[LastBlk].fnext
  /\ \E q : Linked(c, F \cup {h}, q)

\* A free block may be listed if it has no free neighbour.
LEMMA CloseSane ==
  ASSUME NEW b, NEW F, NEW H, Sane(b, F, H), NEW h \in H,
         b[h].prev_size = 0, Next_S(b, h) \notin F, NEW c, Closed(b, c, F, h)
  PROVE  Sane(c, F \cup {h}, H \ {h})
<1> DEFINE n == Next_S(b, h)
           G == F \cup {h}
           J == H \ {h}
<1>1. Headers(b) /\ Tiles(b) /\ F \in SUBSET Inner(b) /\ H \subseteq Inner(b) /\ F \cap H = {}
      /\ h \in Inner(b) /\ h \notin F
  BY DEF Sane, Parts
<1>2. n \in DOMAIN b /\ n # Start /\ n # h
  BY <1>1, NextIs, Constants
<1>3. /\ DOMAIN c = DOMAIN b /\ Headers(c)
      /\ \A x \in DOMAIN b : /\ c[x].size = b[x].size /\ c[x].data = b[x].data
                             /\ c[x].prev_size = IF x = n THEN b[h].size ELSE b[x].prev_size
      /\ \A x \in DOMAIN b \ (F \cup {h, FirstBlk, LastBlk}) :
           c[x].fnext = b[x].fnext /\ c[x].fprev = b[x].fprev
      /\ c[LastBlk].fnext = b[LastBlk].fnext
      /\ \E q : Linked(c, G, q)
  BY DEF Closed
<1>4. Tiles(c) /\ Inner(c) = Inner(b) /\ \A x \in Inner(b) : Next_S(c, x) = Next_S(b, x)
  BY <1>1, <1>3, TilesSame
<1>5. Parts(c, G, J) /\ Used(c, G, J) = Used(b, F, H) /\ Start \in DOMAIN b
      /\ Inner(b) \subseteq DOMAIN b
  BY <1>1, <1>4, Offsets DEF Parts, Used, Inner
<1>6. Tags(c, G, J)
  <2>1. Tags(b, F, H)
    BY DEF Sane
  <2>2. \A x \in Inner(b) \ {h} : Next_S(b, x) # n
    BY <1>1, OnePrevious
  <2>3. c[Start].prev_size = 0
    BY <1>2, <1>3, <1>5, <2>1 DEF Tags
  <2>4. ASSUME NEW o \in Inner(c) \ J
        PROVE  /\ c[Next_S(c, o)].prev_size = IF o \in G THEN c[o].size ELSE 0
               /\ o \in G => Next_S(c, o) \notin G
    <3>1. CASE o = h
      <4>1. Next_S(c, o) = n /\ n \notin F /\ n # h /\ n \in DOMAIN b /\ h \in DOMAIN b
        BY <1>1, <1>2, <1>4, <3>1 DEF Inner
      <4>2. c[n].prev_size = b[h].size /\ c[h].size = b[h].size
        BY <1>3, <4>1
      <4> HIDE DEF n
      <4> QED
        BY <3>1, <4>1, <4>2
    <3>2. CASE o # h
      <4>1. o \in Inner(b) \ H /\ Next_S(c, o) = Next_S(b, o) /\ Next_S(b, o) # n
            /\ Next_S(b, o) \in DOMAIN b /\ o \in DOMAIN b /\ b[o].size > 0
        BY <1>1, <1>4, <2>2, <2>4, <3>2 DEF Tiles, Inner
      <4>2. /\ b[Next_S(b, o)].prev_size = IF o \in F THEN b[o].size ELSE 0
            /\ o \in F => Next_S(b, o) \notin F
        BY <2>1, <4>1 DEF Tags
      <4>3. c[Next_S(b, o)].prev_size = b[Next_S(b, o)].prev_size /\ c[o].size = b[o].size
        BY <1>3, <4>1
      <4>4. o \in F => Next_S(b, o) # h
        BY <4>1, <4>2
      <4> QED
        BY <3>2, <4>1, <4>2, <4>3, <4>4
    <3> QED
      BY <3>1, <3>2
  <2> QED
    BY <2>3, <2>4 DEF Tags
<1>7. Busy(c, Used(c, G, J))
  <2>1. Busy(b, Used(b, F, H))
    BY DEF Sane
  <2>2. \A x \in Used(b, F, H) : x \in DOMAIN b \ (F \cup {h, FirstBlk, LastBlk})
    BY DEF Used, Inner
  <2> QED
    BY <1>3, <1>5, <2>1, <2>2 DEF Busy
<1>8. c[LastBlk].fnext = 0
  BY <1>3 DEF Sane
<1> QED
  BY <1>3, <1>4, <1>5, <1>6, <1>7, <1>8 DEF Sane

\* Handing out a block changes its links and contents only.
LEMMA MarkIs ==
  ASSUME NEW b, Headers(b), NEW o \in DOMAIN b, NEW n \in 0..LastBlk, NEW i \in Id
  PROVE  LET c == MarkAllocated(b, o, n, i) IN
         /\ DOMAIN c = DOMAIN b /\ Headers(c)
         /\ \A x \in DOMAIN b \ {o} : c[x] = b[x]
         /\ c[o].size = b[o].size /\ c[o].prev_size = b[o].prev_size
         /\ c[o].fnext = 0 /\ c[o].fprev = n /\ c[o].data = i
<1> DEFINE c == MarkAllocated(b, o, n, i)
           e == [b[o] EXCEPT !.fnext = 0]
           f == [e EXCEPT !.fprev = n]
           g == [f EXCEPT !.data = i]
<1>1. \A x \in DOMAIN b : b[x] \in Block
  BY DEF Headers
<1>2. /\ DOMAIN c = DOMAIN b /\ c[o] = g
      /\ \A x \in DOMAIN b \ {o} : c[x] = b[x]
  BY DEF MarkAllocated
<1> HIDE DEF c
<1>3. e \in Block /\ e.size = b[o].size /\ e.prev_size = b[o].prev_size /\ e.fnext = 0
  BY <1>1 DEF Block
<1> HIDE DEF e
<1>4. /\ f \in Block /\ f.size = e.size /\ f.prev_size = e.prev_size /\ f.fnext = e.fnext
      /\ f.fprev = n
  BY <1>3 DEF Block
<1> HIDE DEF f
<1>5. /\ g \in Block /\ g.size = f.size /\ g.prev_size = f.prev_size /\ g.fnext = f.fnext
      /\ g.fprev = f.fprev /\ g.data = i
  BY <1>4 DEF Block
<1> HIDE DEF g
<1>6. Headers(c)
  BY <1>1, <1>2, <1>5 DEF Headers
<1> QED
  BY <1>2, <1>3, <1>4, <1>5, <1>6 DEF c

\* c is b with the block o handed out.
Marked(b, c, F, H, o, n, i) ==
  /\ Sane(c, F, H \ {o}) /\ DOMAIN c = DOMAIN b
  /\ \A x \in DOMAIN b \ {o} : c[x] = b[x]
  /\ c[o].size = b[o].size /\ c[o].fprev = n /\ c[o].data = i

\* A block that is handed out.
LEMMA MarkSane ==
  ASSUME NEW b, NEW F, NEW H, Sane(b, F, H), NEW o \in H, b[Next_S(b, o)].prev_size = 0,
         NEW n \in 1..b[o].size, NEW i \in Id
  PROVE  Marked(b, MarkAllocated(b, o, n, i), F, H, o, n, i)
<1> DEFINE c == MarkAllocated(b, o, n, i)
           J == H \ {o}
<1>1. PICK r : Linked(b, F, r)
  BY DEF Sane
<1>2. Headers(b) /\ Tiles(b) /\ F \in SUBSET Inner(b) /\ H \subseteq Inner(b) /\ F \cap H = {}
      /\ o \in Inner(b) /\ o \notin F /\ Inner(b) \subseteq DOMAIN b
  BY DEF Sane, Parts, Inner
<1>3. n \in 0..LastBlk /\ o \in DOMAIN b
  <2>1. b[o].size \in 1..Cells /\ Cells \in Nat /\ LastBlk = Cells + 2
    BY <1>2, NextIs, Constants
  <2> QED
    BY <1>2, <2>1
<1>4. /\ DOMAIN c = DOMAIN b /\ Headers(c)
      /\ \A x \in DOMAIN b \ {o} : c[x] = b[x]
      /\ c[o].size = b[o].size /\ c[o].prev_size = b[o].prev_size
      /\ c[o].fnext = 0 /\ c[o].fprev = n /\ c[o].data = i
  BY <1>2, <1>3, MarkIs
<1> HIDE DEF c
<1>5. /\ \A x \in DOMAIN b : c[x].size = b[x].size /\ c[x].prev_size = b[x].prev_size
      /\ FirstBlk \in DOMAIN b /\ LastBlk \in DOMAIN b /\ Start \in DOMAIN b
      /\ o # FirstBlk /\ o # LastBlk
  BY <1>2, <1>4, Offsets DEF Inner
<1>6. Tiles(c) /\ Inner(c) = Inner(b) /\ \A x \in Inner(b) : Next_S(c, x) = Next_S(b, x)
  BY <1>2, <1>4, <1>5, TilesSame
<1>7. Parts(c, F, J) /\ Used(c, F, J) = Used(b, F, H) \cup {o}
  BY <1>2, <1>6 DEF Parts, Used
<1>8. Linked(c, F, r)
  BY <1>1, <1>2, <1>4, <1>5, LinkedSame
<1>9. Tags(c, F, J)
  <2>1. Tags(b, F, H) /\ \A x \in Inner(b) : Next_S(b, x) \in DOMAIN b
    BY <1>2 DEF Sane, Tiles
  <2> QED
    BY <1>2, <1>5, <1>6, <2>1 DEF Tags
<1>10. Busy(c, Used(c, F, J))
  <2>1. Busy(b, Used(b, F, H)) /\ Used(b, F, H) \subseteq DOMAIN b
    BY <1>2 DEF Sane, Used
  <2> QED
    BY <1>4, <1>7, <2>1 DEF Busy
<1>11. c[LastBlk].fnext = 0
  BY <1>4, <1>5 DEF Sane
<1>12. Sane(c, F, J)
  BY <1>4, <1>6, <1>7, <1>8, <1>9, <1>10, <1>11 DEF Sane
<1> QED
  BY <1>4, <1>12 DEF c, Marked

\* c is b with the block o given back.
Unmarked(b, c, F, H, o) ==
  /\ Sane(c, F, H \cup {o}) /\ DOMAIN c = DOMAIN b
  /\ \A x \in DOMAIN b \ {o} : c[x] = b[x]
  /\ c[o].size = b[o].size /\ c[o].prev_size = b[o].prev_size /\ c[o].fnext = 0

\* A block that is given back.
LEMMA UnmarkSane ==
  ASSUME NEW b, NEW F, NEW H, Sane(b, F, H), NEW o \in Used(b, F, H)
  PROVE  Unmarked(b, [b EXCEPT ![o].data = 0], F, H, o)
<1> DEFINE c == [b EXCEPT ![o].data = 0]
           J == H \cup {o}
<1>1. PICK r : Linked(b, F, r)
  BY DEF Sane
<1>2. Headers(b) /\ Tiles(b) /\ F \in SUBSET Inner(b) /\ H \subseteq Inner(b) /\ F \cap H = {}
      /\ o \in Inner(b) /\ o \notin F /\ o \notin H /\ Inner(b) \subseteq DOMAIN b
  BY DEF Sane, Parts, Inner, Used
<1>3. /\ DOMAIN c = DOMAIN b
      /\ \A x \in DOMAIN b \ {o} : c[x] = b[x]
      /\ c[o] = [b[o] EXCEPT !.data = 0]
  BY <1>2
<1> HIDE DEF c
<1>4. /\ c[o] \in Block /\ c[o].size = b[o].size /\ c[o].prev_size = b[o].prev_size
      /\ c[o].fnext = b[o].fnext
  <2>1. b[o] \in Block
    BY <1>2 DEF Headers
  <2> QED
    BY <1>3, <2>1 DEF Block
<1>5. Headers(c)
  BY <1>2, <1>3, <1>4 DEF Headers
<1>6. /\ \A x \in DOMAIN b : c[x].size = b[x].size /\ c[x].prev_size = b[x].prev_size
      /\ FirstBlk \in DOMAIN b /\ LastBlk \in DOMAIN b /\ Start \in DOMAIN b
      /\ o # FirstBlk /\ o # LastBlk
  BY <1>2, <1>3, <1>4, Offsets DEF Inner
<1>7. Tiles(c) /\ Inner(c) = Inner(b) /\ \A x \in Inner(b) : Next_S(c, x) = Next_S(b, x)
  BY <1>2, <1>3, <1>6, TilesSame
<1>8. Parts(c, F, J) /\ Used(c, F, J) = Used(b, F, H) \ {o}
  BY <1>2, <1>7 DEF Parts, Used
<1>9. Linked(c, F, r)
  BY <1>1, <1>2, <1>3, <1>6, LinkedSame
<1>10. Tags(c, F, J)
  <2>1. Tags(b, F, H) /\ \A x \in Inner(b) : Next_S(b, x) \in DOMAIN b
    BY <1>2 DEF Sane, Tiles
  <2> QED
    BY <1>2, <1>6, <1>7, <2>1 DEF Tags
<1>11. Busy(c, Used(c, F, J)) /\ b[o].fnext = 0
  <2>1. Busy(b, Used(b, F, H)) /\ Used(b, F, H) \subseteq DOMAIN b
    BY <1>2 DEF Sane, Used
  <2> QED
    BY <1>3, <1>8, <2>1 DEF Busy
<1>12. c[LastBlk].fnext = 0
  BY <1>3, <1>6 DEF Sane
<1>13. Sane(c, F, J)
  BY <1>5, <1>7, <1>8, <1>9, <1>10, <1>11, <1>12 DEF Sane
<1> QED
  BY <1>3, <1>4, <1>11, <1>13 DEF c, Unmarked

\* c is b with the block o added to the block h before it.
Absorbed(b, c, h, o) ==
  /\ DOMAIN c = DOMAIN b \ {o} /\ Headers(c)
  /\ \A x \in DOMAIN b \ {h, o} : c[x] = b[x]
  /\ c[h].size = b[h].size + b[o].size /\ c[h].prev_size = b[h].prev_size
  /\ c[h].fnext = b[h].fnext /\ c[h].fprev = b[h].fprev /\ c[h].data = b[h].data

\* Adding a block's size to the one before it removes its header.
LEMMA AbsorbIs ==
  ASSUME NEW b, Headers(b), Tiles(b), NEW h \in Inner(b), NEW o \in Inner(b),
         Next_S(b, h) = o
  PROVE  Absorbed(b, Drop([b EXCEPT ![h].size = @ + b[o].size], o), h, o)
<1> DEFINE d == [b EXCEPT ![h].size = @ + b[o].size]
           c == Drop(d, o)
           n == b[h].size + b[o].size
<1>1. /\ Cells \in Nat /\ h \in 2..(Cells + 1) /\ o \in 2..(Cells + 1) /\ h # o
      /\ b[h].size \in 1..Cells /\ b[o].size \in 1..Cells
      /\ o = h + b[h].size /\ o + b[o].size <= Cells + 2
      /\ h \in DOMAIN b /\ o \in DOMAIN b
  <2>1. Cells \in Nat /\ h \in 2..(Cells + 1) /\ o \in 2..(Cells + 1)
        /\ b[h].size \in 1..Cells /\ b[o].size \in 1..Cells
    BY Constants, NextIs
  <2>2. o = h + b[h].size /\ Next_S(b, o) = o + b[o].size /\ Next_S(b, o) \in (o + 1)..(Cells + 2)
    BY NextIs
  <2> QED
    BY <2>1, <2>2 DEF Inner
<1>2. n \in 0..Cells
  BY <1>1
<1>3. /\ DOMAIN c = DOMAIN b \ {o}
      /\ \A x \in DOMAIN b \ {h, o} : c[x] = b[x]
      /\ c[h] = [b[h] EXCEPT !.size = n]
  BY <1>1 DEF Drop
<1> HIDE DEF c, d, n
<1>4. \A x \in DOMAIN b : b[x] \in Block
  BY DEF Headers
<1>5. /\ c[h] \in Block /\ c[h].size = n /\ c[h].prev_size = b[h].prev_size
      /\ c[h].fnext = b[h].fnext /\ c[h].fprev = b[h].fprev /\ c[h].data = b[h].data
  BY <1>1, <1>2, <1>3, <1>4 DEF Block
<1>6. Headers(c)
  <2>1. o \notin {FirstBlk, Start, LastBlk}
    BY <1>1, Constants DEF Inner
  <2>2. DOMAIN c \subseteq Offset /\ {FirstBlk, Start, LastBlk} \subseteq DOMAIN c
    BY <1>3, <2>1 DEF Headers
  <2>3. \A x \in DOMAIN c : c[x] \in Block
    BY <1>3, <1>4, <1>5
  <2> QED
    BY <2>2, <2>3 DEF Headers
<1> QED
  BY <1>3, <1>5, <1>6 DEF Absorbed, c, d, n

\* c is b with two blocks made one.
Joined(b, c, F, H, h, o) ==
  /\ Absorbed(b, c, h, o) /\ Sane(c, F, H \ {o})
  /\ Next_S(c, h) = Next_S(b, o)
  /\ Total(c, F \cup (H \ {o})) = Total(b, F \cup H)

\* Merging two blocks of H leaves one.
LEMMA AbsorbSane ==
  ASSUME NEW b, NEW F, NEW H, Sane(b, F, H), NEW h \in H, NEW o \in H, Next_S(b, h) = o
  PROVE  Joined(b, Drop([b EXCEPT ![h].size = @ + b[o].size], o), F, H, h, o)
<1> DEFINE c == Drop([b EXCEPT ![h].size = @ + b[o].size], o)
           J == H \ {o}
<1>1. PICK r : Linked(b, F, r)
  BY DEF Sane
<1>2. Headers(b) /\ Tiles(b) /\ F \in SUBSET Inner(b) /\ H \subseteq Inner(b) /\ F \cap H = {}
      /\ h \in Inner(b) /\ o \in Inner(b) /\ o \notin F /\ h \notin F /\ Inner(b) \subseteq DOMAIN b
  BY DEF Sane, Parts, Inner
<1>3. Absorbed(b, c, h, o)
  BY <1>2, AbsorbIs
<1> HIDE DEF c
<1>4. /\ DOMAIN c = DOMAIN b \ {o} /\ Headers(c)
      /\ \A x \in DOMAIN b \ {h, o} : c[x] = b[x]
      /\ c[h].size = b[h].size + b[o].size /\ c[h].prev_size = b[h].prev_size
  BY <1>3 DEF Absorbed
<1>5. /\ Cells \in Nat /\ h \in Nat /\ o \in Nat /\ h < o /\ o = h + b[h].size
      /\ b[h].size \in Nat \ {0} /\ b[o].size \in Nat \ {0}
      /\ Next_S(b, o) = o + b[o].size /\ Next_S(b, o) \in DOMAIN b /\ Next_S(b, o) \in Nat
      /\ Next_S(b, o) > o
  <2>1. Cells \in Nat /\ h \in Nat /\ o \in Nat /\ b[h].size \in Nat \ {0} /\ b[o].size \in Nat \ {0}
        /\ o = h + b[h].size
    BY <1>2, NextIs, Constants
  <2>2. Next_S(b, o) = o + b[o].size /\ Next_S(b, o) \in DOMAIN b
    BY <1>2, NextIs
  <2> QED
    BY <2>1, <2>2
<1>6. Inner(c) = Inner(b) \ {o} /\ Start \in Inner(c) /\ FirstBlk \in DOMAIN b /\ LastBlk \in DOMAIN b
  BY <1>2, <1>4, Offsets DEF Inner
<1>7. /\ Next_S(c, h) = Next_S(b, o) /\ c[h].size > 0
      /\ \A x \in Inner(c) \ {h} : /\ Next_S(c, x) = Next_S(b, x) /\ Next_S(b, x) # o
                                   /\ c[x].size = b[x].size
  <2>1. Next_S(c, h) = Next_S(b, o) /\ c[h].size > 0
    <3>1. Next_S(c, h) = h + c[h].size
      BY DEF Next_S
    <3> QED
      BY <1>4, <1>5, <3>1
  <2>2. \A x \in Inner(c) \ {h} : Next_S(c, x) = Next_S(b, x) /\ c[x].size = b[x].size
    BY <1>2, <1>4, <1>6 DEF Next_S
  <2>3. \A x \in Inner(c) \ {h} : Next_S(b, x) # o
    BY <1>2, <1>6, OnePrevious
  <2> QED
    BY <2>1, <2>2, <2>3
<1>8. Tiles(c)
  <2>1. ASSUME NEW x \in Inner(c) \ {h}
        PROVE  /\ c[x].size > 0 /\ Next_S(c, x) \in DOMAIN c
               /\ \A y \in DOMAIN c : y > x => Next_S(c, x) <= y
    BY <1>2, <1>4, <1>6, <1>7 DEF Tiles
  <2>2. /\ c[h].size > 0 /\ Next_S(c, h) \in DOMAIN c
        /\ \A y \in DOMAIN c : y > h => Next_S(c, h) <= y
    <3>1. Next_S(b, o) # o /\ Next_S(c, h) \in DOMAIN c
      BY <1>4, <1>5, <1>7
    <3>2. ASSUME NEW y \in DOMAIN c, y > h PROVE Next_S(b, o) <= y
      <4>1. y \in DOMAIN b /\ y # o /\ y \in Nat
        BY <1>2, <1>4, Offsets
      <4>2. o <= y
        BY <1>2, <3>2, <4>1 DEF Tiles
      <4>3. y > o
        BY <1>5, <4>1, <4>2
      <4> QED
        BY <1>2, <4>1, <4>3 DEF Tiles
    <3> QED
      BY <1>7, <3>1, <3>2
  <2> QED
    BY <2>1, <2>2 DEF Tiles
<1>9. Parts(c, F, J) /\ Used(c, F, J) = Used(b, F, H) /\ Inner(c) \ J = Inner(b) \ H
      /\ h \notin Inner(b) \ H /\ o \notin Inner(b) \ H
  BY <1>2, <1>6 DEF Parts, Used
<1>10. Linked(c, F, r)
  <2>1. \A x \in F \cup {FirstBlk, LastBlk} : x \in DOMAIN b \ {h, o}
    BY <1>2, <1>6 DEF Inner
  <2> QED
    BY <1>1, <1>4, <2>1, LinkedSame
<1>11. Tags(c, F, J)
  <2>1. Tags(b, F, H)
    BY DEF Sane
  <2>2. \A x \in DOMAIN c : c[x].prev_size = b[x].prev_size
    BY <1>4
  <2>3. Start \in DOMAIN c
    BY <1>6 DEF Inner
  <2>4. \A x \in Inner(c) \ J : /\ Next_S(c, x) = Next_S(b, x) /\ c[x].size = b[x].size
                               /\ Next_S(c, x) \in DOMAIN c
    BY <1>7, <1>8, <1>9 DEF Tiles
  <2> QED
    BY <1>9, <2>1, <2>2, <2>3, <2>4 DEF Tags
<1>12. Busy(c, Used(c, F, J))
  <2>1. Busy(b, Used(b, F, H)) /\ Used(b, F, H) \subseteq DOMAIN b \ {h, o}
    BY <1>2 DEF Sane, Used
  <2> QED
    BY <1>4, <1>9, <2>1 DEF Busy
<1>13. c[LastBlk].fnext = 0
  <2>1. LastBlk \in DOMAIN b \ {h, o}
    BY <1>2, <1>6 DEF Inner
  <2> QED
    BY <1>4, <2>1 DEF Sane
<1>14. Total(c, F \cup J) = Total(b, F \cup H)
  <2> DEFINE S == F \cup H
             T == S \ {h, o}
  <2>1. Sized(b, S) /\ Sized(b, S \ {h}) /\ Sized(b, T) /\ Sized(c, S \ {o})
    <3>1. IsFiniteSet(S) /\ IsFiniteSet(S \ {h}) /\ IsFiniteSet(T) /\ IsFiniteSet(S \ {o})
      BY <1>2, Offsets, FS_Subset
    <3>2. \A x \in DOMAIN b : b[x].size \in Nat
      BY <1>2, Offsets
    <3>3. \A x \in DOMAIN c : c[x].size \in Nat
      BY <1>4, Offsets
    <3>4. S \subseteq DOMAIN b /\ S \ {o} \subseteq DOMAIN c
      BY <1>2, <1>4
    <3> QED
      BY <3>1, <3>2, <3>3, <3>4 DEF Sized
  <2>2. F \cup J = S \ {o} /\ (S \ {o}) \ {h} = T /\ (S \ {h}) \ {o} = T /\ h \in S /\ o \in S
        /\ h \in S \ {o} /\ o \in S \ {h}
    BY <1>2, <1>5
  <2>3. Total(c, T) = Total(b, T)
    <3>1. \A x \in T : c[x].size = b[x].size
      BY <1>2, <1>4
    <3> QED
      BY <2>1, <3>1, TotalSame DEF Sized
  <2> HIDE DEF S, T
  <2>4. Total(c, S \ {o}) = c[h].size + Total(c, T)
    BY <2>1, <2>2, TotalTakes
  <2>5. Total(b, S) = b[h].size + Total(b, S \ {h})
    BY <2>1, <2>2, TotalTakes
  <2>6. Total(b, S \ {h}) = b[o].size + Total(b, T) /\ Total(b, T) \in Nat
    BY <2>1, <2>2, TotalTakes
  <2>7. F \cup H = S
    BY DEF S
  <2>8. Total(b, S) = b[h].size + (b[o].size + Total(b, T))
    BY <2>5, <2>6
  <2>9. Total(c, S \ {o}) = (b[h].size + b[o].size) + Total(b, T)
    BY <1>4, <2>3, <2>4
  <2>10. Total(c, S \ {o}) = Total(b, S)
    BY <1>5, <2>6, <2>8, <2>9
  <2> QED
    BY <2>2, <2>7, <2>10
<1>15. Sane(c, F, J)
  BY <1>4, <1>8, <1>9, <1>10, <1>11, <1>12, <1>13 DEF Sane
<1> QED
  BY <1>3, <1>7, <1>14, <1>15 DEF c, Joined

\* c is b with n cells of the block o cut off, for a block of their own.
Cut(b, o, n) ==
  With([b EXCEPT ![o].size = n], o + n,
       [size |-> b[o].size - n, prev_size |-> 0, fnext |-> 0, fprev |-> 0, data |-> 0])

\* Splitting a block adds one header, behind it.
LEMMA CutIs ==
  ASSUME NEW b, Headers(b), Tiles(b), NEW o \in Inner(b), NEW n \in 1..(b[o].size - 1)
  PROVE  LET c == Cut(b, o, n) IN
         /\ o + n \notin DOMAIN b /\ o + n \in Nat /\ n \in Nat \ {0} /\ o \in Nat
         /\ DOMAIN c = DOMAIN b \cup {o + n} /\ Headers(c)
         /\ \A x \in DOMAIN b \ {o} : c[x] = b[x]
         /\ c[o].size = n /\ c[o].prev_size = b[o].prev_size
         /\ c[o + n].size = b[o].size - n /\ c[o + n].prev_size = 0 /\ b[o].size - n > 0
<1> DEFINE d == [b EXCEPT ![o].size = n]
           m == o + n
           e == [size |-> b[o].size - n, prev_size |-> 0, fnext |-> 0, fprev |-> 0, data |-> 0]
           c == Cut(b, o, n)
<1>1. /\ Cells \in Nat /\ o \in 2..(Cells + 1) /\ b[o].size \in 1..Cells /\ o \in DOMAIN b
      /\ Next_S(b, o) = o + b[o].size /\ o + b[o].size \in (o + 1)..(Cells + 2)
      /\ \A x \in DOMAIN b : x > o => o + b[o].size <= x
  <2>1. Cells \in Nat /\ o \in 2..(Cells + 1) /\ b[o].size \in 1..Cells /\ o \in DOMAIN b
    BY NextIs, Constants DEF Inner
  <2>2. Next_S(b, o) = o + b[o].size /\ Next_S(b, o) \in (o + 1)..(Cells + 2)
        /\ \A x \in DOMAIN b : x > o => Next_S(b, o) <= x
    BY NextIs
  <2> QED
    BY <2>1, <2>2
<1>2. n \in Nat \ {0} /\ n <= Cells /\ b[o].size - n \in 1..Cells /\ m \in 3..(Cells + 1)
      /\ m > o /\ m < o + b[o].size
  BY <1>1
<1>3. m \notin DOMAIN b
  BY <1>1, <1>2, Offsets
<1>4. \A x \in DOMAIN b : b[x] \in Block
  BY DEF Headers
<1>5. /\ DOMAIN c = DOMAIN b \cup {m} /\ c[m] = e
      /\ \A x \in DOMAIN b \ {o} : c[x] = b[x]
      /\ c[o] = [b[o] EXCEPT !.size = n]
  BY <1>1, <1>2, <1>3 DEF Cut, With
<1>6. c[o] \in Block /\ c[o].size = n /\ c[o].prev_size = b[o].prev_size
  BY <1>1, <1>2, <1>4, <1>5 DEF Block
<1>7. e \in Block
  <2>1. 0 \in 0..LastBlk /\ 0 \in 0..Cells /\ b[o].size - n \in 0..Cells
    <3>1. LastBlk = Cells + 2
      BY Constants
    <3> QED
      BY <1>1, <1>2, <3>1
  <2> QED
    BY <2>1 DEF Block
<1> HIDE DEF c, m
<1>8. Headers(c)
  <2>1. m \in Offset
    <3>1. Offset = 1..(Cells + 2)
      BY Constants
    <3> QED
      BY <1>1, <1>2, <3>1
  <2>2. \A x \in DOMAIN c : c[x] \in Block
    BY <1>4, <1>5, <1>6, <1>7
  <2> QED
    BY <1>5, <2>1, <2>2 DEF Headers
<1> QED
  BY <1>1, <1>2, <1>3, <1>5, <1>6, <1>8 DEF c, m

\* c is b with the block o made two.
CutOff(b, c, F, H, o, n) ==
  /\ Sane(c, F, H \cup {o + n}) /\ o + n \notin DOMAIN b
  /\ DOMAIN c = DOMAIN b \cup {o + n}
  /\ \A x \in DOMAIN b \ {o} : c[x] = b[x]
  /\ c[o].size = n /\ Next_S(c, o) = o + n
  /\ c[o + n].size = b[o].size - n /\ c[o + n].prev_size = 0
  /\ Next_S(c, o + n) = Next_S(b, o)

\* Splitting a block of H leaves two.
LEMMA CutSane ==
  ASSUME NEW b, NEW F, NEW H, Sane(b, F, H), NEW o \in H, NEW n \in 1..(b[o].size - 1)
  PROVE  CutOff(b, Cut(b, o, n), F, H, o, n)
<1> DEFINE c == Cut(b, o, n)
           m == o + n
           J == H \cup {m}
<1>1. PICK r : Linked(b, F, r)
  BY DEF Sane
<1>2. Headers(b) /\ Tiles(b) /\ F \in SUBSET Inner(b) /\ H \subseteq Inner(b) /\ F \cap H = {}
      /\ o \in Inner(b) /\ o \notin F /\ Inner(b) \subseteq DOMAIN b
  BY DEF Sane, Parts, Inner
<1>3. /\ m \notin DOMAIN b /\ m \in Nat /\ n \in Nat \ {0} /\ o \in Nat
      /\ DOMAIN c = DOMAIN b \cup {m} /\ Headers(c)
      /\ \A x \in DOMAIN b \ {o} : c[x] = b[x]
      /\ c[o].size = n /\ c[o].prev_size = b[o].prev_size
      /\ c[m].size = b[o].size - n /\ c[m].prev_size = 0 /\ b[o].size - n > 0
  BY <1>2, CutIs
<1>4. /\ Next_S(b, o) = o + b[o].size /\ Next_S(b, o) \in DOMAIN b /\ Next_S(b, o) \in Nat
      /\ b[o].size \in Nat /\ m < Next_S(b, o) /\ m > o
  <2>1. Next_S(b, o) = o + b[o].size /\ Next_S(b, o) \in DOMAIN b /\ Next_S(b, o) \in Nat
        /\ b[o].size \in Nat
    BY <1>2, NextIs
  <2> QED
    BY <1>3, <2>1
<1>5. Next_S(c, o) = m /\ Next_S(c, m) = Next_S(b, o)
  <2>1. Next_S(c, o) = o + c[o].size /\ Next_S(c, m) = m + c[m].size
    BY DEF Next_S
  <2> QED
    BY <1>3, <1>4, <2>1
<1> HIDE DEF c, m
<1>6. Inner(c) = Inner(b) \cup {m} /\ FirstBlk \in DOMAIN b /\ LastBlk \in DOMAIN b
      /\ Start \in DOMAIN b /\ o # FirstBlk /\ o # LastBlk
  <2>1. FirstBlk \in DOMAIN b /\ LastBlk \in DOMAIN b /\ Start \in DOMAIN b
    BY <1>2, Offsets
  <2> QED
    BY <1>2, <1>3, <2>1 DEF Inner
<1>7. \A x \in Inner(b) \ {o} : Next_S(c, x) = Next_S(b, x) /\ c[x].size = b[x].size
  BY <1>2, <1>3 DEF Next_S
<1>8. Tiles(c)
  <2>1. ASSUME NEW x \in Inner(b) \ {o}
        PROVE  /\ c[x].size > 0 /\ Next_S(c, x) \in DOMAIN c
               /\ \A y \in DOMAIN c : y > x => Next_S(c, x) <= y
    <3>1. /\ b[x].size > 0 /\ Next_S(b, x) \in DOMAIN b /\ Next_S(b, x) \in Nat
          /\ \A y \in DOMAIN b : y > x => Next_S(b, x) <= y
      BY <1>2, NextIs DEF Tiles
    <3>2. x \in Nat /\ x # o /\ x \in DOMAIN b
      BY <1>2, Offsets
    <3>3. m > x => Next_S(b, x) <= m
      <4>1. CASE x < o
        BY <1>2, <1>3, <1>4, <3>1, <3>2, <4>1
      <4>2. CASE x > o
        <5>1. Next_S(b, o) <= x
          BY <1>2, <3>2, <4>2 DEF Tiles
        <5> QED
          BY <1>3, <1>4, <3>2, <5>1
      <4> QED
        BY <1>3, <3>2, <4>1, <4>2
    <3> QED
      BY <1>3, <1>7, <3>1, <3>3
  <2>2. /\ c[o].size > 0 /\ Next_S(c, o) \in DOMAIN c
        /\ \A y \in DOMAIN c : y > o => Next_S(c, o) <= y
    <3>1. ASSUME NEW y \in DOMAIN b, y > o PROVE m <= y
      <4>1. Next_S(b, o) <= y /\ y \in Nat
        BY <1>2, <3>1, Offsets DEF Tiles
      <4> QED
        BY <1>3, <1>4, <4>1
    <3> QED
      BY <1>3, <1>5, <3>1
  <2>3. /\ c[m].size > 0 /\ Next_S(c, m) \in DOMAIN c
        /\ \A y \in DOMAIN c : y > m => Next_S(c, m) <= y
    <3>1. ASSUME NEW y \in DOMAIN b, y > m PROVE Next_S(b, o) <= y
      <4>1. y \in Nat /\ y > o
        BY <1>2, <1>3, <1>4, <3>1, Offsets
      <4> QED
        BY <1>2, <4>1 DEF Tiles
    <3>2. ~(m > m)
      BY <1>3
    <3> QED
      BY <1>3, <1>4, <1>5, <3>1, <3>2
  <2> QED
    BY <1>6, <2>1, <2>2, <2>3 DEF Tiles
<1>9. Parts(c, F, J) /\ Used(c, F, J) = Used(b, F, H) /\ Inner(c) \ J = Inner(b) \ H
      /\ m \notin F
  BY <1>2, <1>3, <1>6 DEF Parts, Used
<1>10. Linked(c, F, r)
  <2>1. \A x \in F \cup {FirstBlk, LastBlk} : x \in DOMAIN b \ {o}
    BY <1>2, <1>6
  <2> QED
    BY <1>1, <1>3, <2>1, LinkedSame
<1>11. Tags(c, F, J)
  <2>1. Tags(b, F, H)
    BY DEF Sane
  <2>2. \A x \in DOMAIN b : c[x].prev_size = b[x].prev_size
    BY <1>3
  <2>3. \A x \in Inner(b) \ H : /\ Next_S(c, x) = Next_S(b, x) /\ c[x].size = b[x].size
                               /\ Next_S(b, x) \in DOMAIN b
    BY <1>2, <1>7 DEF Tiles
  <2> QED
    BY <1>6, <1>9, <2>1, <2>2, <2>3 DEF Tags
<1>12. Busy(c, Used(c, F, J))
  <2>1. Busy(b, Used(b, F, H)) /\ Used(b, F, H) \subseteq DOMAIN b \ {o}
    BY <1>2 DEF Sane, Used
  <2> QED
    BY <1>3, <1>9, <2>1 DEF Busy
<1>13. c[LastBlk].fnext = 0
  BY <1>3, <1>6 DEF Sane
<1>14. Sane(c, F, J)
  BY <1>3, <1>8, <1>9, <1>10, <1>11, <1>12, <1>13 DEF Sane
<1> QED
  BY <1>3, <1>5, <1>14 DEF c, m, CutOff

\* c is b with the block o moved down to the free block h before it, of which
\* the rest comes after it now.
Shifted(b, c, h, o) ==
  LET m == h + b[o].fprev
  IN  /\ m \notin DOMAIN b \ {o} /\ m \in Nat /\ h \in Nat /\ o \in Nat /\ h < m /\ h < o
      /\ o = h + b[h].size /\ m < o + b[o].size /\ b[h].size > 0
      /\ Next_S(b, o) = o + b[o].size /\ b[h].size \in Nat /\ b[o].size \in Nat
      /\ b[o].fprev \in Nat \ {0} /\ b[o].fprev <= b[o].size
      /\ DOMAIN c = (DOMAIN b \ {o}) \cup {m} /\ Headers(c)
      /\ \A x \in DOMAIN b \ {h, o} : c[x] = b[x]
      /\ c[h].size = b[o].fprev /\ c[h].prev_size = 0 /\ c[h].fnext = b[o].fnext
      /\ c[h].fprev = b[o].fprev /\ c[h].data = b[o].data
      /\ c[m].size = b[h].size + b[o].size - b[o].fprev /\ c[m].prev_size = b[h].prev_size

\* The memmove() of defragmentation swaps a hole and the block behind it.
LEMMA MoveIs ==
  ASSUME NEW b, Headers(b), Tiles(b), NEW h \in Inner(b), NEW o \in Inner(b),
         Next_S(b, h) = o, b[o].fprev \in 1..b[o].size
  PROVE  Shifted(b, MoveDown(b, h, o), h, o)
<1> DEFINE c == MoveDown(b, h, o)
           u == b[o].fprev
           m == h + u
           z == b[h].size + b[o].size - u
           rest == [b[h] EXCEPT !.size = z]
           cut == [b[o] EXCEPT !.size = u]
           moved == [cut EXCEPT !.prev_size = 0]
<1>1. /\ Cells \in Nat /\ h \in 2..(Cells + 1) /\ o \in 2..(Cells + 1)
      /\ b[h].size \in 1..Cells /\ b[o].size \in 1..Cells
      /\ o = h + b[h].size /\ Next_S(b, o) = o + b[o].size
      /\ o + b[o].size \in (o + 1)..(Cells + 2)
      /\ h \in DOMAIN b /\ o \in DOMAIN b /\ o + b[o].size \in DOMAIN b
  <2>1. Cells \in Nat /\ h \in 2..(Cells + 1) /\ o \in 2..(Cells + 1)
        /\ b[h].size \in 1..Cells /\ b[o].size \in 1..Cells
    BY Constants, NextIs
  <2>2. o = h + b[h].size /\ Next_S(b, o) = o + b[o].size /\ Next_S(b, o) \in (o + 1)..(Cells + 2)
        /\ Next_S(b, o) \in DOMAIN b
    BY NextIs
  <2> QED
    BY <2>1, <2>2 DEF Inner
<1>2. u \in Nat \ {0} /\ u <= b[o].size /\ z \in 1..Cells /\ m \in 3..(Cells + 1)
      /\ m < o + b[o].size /\ h < m /\ h < o /\ u \in 0..Cells
  BY <1>1
<1>3. m \notin DOMAIN b \ {o}
  <2> SUFFICES ASSUME m \in DOMAIN b, m # o PROVE FALSE
    OBVIOUS
  <2>1. o <= m
    BY <1>1, <1>2 DEF Tiles
  <2>2. m > o /\ m \in Nat
    BY <1>1, <1>2, <2>1
  <2>3. o + b[o].size <= m
    BY <1>1, <2>2 DEF Tiles
  <2> QED
    BY <1>1, <1>2, <2>3
<1>4. \A x \in DOMAIN b : b[x] \in Block
  BY DEF Headers
<1>5. /\ DOMAIN c = (DOMAIN b \ {o}) \cup {m} /\ c[m] = rest /\ c[h] = moved
      /\ \A x \in DOMAIN b \ {h, o} : c[x] = b[x]
  <2>1. c = With(With(Drop(b, o), h, [b[o] EXCEPT !.size = u, !.prev_size = 0]), m, rest)
    BY DEF MoveDown
  <2>2. [b[o] EXCEPT !.size = u, !.prev_size = 0] = moved
    OBVIOUS
  <2>3. h # m /\ h # o
    BY <1>1, <1>2
  <2> HIDE DEF c, m, rest, moved
  <2>4. DOMAIN Drop(b, o) = DOMAIN b \ {o} /\ \A x \in DOMAIN b \ {o} : Drop(b, o)[x] = b[x]
    BY DEF Drop
  <2> DEFINE d == With(Drop(b, o), h, moved)
  <2>5. DOMAIN d = DOMAIN b \ {o} /\ d[h] = moved /\ \A x \in DOMAIN b \ {h, o} : d[x] = b[x]
    BY <1>1, <2>3, <2>4 DEF With
  <2>6. c = With(d, m, rest)
    BY <2>1, <2>2
  <2> HIDE DEF d
  <2> QED
    BY <1>1, <1>3, <2>3, <2>5, <2>6 DEF With
<1>6. cut \in Block /\ cut.size = u /\ cut.fnext = b[o].fnext /\ cut.fprev = b[o].fprev
      /\ cut.data = b[o].data
  <2> HIDE DEF u
  <2> QED
    BY <1>1, <1>2, <1>4 DEF Block
<1> HIDE DEF c, cut
<1>7. /\ moved \in Block /\ moved.size = cut.size /\ moved.prev_size = 0
      /\ moved.fnext = cut.fnext /\ moved.fprev = cut.fprev /\ moved.data = cut.data
  <2>1. 0 \in 0..Cells
    BY <1>1
  <2> QED
    BY <1>6, <2>1 DEF Block
<1>8. rest \in Block /\ rest.size = z /\ rest.prev_size = b[h].prev_size
  <2> HIDE DEF z
  <2>1. z \in 0..Cells
    BY <1>2
  <2> QED
    BY <1>1, <1>4, <2>1 DEF Block
<1> HIDE DEF moved, rest, m, u, z
<1>9. Headers(c)
  <2>1. m \in Offset
    <3>1. Offset = 1..(Cells + 2)
      BY Constants
    <3> QED
      BY <1>1, <1>2, <3>1
  <2>2. \A x \in DOMAIN c : c[x] \in Block
    BY <1>3, <1>4, <1>5, <1>7, <1>8
  <2>3. o \notin {FirstBlk, Start, LastBlk}
    BY <1>1, <1>2, Constants DEF Inner
  <2>4. DOMAIN b \subseteq Offset /\ {FirstBlk, Start, LastBlk} \subseteq DOMAIN b
    BY DEF Headers
  <2> QED
    BY <1>5, <2>1, <2>2, <2>3, <2>4 DEF Headers
<1>10. /\ c[h].size = u /\ c[h].prev_size = 0 /\ c[h].fnext = b[o].fnext
       /\ c[h].fprev = b[o].fprev /\ c[h].data = b[o].data
       /\ c[m].size = z /\ c[m].prev_size = b[h].prev_size
  BY <1>5, <1>6, <1>7, <1>8
<1>11. m \in Nat /\ h \in Nat /\ o \in Nat /\ b[h].size \in Nat /\ b[o].size \in Nat /\ b[h].size > 0
  BY <1>1, <1>2
<1> QED
  BY <1>1, <1>2, <1>3, <1>5, <1>9, <1>10, <1>11 DEF c, m, u, z, Shifted

\* c is b with the block o moved to the free block before it.
MovedDown(b, c, F, H, h, o) ==
  LET m == h + b[o].fprev
  IN  /\ m \notin DOMAIN b \ {o} /\ h < m /\ Sane(c, F, (H \ {h}) \cup {m})
      /\ DOMAIN c = (DOMAIN b \ {o}) \cup {m}
      /\ \A x \in DOMAIN b \ {h, o} : c[x] = b[x]
      /\ c[h].size = b[o].fprev /\ c[h].fprev = b[o].fprev /\ c[h].data = b[o].data
      /\ c[m].prev_size = 0 /\ Next_S(c, h) = m /\ Next_S(c, m) = Next_S(b, o)
      /\ Used(c, F, (H \ {h}) \cup {m}) = (Used(b, F, H) \ {o}) \cup {h}
      /\ Total(c, F \cup ((H \ {h}) \cup {m})) =
           Total(b, F \cup H) + b[o].size - b[o].fprev

\* The block that moved is allocated, and the hole behind it in limbo.
LEMMA MoveSane ==
  ASSUME NEW b, NEW F, NEW H, Sane(b, F, H), NEW h \in H, b[h].prev_size = 0,
         NEW o \in Used(b, F, H), Next_S(b, h) = o
  PROVE  MovedDown(b, MoveDown(b, h, o), F, H, h, o)
<1> DEFINE c == MoveDown(b, h, o)
           u == b[o].fprev
           m == h + u
           J == (H \ {h}) \cup {m}
<1>1. PICK r : Linked(b, F, r)
  BY DEF Sane
<1>2. Headers(b) /\ Tiles(b) /\ F \in SUBSET Inner(b) /\ H \subseteq Inner(b) /\ F \cap H = {}
      /\ h \in Inner(b) /\ o \in Inner(b) /\ o \notin F /\ o \notin H /\ h \notin F
      /\ Inner(b) \subseteq DOMAIN b
  BY DEF Sane, Parts, Inner, Used
<1>3. b[o].fnext = 0 /\ u \in 1..b[o].size /\ b[o].data \in Id
  BY DEF Sane, Busy
<1>4. /\ m \notin DOMAIN b \ {o} /\ m \in Nat /\ h \in Nat /\ o \in Nat /\ h < m /\ h < o
      /\ o = h + b[h].size /\ m < o + b[o].size /\ b[h].size > 0
      /\ Next_S(b, o) = o + b[o].size /\ b[h].size \in Nat /\ b[o].size \in Nat
      /\ u \in Nat \ {0} /\ u <= b[o].size
      /\ DOMAIN c = (DOMAIN b \ {o}) \cup {m} /\ Headers(c)
      /\ \A x \in DOMAIN b \ {h, o} : c[x] = b[x]
      /\ c[h].size = u /\ c[h].prev_size = 0 /\ c[h].fnext = 0
      /\ c[h].fprev = u /\ c[h].data = b[o].data
      /\ c[m].size = b[h].size + b[o].size - u /\ c[m].prev_size = 0
  <2>1. Shifted(b, c, h, o)
    BY <1>2, <1>3, MoveIs
  <2> HIDE DEF c
  <2> QED
    BY <1>3, <2>1 DEF Shifted
<1>5. Next_S(c, h) = m /\ Next_S(c, m) = Next_S(b, o) /\ m # h /\ m < Next_S(b, o)
  <2>1. Next_S(c, h) = h + c[h].size /\ Next_S(c, m) = m + c[m].size
    BY DEF Next_S
  <2> QED
    BY <1>4, <2>1
<1> HIDE DEF c, m, u
<1>6. Inner(c) = (Inner(b) \ {o}) \cup {m} /\ FirstBlk \in DOMAIN b \ {h, o}
      /\ LastBlk \in DOMAIN b \ {h, o} /\ Start \in DOMAIN b /\ m # FirstBlk /\ m # LastBlk
      /\ Start # o /\ Start # m
  <2>1. FirstBlk \in DOMAIN b /\ LastBlk \in DOMAIN b /\ Start \in DOMAIN b
    BY <1>2, Offsets
  <2>2. FirstBlk \notin {h, o} /\ LastBlk \notin {h, o}
    BY <1>2 DEF Inner
  <2>3. m # FirstBlk /\ m # LastBlk
    BY <1>4, <2>1, <2>2
  <2>4. Start # o /\ Start # m
    <3>1. h >= Start /\ Start \in Nat
      BY <1>2, Offsets, Constants
    <3> QED
      BY <1>4, <3>1
  <2> QED
    BY <1>2, <1>4, <2>1, <2>2, <2>3, <2>4 DEF Inner
<1>7. \A x \in Inner(b) \ {h, o} : /\ Next_S(c, x) = Next_S(b, x) /\ c[x].size = b[x].size
                                   /\ Next_S(b, x) # o /\ Next_S(b, x) \in DOMAIN b
  <2>1. \A x \in Inner(b) \ {h, o} : Next_S(c, x) = Next_S(b, x) /\ c[x].size = b[x].size
    BY <1>2, <1>4 DEF Next_S
  <2>2. \A x \in Inner(b) \ {h, o} : Next_S(b, x) # o
    BY <1>2, OnePrevious
  <2> QED
    BY <1>2, <2>1, <2>2 DEF Tiles
<1>8. ASSUME NEW y \in DOMAIN b, y > h, y # o PROVE Next_S(b, o) <= y
  <2>1. y \in Nat
    BY <1>2, Offsets
  <2>2. o <= y
    BY <1>2, <1>8 DEF Tiles
  <2>3. y > o
    BY <1>4, <1>8, <2>1, <2>2
  <2> QED
    BY <1>2, <2>3 DEF Tiles
<1>9. Tiles(c)
  <2>1. ASSUME NEW x \in Inner(b) \ {h, o}
        PROVE  /\ c[x].size > 0 /\ Next_S(c, x) \in DOMAIN c
               /\ \A y \in DOMAIN c : y > x => Next_S(c, x) <= y
    <3>1. /\ b[x].size > 0 /\ Next_S(b, x) \in DOMAIN b /\ Next_S(b, x) \in Nat
          /\ \A y \in DOMAIN b : y > x => Next_S(b, x) <= y
      BY <1>2, NextIs DEF Tiles
    <3>2. x \in Nat /\ x \in DOMAIN b
      BY <1>2, Offsets
    <3>3. m > x => Next_S(b, x) <= m
      <4>1. CASE x < h
        BY <1>2, <1>4, <3>1, <3>2, <4>1
      <4>2. CASE x > h
        BY <1>4, <1>5, <1>8, <3>2, <4>2
      <4> QED
        BY <1>4, <3>2, <4>1, <4>2
    <3> QED
      BY <1>4, <1>7, <3>1, <3>3
  <2>2. /\ c[h].size > 0 /\ Next_S(c, h) \in DOMAIN c
        /\ \A y \in DOMAIN c : y > h => Next_S(c, h) <= y
    <3>1. ASSUME NEW y \in DOMAIN b, y > h, y # o PROVE m <= y
      <4>1. Next_S(b, o) <= y /\ y \in Nat /\ Next_S(b, o) \in Nat
        BY <1>2, <1>4, <1>8, <3>1, Offsets
      <4> QED
        BY <1>4, <1>5, <4>1
    <3> QED
      BY <1>4, <1>5, <3>1
  <2>3. /\ c[m].size > 0 /\ Next_S(c, m) \in DOMAIN c
        /\ \A y \in DOMAIN c : y > m => Next_S(c, m) <= y
    <3>1. ASSUME NEW y \in DOMAIN b \ {o}, y > m PROVE Next_S(b, o) <= y
      <4>1. y \in Nat /\ y > h
        BY <1>2, <1>4, <3>1, Offsets
      <4> QED
        BY <1>8, <4>1
    <3>2. ~(m > m)
      BY <1>4
    <3>3. Next_S(b, o) \in DOMAIN b /\ Next_S(b, o) # o
      BY <1>2, NextIs
    <3>4. c[m].size > 0
      BY <1>4
    <3> QED
      BY <1>4, <1>5, <3>1, <3>2, <3>3, <3>4
  <2>4. \A x \in Inner(c) : x \in Inner(b) \ {h, o} \/ x = h \/ x = m
    BY <1>6
  <2> QED
    BY <2>1, <2>2, <2>3, <2>4 DEF Tiles
<1>10. m \notin F /\ m \notin H /\ Parts(c, F, J)
       /\ Used(c, F, J) = (Used(b, F, H) \ {o}) \cup {h}
  <2>1. m \notin F /\ m \notin H
    BY <1>2, <1>4
  <2>2. Parts(c, F, J)
    BY <1>2, <1>5, <1>6, <2>1 DEF Parts
  <2>3. \A x : x \in Used(c, F, J) <=> x \in (Used(b, F, H) \ {o}) \cup {h}
    <3>1. m \in Inner(b) => m = o
      BY <1>2, <1>4
    <3> QED
      BY <1>2, <1>4, <1>5, <1>6, <2>1, <3>1 DEF Used
  <2> QED
    BY <2>1, <2>2, <2>3
<1>11. Linked(c, F, r)
  <2>1. \A x \in F \cup {FirstBlk, LastBlk} : x \in DOMAIN b \ {h, o}
    BY <1>2, <1>6
  <2> QED
    BY <1>1, <1>4, <2>1, LinkedSame
<1>12. Tags(c, F, J)
  <2>1. Tags(b, F, H)
    BY DEF Sane
  <2>2. \A x \in DOMAIN b \ {o} : x # h => c[x].prev_size = b[x].prev_size
    BY <1>4
  <2>3. c[Start].prev_size = 0
    BY <1>4, <1>6, <2>1 DEF Tags
  <2>4. ASSUME NEW x \in Inner(c) \ J
        PROVE  /\ c[Next_S(c, x)].prev_size = IF x \in F THEN c[x].size ELSE 0
               /\ x \in F => Next_S(c, x) \notin F
    <3>1. CASE x = h
      BY <1>2, <1>4, <1>5, <3>1
    <3>2. CASE x # h
      <4>1. x \in Inner(b) \ H /\ x \notin {h, o}
        BY <1>6, <2>4, <3>2
      <4>2. /\ b[Next_S(b, x)].prev_size = IF x \in F THEN b[x].size ELSE 0
            /\ x \in F => Next_S(b, x) \notin F
        BY <2>1, <4>1 DEF Tags
      <4>3. Next_S(c, x) = Next_S(b, x) /\ c[x].size = b[x].size /\ Next_S(b, x) \in DOMAIN b \ {o}
        BY <1>7, <4>1
      <4>4. c[Next_S(b, x)].prev_size = b[Next_S(b, x)].prev_size
        <5>1. CASE Next_S(b, x) = h
          BY <1>4, <5>1
        <5>2. CASE Next_S(b, x) # h
          BY <2>2, <4>3, <5>2
        <5> QED
          BY <5>1, <5>2
      <4> QED
        BY <4>2, <4>3, <4>4
    <3> QED
      BY <3>1, <3>2
  <2> QED
    BY <2>3, <2>4 DEF Tags
<1>13. Busy(c, Used(c, F, J))
  <2>1. Busy(b, Used(b, F, H)) /\ Used(b, F, H) \subseteq DOMAIN b /\ h \notin Used(b, F, H)
    BY <1>2 DEF Sane, Used
  <2>2. c[h].fnext = 0 /\ c[h].fprev \in 1..c[h].size /\ c[h].data \in Id
    BY <1>3, <1>4
  <2>3. \A x \in Used(b, F, H) \ {o} : c[x] = b[x]
    BY <1>4, <2>1
  <2> QED
    BY <1>10, <2>1, <2>2, <2>3 DEF Busy
<1>14. c[LastBlk].fnext = 0
  BY <1>4, <1>6 DEF Sane
<1>15. Total(c, F \cup J) = Total(b, F \cup H) + b[o].size - u
  <2> DEFINE S == F \cup H
             T == S \ {h}
  <2>1. Sized(b, S) /\ Sized(b, T) /\ Sized(c, T \cup {m})
    <3>1. Inner(c) \subseteq DOMAIN c
      BY DEF Inner
    <3>2. S \subseteq DOMAIN b /\ T \cup {m} \subseteq DOMAIN c
      BY <1>2, <1>4
    <3>3. IsFiniteSet(S) /\ IsFiniteSet(T) /\ IsFiniteSet(T \cup {m})
      BY <1>2, <1>4, <3>2, Offsets, FS_Subset
    <3>4. \A x \in DOMAIN b : b[x].size \in Nat
      BY <1>2, Offsets
    <3>5. \A x \in DOMAIN c : c[x].size \in Nat
      BY <1>4, Offsets
    <3> QED
      BY <3>2, <3>3, <3>4, <3>5 DEF Sized
  <2>2. F \cup J = T \cup {m} /\ (T \cup {m}) \ {m} = T /\ h \in S /\ F \cup H = S
        /\ T \subseteq DOMAIN b \ {h, o}
    BY <1>2, <1>10
  <2>3. Total(c, T) = Total(b, T)
    <3>1. \A x \in T : c[x].size = b[x].size
      BY <1>4, <2>2
    <3> QED
      BY <2>1, <3>1, TotalSame DEF Sized
  <2>4. Total(c, T \cup {m}) = c[m].size + Total(c, T)
    <3>1. m \in T \cup {m}
      OBVIOUS
    <3> QED
      BY <2>1, <2>2, <3>1, TotalTakes
  <2>5. Total(b, S) = b[h].size + Total(b, T) /\ Total(b, T) \in Nat
    BY <2>1, <2>2, TotalTakes
  <2> HIDE DEF S, T
  <2>6. Total(c, T \cup {m}) = Total(b, S) + b[o].size - u
    BY <1>4, <2>3, <2>4, <2>5
  <2> QED
    BY <2>2, <2>6
<1>16. Sane(c, F, J)
  BY <1>4, <1>9, <1>10, <1>11, <1>12, <1>13, <1>14 DEF Sane
<1> QED
  BY <1>4, <1>5, <1>10, <1>15, <1>16 DEF c, m, u, MovedDown

\* A closed block can go back into the list.
LEMMA LinkClosed ==
  ASSUME NEW b, NEW F, NEW H, Sane(b, F, H), NEW h \in H,
         b[Next_S(b, h)].prev_size = b[h].size
  PROVE  Closed(b, LinkAtStart(b, h), F, h)
<1> DEFINE c == LinkAtStart(b, h)
<1>1. PICK r : Linked(b, F, r)
  BY DEF Sane
<1>2. Headers(b) /\ F \in SUBSET Inner(b) /\ h \in Inner(b) \ F
  BY DEF Sane, Parts
<1>3. /\ DOMAIN c = DOMAIN b /\ Headers(c)
      /\ \A x \in DOMAIN b : /\ c[x].size = b[x].size /\ c[x].prev_size = b[x].prev_size
                             /\ c[x].data = b[x].data
      /\ \A x \in DOMAIN b \ (F \cup {h, FirstBlk, LastBlk}) :
           c[x].fnext = b[x].fnext /\ c[x].fprev = b[x].fprev
      /\ c[LastBlk].fnext = b[LastBlk].fnext
      /\ \E q : Linked(c, F \cup {h}, q)
  BY <1>1, <1>2, LinkKeeps
<1> HIDE DEF c
<1> QED
  BY <1>3 DEF Closed, c

\* A hole that ends before an allocated block goes back into the list.
LEMMA HoleClosed ==
  ASSUME NEW b, NEW F, NEW H, Sane(b, F, H), NEW h \in H, b[h].prev_size = 0
  PROVE  Closed(b, CloseHole(b, h, Next_S(b, h)), F, h)
<1> DEFINE n == Next_S(b, h)
           d == LinkAtStart(b, h)
           e == [d EXCEPT ![h].prev_size = 0]
           c == [e EXCEPT ![n].prev_size = b[h].size]
<1>1. PICK r : Linked(b, F, r)
  BY DEF Sane
<1>2. Headers(b) /\ Tiles(b) /\ F \in SUBSET Inner(b) /\ h \in Inner(b) \ F /\ h \in DOMAIN b
  BY DEF Sane, Parts, Inner
<1>3. CloseHole(b, h, n) = c
  BY DEF CloseHole
<1>4. n \in DOMAIN b /\ b[h].size \in 0..Cells /\ 0 \in 0..Cells /\ n # h
      /\ FirstBlk \in DOMAIN b /\ LastBlk \in DOMAIN b
  <2>1. h \in Nat /\ n \in DOMAIN b /\ n \in (h + 1)..(Cells + 2) /\ b[h].size \in 1..Cells
        /\ Cells \in Nat
    BY <1>2, NextIs, Constants
  <2>2. FirstBlk \in DOMAIN b /\ LastBlk \in DOMAIN b
    BY <1>2, Offsets
  <2> QED
    BY <2>1, <2>2
<1> HIDE DEF n
<1>5. /\ DOMAIN d = DOMAIN b /\ Headers(d)
      /\ \A x \in DOMAIN b : /\ d[x].size = b[x].size /\ d[x].prev_size = b[x].prev_size
                             /\ d[x].data = b[x].data
      /\ \A x \in DOMAIN b \ (F \cup {h, FirstBlk, LastBlk}) :
           d[x].fnext = b[x].fnext /\ d[x].fprev = b[x].fprev
      /\ d[LastBlk].fnext = b[LastBlk].fnext
      /\ \E q : Linked(d, F \cup {h}, q)
  BY <1>1, <1>2, LinkKeeps
<1> HIDE DEF d
<1>6. Retagged(d, e, [x \in DOMAIN d |-> IF x = h THEN 0 ELSE d[x].prev_size])
  <2>1. Headers(d) /\ h \in DOMAIN d /\ 0 \in 0..Cells
    BY <1>2, <1>4, <1>5
  <2> QED
    BY <2>1, RetagIs
<1>7. /\ DOMAIN e = DOMAIN b /\ Headers(e)
      /\ \A x \in DOMAIN b : /\ e[x].size = d[x].size /\ e[x].data = d[x].data
                             /\ e[x].fnext = d[x].fnext /\ e[x].fprev = d[x].fprev
                             /\ e[x].prev_size = b[x].prev_size
  BY <1>5, <1>6 DEF Retagged
<1> HIDE DEF e
<1>8. Retagged(e, c, [x \in DOMAIN e |-> IF x = n THEN b[h].size ELSE e[x].prev_size])
  <2>1. Headers(e) /\ n \in DOMAIN e /\ b[h].size \in 0..Cells
    BY <1>4, <1>7
  <2> QED
    BY <2>1, RetagIs
<1>9. /\ DOMAIN c = DOMAIN b /\ Headers(c)
      /\ \A x \in DOMAIN b : /\ c[x].size = e[x].size /\ c[x].data = e[x].data
                             /\ c[x].fnext = e[x].fnext /\ c[x].fprev = e[x].fprev
                             /\ c[x].prev_size = IF x = n THEN b[h].size ELSE e[x].prev_size
  BY <1>7, <1>8 DEF Retagged
<1> HIDE DEF c
<1>10. \E q : Linked(c, F \cup {h}, q)
  <2>1. PICK q : Linked(d, F \cup {h}, q)
    BY <1>5
  <2>2. \A x \in (F \cup {h}) \cup {FirstBlk, LastBlk} : x \in DOMAIN b
    BY <1>2, <1>4 DEF Inner
  <2>3. \A x \in (F \cup {h}) \cup {FirstBlk, LastBlk} :
          c[x].fnext = d[x].fnext /\ c[x].fprev = d[x].fprev
    BY <1>7, <1>9, <2>2
  <2> QED
    BY <2>1, <2>3, LinkedSame
<1> QED
  BY <1>3, <1>4, <1>5, <1>7, <1>9, <1>10 DEF Closed, n

-----------------------------------------------------------------------------
(* What an allocation and a release do to the blocks of the clients.         *)

\* c is b with the block o, of n cells or too few more to split them off.
Gave(b, F, c, G, o, n, i) ==
  /\ Sane(c, G, {}) /\ Used(c, G, {}) = Used(b, F, {}) \cup {o}
  /\ Alike(b, c, Used(b, F, {})) /\ c[o].fprev = n /\ c[o].data = i
  /\ c[o].size = IF b[o].size < n + MinBlock THEN b[o].size ELSE n
  /\ Total(c, G) = Total(b, F) - c[o].size

\* The total of a set of blocks, taken one by one.
LEMMA TotalOf ==
  ASSUME NEW b, Headers(b), NEW S \in SUBSET Inner(b)
  PROVE  /\ Sized(b, S) /\ Total(b, S) \in Nat
         /\ \A x \in S : Total(b, S) = b[x].size + Total(b, S \ {x})
<1>1. IsFiniteSet(S)
  BY Offsets, FS_Subset
<1>2. \A x \in DOMAIN b : b[x].size \in Nat
  BY Offsets
<1>3. S \subseteq DOMAIN b
  BY DEF Inner
<1>4. Sized(b, S)
  BY <1>1, <1>2, <1>3 DEF Sized
<1> QED
  BY <1>4, TotalTakes

\* Blocks whose sizes stay have the same total.
LEMMA TotalKept ==
  ASSUME NEW b, Headers(b), NEW S \in SUBSET Inner(b), NEW c,
         \A x \in S : c[x].size = b[x].size
  PROVE  Total(c, S) = Total(b, S)
<1>1. IsFiniteSet(S)
  BY TotalOf DEF Sized
<1> QED
  BY <1>1, TotalSame

\* A block that is too small to split is handed out whole.
LEMMA TakeWholeSane ==
  ASSUME NEW b, NEW F, Sane(b, F, {}), NEW o \in F, NEW n \in 1..b[o].size, NEW i \in Id,
         b[o].size < n + MinBlock
  PROVE  Gave(b, F, TakeWhole(b, o, n, i), F \ {o}, o, n, i)
<1> DEFINE u == Unlink(b, o)
           G == F \ {o}
           t == [u EXCEPT ![Next_S(u, o)].prev_size = 0]
           c == MarkAllocated(t, o, n, i)
<1>1. TakeWhole(b, o, n, i) = c
  BY DEF TakeWhole
<1>2. Headers(b) /\ Tiles(b) /\ F \in SUBSET Inner(b) /\ o \in Inner(b) /\ Inner(b) \subseteq DOMAIN b
      /\ {} \cup {o} = {o} /\ 0 \in 0..Cells /\ o \in {o} /\ {o} \ {o} = {}
  BY Constants DEF Sane, Parts, Inner
<1>3. /\ Sane(u, G, {o}) /\ DOMAIN u = DOMAIN b
      /\ \A x \in DOMAIN b : u[x].size = b[x].size /\ u[x].prev_size = b[x].prev_size
                             /\ u[x].data = b[x].data
      /\ \A x \in Inner(b) \ G : u[x].fnext = b[x].fnext /\ u[x].fprev = b[x].fprev
  <2>1. Unlinked(b, u, F, {}, o)
    BY UnlinkSane
  <2> HIDE DEF u
  <2> QED
    BY <1>2, <2>1 DEF Unlinked
<1> HIDE DEF u
<1>4. /\ Sane(t, G, {o}) /\ DOMAIN t = DOMAIN u
      /\ \A x \in DOMAIN u :
           /\ t[x].size = u[x].size /\ t[x].data = u[x].data
           /\ t[x].fnext = u[x].fnext /\ t[x].fprev = u[x].fprev
           /\ t[x].prev_size = IF x = Next_S(u, o) THEN 0 ELSE u[x].prev_size
  <2>1. TagSet(u, t, G, {o}, o, 0)
    BY <1>2, <1>3, RetagSane
  <2> HIDE DEF t
  <2> QED
    BY <2>1 DEF TagSet
<1> HIDE DEF t
<1>5. Next_S(u, o) = Next_S(b, o) /\ Next_S(t, o) = Next_S(b, o) /\ Next_S(b, o) \in DOMAIN b
  BY <1>2, <1>3, <1>4, NextIs DEF Next_S
<1>6. t[Next_S(t, o)].prev_size = 0 /\ t[o].size = b[o].size
  BY <1>2, <1>3, <1>4, <1>5
<1>7. /\ Sane(c, G, {}) /\ DOMAIN c = DOMAIN t
      /\ \A x \in DOMAIN t \ {o} : c[x] = t[x]
      /\ c[o].size = t[o].size /\ c[o].fprev = n /\ c[o].data = i
  <2>1. n \in 1..t[o].size
    BY <1>6
  <2>2. Marked(t, c, G, {o}, o, n, i)
    BY <1>2, <1>4, <1>6, <2>1, MarkSane
  <2> HIDE DEF c
  <2> QED
    BY <1>2, <2>2 DEF Marked
<1> HIDE DEF c
<1>8. \A x \in DOMAIN b : c[x].size = b[x].size
  BY <1>3, <1>4, <1>7
<1>9. Alike(b, c, Used(b, F, {}))
  <2>1. Used(b, F, {}) \subseteq Inner(b) \ G /\ o \notin Used(b, F, {})
    BY DEF Used
  <2>2. \A x \in Used(b, F, {}) : x \in DOMAIN b /\ c[x] = t[x]
    BY <1>2, <1>3, <1>4, <1>7, <2>1
  <2> QED
    BY <1>3, <1>4, <1>8, <2>1, <2>2 DEF Alike
<1>10. Used(c, G, {}) = Used(b, F, {}) \cup {o}
  <2>1. Inner(c) = Inner(b)
    BY <1>3, <1>4, <1>7 DEF Inner
  <2> QED
    BY <1>2, <2>1 DEF Used
<1>11. Total(c, G) = Total(b, F) - c[o].size
  <2>1. Total(c, G) = Total(b, G)
    BY <1>2, <1>8, TotalKept
  <2>2. Total(b, F) = b[o].size + Total(b, G) /\ Total(b, G) \in Nat /\ b[o].size \in Nat
    BY <1>2, TotalOf DEF Sized
  <2> QED
    BY <1>2, <1>8, <2>1, <2>2
<1> QED
  BY <1>1, <1>2, <1>7, <1>8, <1>9, <1>10, <1>11 DEF Gave

\* A larger one is split, and its rest goes into the list.
LEMMA SplitSane ==
  ASSUME NEW b, NEW F, Sane(b, F, {}), NEW o \in F, NEW n \in 1..(b[o].size - 1), NEW i \in Id,
         ~(b[o].size < n + MinBlock)
  PROVE  Gave(b, F, Split(b, o, n, i), (F \ {o}) \cup {o + n}, o, n, i)
<1> DEFINE u == Unlink(b, o)
           G == F \ {o}
           m == o + n
           z == b[o].size - n
           d == Cut(u, o, n)
           t == [d EXCEPT ![m + z].prev_size = z]
           l == LinkAtStart(t, m)
           c == MarkAllocated(l, o, n, i)
<1>1. Headers(b) /\ Tiles(b) /\ F \in SUBSET Inner(b) /\ o \in Inner(b) /\ Inner(b) \subseteq DOMAIN b
      /\ {} \cup {o} = {o} /\ o \in {o} /\ {o} \ {o} = {} /\ o \in Nat /\ b[o].size \in Nat
      /\ z \in 0..Cells /\ n \in Nat \ {0} /\ z > 0 /\ Next_S(b, o) \notin F
      /\ Next_S(b, o) = m + z /\ m + z \in DOMAIN b /\ m \in Nat /\ m # o /\ m + z # m
  <2>1. Headers(b) /\ Tiles(b) /\ F \in SUBSET Inner(b) /\ o \in Inner(b) /\ Inner(b) \subseteq DOMAIN b
    BY DEF Sane, Parts, Inner
  <2>2. Cells \in Nat /\ o \in Nat /\ b[o].size \in 1..Cells /\ Next_S(b, o) = o + b[o].size
        /\ Next_S(b, o) \in DOMAIN b
    BY <2>1, NextIs, Constants
  <2>3. Next_S(b, o) \notin F
    BY <2>1 DEF Sane, Tags
  <2>4. /\ z \in 0..Cells /\ n \in Nat \ {0} /\ z > 0 /\ m \in Nat /\ m # o /\ m + z # m
        /\ o + b[o].size = m + z
    BY <2>2
  <2> QED
    BY <2>1, <2>2, <2>3, <2>4
<1>2. /\ Sane(u, G, {o}) /\ DOMAIN u = DOMAIN b
      /\ \A x \in DOMAIN b : u[x].size = b[x].size /\ u[x].prev_size = b[x].prev_size
                             /\ u[x].data = b[x].data
      /\ \A x \in Inner(b) \ G : u[x].fnext = b[x].fnext /\ u[x].fprev = b[x].fprev
  <2>1. Unlinked(b, u, F, {}, o)
    BY UnlinkSane
  <2> HIDE DEF u
  <2> QED
    BY <1>1, <2>1 DEF Unlinked
<1>3. u[o].size = b[o].size /\ Next_S(u, o) = m + z /\ n \in 1..(u[o].size - 1)
  BY <1>1, <1>2 DEF Next_S
<1>4. d = With([u EXCEPT ![o].size = n], m,
               [size |-> z, prev_size |-> 0, fnext |-> 0, fprev |-> 0, data |-> 0])
  <2> HIDE DEF u
  <2> QED
    BY <1>3 DEF Cut
<1>5. Split(b, o, n, i) = c
  BY <1>4 DEF Split
<1> HIDE DEF u
<1>6. /\ Sane(d, G, {o, m}) /\ m \notin DOMAIN b /\ DOMAIN d = DOMAIN b \cup {m}
      /\ \A x \in DOMAIN b \ {o} : d[x] = u[x]
      /\ d[o].size = n /\ Next_S(d, o) = m /\ d[m].size = z /\ d[m].prev_size = 0
      /\ Next_S(d, m) = m + z
  <2>1. CutOff(u, d, G, {o}, o, n)
    BY <1>1, <1>2, <1>3, CutSane
  <2>2. {o} \cup {m} = {o, m}
    OBVIOUS
  <2> HIDE DEF d
  <2> QED
    BY <1>2, <1>3, <2>1, <2>2 DEF CutOff
<1> HIDE DEF d
<1>7. /\ Sane(t, G, {o, m}) /\ DOMAIN t = DOMAIN d
      /\ \A x \in DOMAIN d :
           /\ t[x].size = d[x].size /\ t[x].data = d[x].data
           /\ t[x].fnext = d[x].fnext /\ t[x].fprev = d[x].fprev
           /\ t[x].prev_size = IF x = m + z THEN z ELSE d[x].prev_size
  <2> HIDE DEF z, m
  <2>1. m \in {o, m} /\ t = [d EXCEPT ![Next_S(d, m)].prev_size = z]
    BY <1>6
  <2>2. TagSet(d, [d EXCEPT ![Next_S(d, m)].prev_size = z], G, {o, m}, m, z)
    BY <1>1, <1>6, <2>1, RetagSane
  <2> HIDE DEF t
  <2>3. TagSet(d, t, G, {o, m}, m, z)
    BY <2>1, <2>2
  <2> QED
    BY <1>6, <2>3 DEF TagSet
<1> HIDE DEF t, m, z
<1>8. /\ Next_S(t, m) = m + z /\ t[m].size = z /\ t[m].prev_size = 0 /\ t[m + z].prev_size = z
      /\ Next_S(t, o) = m /\ t[o].size = n
  <2>1. m \in DOMAIN d /\ o \in DOMAIN d /\ m + z \in DOMAIN d
    BY <1>1, <1>6
  <2>2. t[m].size = z /\ t[o].size = n /\ t[m].prev_size = 0 /\ t[m + z].prev_size = z
    BY <1>1, <1>6, <1>7, <2>1
  <2> QED
    BY <1>6, <2>2 DEF Next_S
<1>9. Closed(t, l, G, m) /\ Sane(l, G \cup {m}, {o})
  <2>1. Closed(t, l, G, m)
    BY <1>7, <1>8, LinkClosed
  <2>2. m + z \notin G /\ {o, m} \ {m} = {o}
    BY <1>1
  <2> HIDE DEF l
  <2>3. Sane(l, G \cup {m}, {o, m} \ {m})
    BY <1>7, <1>8, <2>1, <2>2, CloseSane
  <2> QED
    BY <2>1, <2>2, <2>3
<1> HIDE DEF l
<1>10. /\ DOMAIN l = DOMAIN t
       /\ \A x \in DOMAIN t :
            /\ l[x].size = t[x].size /\ l[x].data = t[x].data
            /\ l[x].prev_size = IF x = m + z THEN z ELSE t[x].prev_size
       /\ \A x \in DOMAIN t \ (G \cup {m, FirstBlk, LastBlk}) :
            l[x].fnext = t[x].fnext /\ l[x].fprev = t[x].fprev
  BY <1>8, <1>9 DEF Closed
<1>11. l[o].size = n /\ Next_S(l, o) = m /\ l[m].prev_size = 0 /\ l[m].size = z
  <2>1. m \in DOMAIN t /\ o \in DOMAIN t
    BY <1>1, <1>6, <1>7
  <2>2. l[o].size = n /\ l[m].prev_size = 0 /\ l[m].size = z
    BY <1>1, <1>8, <1>10, <2>1
  <2> QED
    BY <2>2, <1>8 DEF Next_S
<1>12. /\ Sane(c, G \cup {m}, {}) /\ DOMAIN c = DOMAIN l
       /\ \A x \in DOMAIN l \ {o} : c[x] = l[x]
       /\ c[o].size = n /\ c[o].fprev = n /\ c[o].data = i
  <2>1. n \in 1..l[o].size /\ l[Next_S(l, o)].prev_size = 0
    BY <1>1, <1>11
  <2>2. Marked(l, c, G \cup {m}, {o}, o, n, i)
    BY <1>1, <1>9, <2>1, MarkSane
  <2> HIDE DEF c
  <2> QED
    BY <1>1, <1>11, <2>2 DEF Marked
<1> HIDE DEF c
<1>13. /\ DOMAIN c = DOMAIN b \cup {m} /\ c[m].size = z
       /\ \A x \in DOMAIN b \ {o} : c[x].size = b[x].size
  BY <1>1, <1>2, <1>6, <1>7, <1>10, <1>11, <1>12
<1>14. Used(c, G \cup {m}, {}) = Used(b, F, {}) \cup {o} /\ m \notin {FirstBlk, LastBlk}
  <2>1. m \notin {FirstBlk, LastBlk}
    BY <1>1, <1>6, Offsets
  <2>2. Inner(c) = Inner(b) \cup {m} /\ m \notin Inner(b)
    BY <1>1, <1>6, <1>13, <2>1 DEF Inner
  <2> QED
    BY <1>1, <2>1, <2>2 DEF Used
<1>15. Alike(b, c, Used(b, F, {}))
  <2> SUFFICES ASSUME NEW x \in Used(b, F, {})
               PROVE  c[x].size = b[x].size /\ c[x].fprev = b[x].fprev /\ c[x].data = b[x].data
    BY DEF Alike
  <2>1. x \in Inner(b) \ G /\ x # o /\ x \in DOMAIN b /\ x # m /\ x \notin {FirstBlk, LastBlk}
    BY <1>1, <1>6 DEF Used, Inner
  <2>2. u[x].fprev = b[x].fprev /\ u[x].data = b[x].data
    BY <1>2, <2>1
  <2>3. d[x] = u[x] /\ x \in DOMAIN d
    BY <1>6, <2>1
  <2>4. t[x].fprev = d[x].fprev /\ t[x].data = d[x].data /\ x \in DOMAIN t
    BY <1>7, <2>3
  <2>5. l[x].fprev = t[x].fprev /\ l[x].data = t[x].data /\ c[x] = l[x]
    BY <1>10, <1>12, <2>1, <2>4
  <2> QED
    BY <1>13, <2>1, <2>2, <2>3, <2>4, <2>5
<1>16. Total(c, G \cup {m}) = Total(b, F) - c[o].size
  <2>1. Headers(c) /\ G \cup {m} \in SUBSET Inner(c) /\ (G \cup {m}) \ {m} = G
    BY <1>1, <1>6, <1>12 DEF Sane, Parts
  <2>2. Total(c, G \cup {m}) = z + Total(c, G)
    BY <1>13, <2>1, TotalOf
  <2>3. Total(c, G) = Total(b, G)
    BY <1>1, <1>13, TotalKept
  <2>4. Total(b, F) = b[o].size + Total(b, G) /\ Total(b, G) \in Nat
    BY <1>1, TotalOf
  <2>5. b[o].size = z + n /\ z \in Nat
    BY <1>1 DEF z
  <2> QED
    BY <1>1, <1>12, <2>2, <2>3, <2>4, <2>5
<1> QED
  BY <1>5, <1>12, <1>14, <1>15, <1>16 DEF Gave, m

\* sma_allocate() hands out one block and disturbs no other.
LEMMA AllocateSane ==
  ASSUME NEW b, NEW F, Sane(b, F, {}), NEW o \in F, NEW n \in Sizes, b[o].size >= n, NEW i \in Id
  PROVE  \E G : Gave(b, F, Allocate(b, o, n, i), G, o, n, i)
<1>1. n \in Nat /\ n > 1 /\ MinBlock \in Nat /\ MinBlock > 1
  BY Constants
<1>2. b[o].size \in Nat
  BY NextIs DEF Sane, Parts
<1>3. CASE b[o].size < n + MinBlock
  <2>1. n \in 1..b[o].size
    BY <1>1, <1>2
  <2> QED
    BY <1>3, <2>1, TakeWholeSane DEF Allocate
<1>4. CASE ~(b[o].size < n + MinBlock)
  <2>1. n \in 1..(b[o].size - 1)
    BY <1>1, <1>2, <1>4
  <2> QED
    BY <1>4, <2>1, SplitSane DEF Allocate
<1> QED
  BY <1>3, <1>4

\* c is b without the allocated block o.
Took(b, F, c, G, o) ==
  /\ Sane(c, G, {}) /\ Used(c, G, {}) = Used(b, F, {}) \ {o}
  /\ Alike(b, c, Used(b, F, {}) \ {o})
  /\ Total(c, G) = Total(b, F) + b[o].size

\* The blocks of the clients and the room for more are the same in b and c.
Serves(b, S, c, T, U) == Alike(b, c, U) /\ Total(c, T) = Total(b, S)

\* A limbo block h takes in the free block before it, so that it has none.
LEMMA MergePrevSane ==
  ASSUME NEW b, NEW F, NEW o, Sane(b, F, {o})
  PROVE  LET r == MergePrev(b, o) IN
         \E G : /\ Sane(r.b, G, {r.cur}) /\ r.b[r.cur].prev_size = 0
                /\ Used(r.b, G, {r.cur}) = Used(b, F, {o})
                /\ Serves(b, F \cup {o}, r.b, G \cup {r.cur}, Used(b, F, {o}))
<1>1. Headers(b) /\ Tiles(b) /\ F \in SUBSET Inner(b) /\ o \in Inner(b) /\ Inner(b) \subseteq DOMAIN b
      /\ o \notin F
  BY DEF Sane, Parts, Inner
<1>2. CASE b[o].prev_size = 0
  <2>1. MergePrev(b, o) = [b |-> b, cur |-> o]
    BY <1>2 DEF MergePrev
  <2>2. Serves(b, F \cup {o}, b, F \cup {o}, Used(b, F, {o}))
    BY DEF Serves, Alike
  <2>3. MergePrev(b, o).b = b /\ MergePrev(b, o).cur = o
    BY <2>1
  <2> QED
    BY <1>2, <2>2, <2>3
<1>3. CASE b[o].prev_size # 0
  <2>1. o # Start
    BY <1>3 DEF Sane, Tags
  <2>2. PICK p \in Inner(b) : Next_S(b, p) = o
    BY <1>1, <2>1, PreviousIs
  <2>3. p # o /\ p \in Nat /\ b[p].size \in Nat /\ o = p + b[p].size /\ p < o
    BY <1>1, <2>2, NextIs
  <2>4. p \in F /\ b[o].prev_size = b[p].size
    BY <1>3, <2>2, <2>3 DEF Sane, Tags
  <2>5. Prev_S(b, o) = p
    BY <2>3, <2>4 DEF Prev_S
  <2> DEFINE u == Unlink(b, p)
             G == F \ {p}
             c == Drop([u EXCEPT ![p].size = @ + u[o].size], o)
  <2>6. /\ Sane(u, G, {o, p}) /\ DOMAIN u = DOMAIN b
        /\ \A x \in DOMAIN b : u[x].size = b[x].size /\ u[x].prev_size = b[x].prev_size
                               /\ u[x].data = b[x].data
        /\ \A x \in Inner(b) \ G : u[x].fnext = b[x].fnext /\ u[x].fprev = b[x].fprev
    <3>1. Unlinked(b, u, F, {o}, p)
      BY <2>4, UnlinkSane
    <3>2. {o} \cup {p} = {o, p}
      OBVIOUS
    <3> HIDE DEF u
    <3> QED
      BY <3>1, <3>2 DEF Unlinked
  <2>7. MergePrev(b, o) = [b |-> c, cur |-> p]
    <3>1. u[o].size = b[o].size
      BY <1>1, <2>6
    <3>2. MergePrev(b, o) = [b |-> Drop([Unlink(b, p) EXCEPT ![p].size = @ + b[o].size], o),
                             cur |-> p]
      BY <1>3, <2>5 DEF MergePrev
    <3> QED
      BY <3>1, <3>2
  <2> HIDE DEF u
  <2>8. Next_S(u, p) = o
    BY <1>1, <2>2, <2>6 DEF Next_S
  <2>9. Joined(u, c, G, {o, p}, p, o)
    BY <2>6, <2>8, AbsorbSane
  <2> HIDE DEF c
  <2>10. {o, p} \ {o} = {p} /\ G \cup {o, p} = F \cup {o} /\ p \in Inner(b)
    BY <2>3, <2>4
  <2>11. /\ Sane(c, G, {p}) /\ Total(c, G \cup {p}) = Total(u, F \cup {o})
         /\ DOMAIN c = DOMAIN b \ {o} /\ c[p].prev_size = u[p].prev_size
         /\ \A x \in DOMAIN b \ {p, o} : c[x] = u[x]
    BY <2>6, <2>9, <2>10 DEF Joined, Absorbed
  <2>12. c[p].prev_size = 0
    <3>1. u[p].prev_size = b[p].prev_size
      BY <1>1, <2>6, <2>10
    <3>2. CASE p = Start
      BY <2>11, <3>1, <3>2 DEF Sane, Tags
    <3>3. CASE p # Start
      <4>1. PICK q \in Inner(b) : Next_S(b, q) = p
        BY <1>1, <3>3, PreviousIs
      <4>2. q # o
        <5>1. Next_S(b, o) > o /\ Next_S(b, o) \in Nat /\ o \in Nat
          BY <1>1, NextIs
        <5> QED
          BY <2>3, <4>1, <5>1
      <4>3. b[Next_S(b, q)].prev_size = (IF q \in F THEN b[q].size ELSE 0)
            /\ (q \in F => Next_S(b, q) \notin F)
        BY <4>1, <4>2 DEF Sane, Tags
      <4>4. q \notin F
        BY <2>4, <4>1, <4>3
      <4> QED
        BY <2>11, <3>1, <4>1, <4>3, <4>4
    <3> QED
      BY <3>2, <3>3
  <2>13. Used(c, G, {p}) = Used(b, F, {o})
    <3>1. Inner(c) = Inner(b) \ {o}
      BY <1>1, <2>11 DEF Inner
    <3> QED
      BY <2>4, <2>10, <3>1 DEF Used
  <2>14. Alike(b, c, Used(b, F, {o}))
    <3> SUFFICES ASSUME NEW x \in Used(b, F, {o})
                 PROVE  c[x].size = b[x].size /\ c[x].fprev = b[x].fprev /\ c[x].data = b[x].data
      BY DEF Alike
    <3>1. x \in Inner(b) \ G /\ x \in DOMAIN b \ {p, o}
      BY <1>1, <2>4 DEF Used
    <3> QED
      BY <2>6, <2>11, <3>1
  <2>15. Total(u, F \cup {o}) = Total(b, F \cup {o})
    <3>1. F \cup {o} \in SUBSET Inner(b)
      BY <1>1
    <3> QED
      BY <1>1, <2>6, <3>1, TotalKept
  <2>16. Serves(b, F \cup {o}, c, G \cup {p}, Used(b, F, {o}))
    BY <2>11, <2>14, <2>15 DEF Serves
  <2>17. MergePrev(b, o).b = c /\ MergePrev(b, o).cur = p
    BY <2>7
  <2> QED
    BY <2>11, <2>12, <2>13, <2>16, <2>17
<1> QED
  BY <1>2, <1>3

\* And the free block after it.
LEMMA MergeNextSane ==
  ASSUME NEW b, NEW F, NEW o, Sane(b, F, {o}), b[o].prev_size = 0
  PROVE  LET c == MergeNext(b, o) IN
         \E G : /\ Sane(c, G, {o}) /\ c[o].prev_size = 0 /\ Next_S(c, o) \notin G
                /\ Used(c, G, {o}) = Used(b, F, {o})
                /\ Serves(b, F \cup {o}, c, G \cup {o}, Used(b, F, {o}))
<1> DEFINE n == Next_S(b, o)
<1>1. Headers(b) /\ Tiles(b) /\ F \in SUBSET Inner(b) /\ o \in Inner(b) /\ Inner(b) \subseteq DOMAIN b
      /\ o \notin F
  BY DEF Sane, Parts, Inner
<1>2. n \in Inner(b) \cup {LastBlk} /\ n # o
  BY <1>1, NextIs
<1>3. b[n].fnext # 0 <=> n \in F
  <2>1. n \in F \/ n \in Used(b, F, {o}) \cup {LastBlk}
    BY <1>2 DEF Used
  <2> HIDE DEF n
  <2> QED
    BY <1>1, <2>1, FreeHasNext DEF Used, Inner
<1>4. CASE n \notin F
  <2>1. MergeNext(b, o) = b
    BY <1>3, <1>4 DEF MergeNext
  <2>2. Serves(b, F \cup {o}, b, F \cup {o}, Used(b, F, {o}))
    BY DEF Serves, Alike
  <2> QED
    BY <1>4, <2>1, <2>2
<1>5. CASE n \in F
  <2> DEFINE u == Unlink(b, n)
             G == F \ {n}
             c == Drop([u EXCEPT ![o].size = @ + u[n].size], n)
  <2>1. /\ Sane(u, G, {o, n}) /\ DOMAIN u = DOMAIN b
        /\ \A x \in DOMAIN b : u[x].size = b[x].size /\ u[x].prev_size = b[x].prev_size
                               /\ u[x].data = b[x].data
        /\ \A x \in Inner(b) \ G : u[x].fnext = b[x].fnext /\ u[x].fprev = b[x].fprev
    <3> HIDE DEF n
    <3>1. Unlinked(b, u, F, {o}, n)
      BY <1>5, UnlinkSane
    <3>2. {o} \cup {n} = {o, n}
      OBVIOUS
    <3> HIDE DEF u
    <3> QED
      BY <3>1, <3>2 DEF Unlinked
  <2>2. MergeNext(b, o) = c
    <3>1. u[n].size = b[n].size
      BY <1>1, <1>5, <2>1
    <3>2. MergeNext(b, o) = Drop([Unlink(b, n) EXCEPT ![o].size = @ + b[n].size], n)
      BY <1>3, <1>5 DEF MergeNext
    <3> QED
      BY <3>1, <3>2
  <2> HIDE DEF u
  <2>3. Next_S(u, o) = n /\ Next_S(u, n) = Next_S(b, n)
    BY <1>1, <1>5, <2>1 DEF Next_S
  <2> HIDE DEF n
  <2>4. Joined(u, c, G, {o, n}, o, n)
    BY <2>1, <2>3, AbsorbSane
  <2> HIDE DEF c
  <2>5. {o, n} \ {n} = {o} /\ G \cup {o, n} = F \cup {o} /\ n \in Inner(b)
    BY <1>1, <1>2, <1>5
  <2>6. /\ Sane(c, G, {o}) /\ Total(c, G \cup {o}) = Total(u, F \cup {o})
        /\ DOMAIN c = DOMAIN b \ {n} /\ c[o].prev_size = u[o].prev_size
        /\ \A x \in DOMAIN b \ {o, n} : c[x] = u[x]
        /\ Next_S(c, o) = Next_S(b, n)
    BY <2>1, <2>3, <2>4, <2>5 DEF Joined, Absorbed
  <2>7. Next_S(c, o) \notin G /\ c[o].prev_size = 0
    <3>1. Next_S(b, n) \notin F
      BY <1>2, <1>5, <2>5 DEF Sane, Tags
    <3> QED
      BY <1>1, <2>1, <2>6, <3>1
  <2>8. Used(c, G, {o}) = Used(b, F, {o})
    <3>1. Inner(c) = Inner(b) \ {n}
      BY <2>6 DEF Inner
    <3> QED
      BY <1>5, <3>1 DEF Used
  <2>9. Alike(b, c, Used(b, F, {o}))
    <3> SUFFICES ASSUME NEW x \in Used(b, F, {o})
                 PROVE  c[x].size = b[x].size /\ c[x].fprev = b[x].fprev /\ c[x].data = b[x].data
      BY DEF Alike
    <3>1. x \in Inner(b) \ G /\ x \in DOMAIN b \ {o, n}
      BY <1>1, <1>5 DEF Used
    <3> QED
      BY <2>1, <2>6, <3>1
  <2>10. Total(u, F \cup {o}) = Total(b, F \cup {o})
    <3>1. F \cup {o} \in SUBSET Inner(b)
      BY <1>1
    <3> QED
      BY <1>1, <2>1, <3>1, TotalKept
  <2>11. Serves(b, F \cup {o}, c, G \cup {o}, Used(b, F, {o}))
    BY <2>6, <2>9, <2>10 DEF Serves
  <2> QED
    BY <2>2, <2>6, <2>7, <2>8, <2>11
<1> QED
  BY <1>4, <1>5

\* sma_deallocate() takes one block back and disturbs no other.
LEMMA DeallocateSane ==
  ASSUME NEW b, NEW F, Sane(b, F, {}), NEW o \in Used(b, F, {})
  PROVE  \E G : Took(b, F, Deallocate(b, o), G, o)
<1> DEFINE d == [b EXCEPT ![o].data = 0]
           e == MergePrev(d, o).b
           p == MergePrev(d, o).cur
           c == MergeNext(e, p)
           t == [c EXCEPT ![Next_S(c, p)].prev_size = c[p].size]
           l == LinkAtStart(t, p)
           U == Used(b, F, {}) \ {o}
<1>1. Deallocate(b, o) = l
  BY DEF Deallocate
<1>2. Headers(b) /\ Tiles(b) /\ F \in SUBSET Inner(b) /\ o \in Inner(b) /\ Inner(b) \subseteq DOMAIN b
      /\ o \notin F /\ {} \cup {o} = {o} /\ Used(b, F, {o}) = U
  BY DEF Sane, Parts, Inner, Used
<1>3. /\ Sane(d, F, {o}) /\ DOMAIN d = DOMAIN b
      /\ \A x \in DOMAIN b \ {o} : d[x] = b[x]
      /\ d[o].size = b[o].size
  <2>1. Unmarked(b, d, F, {}, o)
    BY UnmarkSane
  <2> HIDE DEF d
  <2> QED
    BY <1>2, <2>1 DEF Unmarked
<1> HIDE DEF d
<1>4. Used(d, F, {o}) = U
  BY <1>2, <1>3 DEF Used, Inner
<1> HIDE DEF U
<1>5. PICK G : /\ Sane(e, G, {p}) /\ e[p].prev_size = 0 /\ Used(e, G, {p}) = U
               /\ Serves(d, F \cup {o}, e, G \cup {p}, U)
  BY <1>3, <1>4, MergePrevSane
<1> HIDE DEF e, p
<1>6. PICK J : /\ Sane(c, J, {p}) /\ c[p].prev_size = 0 /\ Next_S(c, p) \notin J
               /\ Used(c, J, {p}) = U
               /\ Serves(e, G \cup {p}, c, J \cup {p}, U)
  BY <1>5, MergeNextSane
<1> HIDE DEF c
<1>7. Headers(c) /\ Tiles(c) /\ p \in Inner(c) /\ p \in DOMAIN c /\ c[p].size \in 0..Cells
      /\ J \cup {p} \in SUBSET Inner(c) /\ Inner(c) \subseteq DOMAIN c /\ p \notin J
      /\ Next_S(c, p) \in DOMAIN c /\ Next_S(c, p) # p
  <2>1. Headers(c) /\ Tiles(c) /\ p \in Inner(c) /\ p \in DOMAIN c
        /\ J \cup {p} \in SUBSET Inner(c) /\ Inner(c) \subseteq DOMAIN c /\ p \notin J
    BY <1>6 DEF Sane, Parts, Inner
  <2>2. c[p].size \in 0..Cells
    BY <2>1, Offsets
  <2>3. Next_S(c, p) \in DOMAIN c /\ Next_S(c, p) # p
    BY <2>1, NextIs
  <2> QED
    BY <2>1, <2>2, <2>3
<1>8. /\ Sane(t, J, {p}) /\ DOMAIN t = DOMAIN c
      /\ \A x \in DOMAIN c :
           /\ t[x].size = c[x].size /\ t[x].data = c[x].data
           /\ t[x].fnext = c[x].fnext /\ t[x].fprev = c[x].fprev
           /\ t[x].prev_size = IF x = Next_S(c, p) THEN c[p].size ELSE c[x].prev_size
  <2>1. TagSet(c, t, J, {p}, p, c[p].size)
    BY <1>6, <1>7, RetagSane
  <2> HIDE DEF t
  <2> QED
    BY <2>1 DEF TagSet
<1> HIDE DEF t
<1>9. Next_S(t, p) = Next_S(c, p) /\ t[Next_S(t, p)].prev_size = t[p].size /\ t[p].prev_size = 0
  <2>1. Next_S(t, p) = Next_S(c, p)
    BY <1>7, <1>8 DEF Next_S
  <2> QED
    BY <1>6, <1>7, <1>8, <2>1
<1>10. Closed(t, l, J, p) /\ Sane(l, J \cup {p}, {})
  <2>1. Closed(t, l, J, p)
    BY <1>8, <1>9, LinkClosed
  <2> HIDE DEF l
  <2>2. {p} \ {p} = {}
    OBVIOUS
  <2>3. Sane(l, J \cup {p}, {p} \ {p})
    BY <1>6, <1>8, <1>9, <2>1, CloseSane
  <2> QED
    BY <2>1, <2>2, <2>3
<1> HIDE DEF l
<1>11. /\ DOMAIN l = DOMAIN t
       /\ \A x \in DOMAIN t : l[x].size = t[x].size /\ l[x].data = t[x].data
       /\ \A x \in DOMAIN t \ (J \cup {p, FirstBlk, LastBlk}) :
            l[x].fnext = t[x].fnext /\ l[x].fprev = t[x].fprev
  BY <1>10 DEF Closed
<1>12. Used(l, J \cup {p}, {}) = U
  <2>1. Inner(l) = Inner(c)
    BY <1>8, <1>11 DEF Inner
  <2>2. Used(l, J \cup {p}, {}) = Used(c, J, {p})
    BY <2>1 DEF Used
  <2> QED
    BY <1>6, <2>2
<1>13. Alike(b, l, U)
  <2> SUFFICES ASSUME NEW x \in U
               PROVE  l[x].size = b[x].size /\ l[x].fprev = b[x].fprev /\ l[x].data = b[x].data
    BY DEF Alike
  <2>1. x \in DOMAIN b \ {o} /\ x \in Inner(c) \ (J \cup {p})
    BY <1>2, <1>6 DEF U, Used
  <2>2. d[x] = b[x]
    BY <1>3, <2>1
  <2>3. e[x].size = d[x].size /\ e[x].fprev = d[x].fprev /\ e[x].data = d[x].data
    BY <1>5 DEF Serves, Alike
  <2>4. c[x].size = e[x].size /\ c[x].fprev = e[x].fprev /\ c[x].data = e[x].data
    BY <1>6 DEF Serves, Alike
  <2>5. t[x].size = c[x].size /\ t[x].fprev = c[x].fprev /\ t[x].data = c[x].data
        /\ x \in DOMAIN t \ (J \cup {p, FirstBlk, LastBlk})
    BY <1>7, <1>8, <2>1 DEF Inner
  <2>6. l[x].size = t[x].size /\ l[x].fprev = t[x].fprev /\ l[x].data = t[x].data
    BY <1>11, <2>5
  <2> QED
    BY <2>2, <2>3, <2>4, <2>5, <2>6
<1>14. Total(l, J \cup {p}) = Total(b, F) + b[o].size
  <2>1. Total(l, J \cup {p}) = Total(c, J \cup {p})
    BY <1>7, <1>8, <1>11, TotalKept
  <2>2. Total(c, J \cup {p}) = Total(d, F \cup {o})
    BY <1>5, <1>6 DEF Serves
  <2>3. Total(d, F \cup {o}) = Total(b, F \cup {o})
    <3>1. F \cup {o} \in SUBSET Inner(b)
      BY <1>2
    <3>2. \A x \in F \cup {o} : d[x].size = b[x].size
      BY <1>2, <1>3
    <3> QED
      BY <1>2, <3>1, <3>2, TotalKept
  <2>4. Total(b, F \cup {o}) = b[o].size + Total(b, F)
    <3>1. F \cup {o} \in SUBSET Inner(b) /\ (F \cup {o}) \ {o} = F /\ o \in F \cup {o}
      BY <1>2
    <3>2. Total(b, F \cup {o}) = b[o].size + Total(b, (F \cup {o}) \ {o})
      BY <1>2, <3>1, TotalOf
    <3> QED
      BY <3>1, <3>2
  <2>5. Total(b, F) \in Nat /\ b[o].size \in Nat
    BY <1>2, TotalOf, NextIs
  <2> QED
    BY <2>1, <2>2, <2>3, <2>4, <2>5
<1> QED
  BY <1>1, <1>10, <1>12, <1>13, <1>14 DEF Took, U

-----------------------------------------------------------------------------
(* Defragmentation, up to the header at o: c are the blocks by now, the      *)
(* block hole (if any) and the free blocks not yet visited are in limbo, G   *)
(* are the free blocks already closed.                                       *)

Ahead(F, o) == {x \in F : x > o}
Limbo(F, hole, o) == ({hole} \ {0}) \cup Ahead(F, o)

Walk(b, F, c, hole, o, G) ==
  /\ Sane(c, G, Limbo(F, hole, o)) /\ \A x \in Limbo(F, hole, o) : c[x].prev_size = 0
  /\ \A x \in G : x <= o
  /\ \A x \in DOMAIN b : x > o => x \in DOMAIN c /\ (hole # 0 => x > hole)
  /\ \A x \in DOMAIN c : x > o => x \in DOMAIN b \/ x = hole
  /\ \A x \in Inner(b) : x > o =>
       /\ c[x].size = b[x].size /\ c[x].fnext = b[x].fnext
       /\ c[x].fprev = b[x].fprev /\ c[x].data = b[x].data
  /\ hole # 0 => Next_S(c, hole) > o

\* What is known of the block at o when it is its turn.
Here(b, F, c, hole, o, G) ==
  LET H == Limbo(F, hole, o - 1)
  IN  /\ o \in Inner(b) /\ o \in Inner(c) /\ o \in Nat /\ o - 1 \in Nat /\ o # 0 /\ o \notin G
      /\ c[o].size = b[o].size /\ c[o].fnext = b[o].fnext
      /\ c[o].fprev = b[o].fprev /\ c[o].data = b[o].data
      /\ c[o].fnext # 0 <=> o \in F
      /\ o \in F => o \in H /\ o \notin Used(c, G, H) /\ o \notin Used(b, F, {})
      /\ o \notin F => o \in Used(c, G, H) /\ o \in Used(b, F, {}) /\ o \notin H
      /\ hole # 0 => /\ Next_S(c, hole) = o /\ hole < o /\ hole \in Nat /\ hole \in H
                     /\ hole \in Inner(c) /\ hole \notin Used(c, G, H)

\* What the loop of apc_sma_defrag() finds at its next header.
LEMMA AtTurn ==
  ASSUME NEW b, NEW F, Sane(b, F, {}), NEW o \in Inner(b), NEW c, NEW hole, NEW G,
         Walk(b, F, c, hole, o - 1, G)
  PROVE  Here(b, F, c, hole, o, G)
<1> DEFINE k == o - 1
           H == Limbo(F, hole, k)
<1>1. Headers(b) /\ Tiles(b) /\ F \subseteq Inner(b) /\ Inner(b) \subseteq DOMAIN b
  BY DEF Sane, Parts, Inner
<1>2. Sane(c, G, H) /\ Headers(c) /\ Tiles(c) /\ G \subseteq Inner(c) /\ H \subseteq Inner(c)
      /\ Inner(c) \subseteq DOMAIN c
  BY DEF Walk, Sane, Parts, Inner
<1>3. o \in 2..(Cells + 1) /\ Cells \in Nat /\ o \in Nat /\ k \in Nat /\ o > k /\ o # 0 /\ o \in DOMAIN b
      /\ o = k + 1
  <2>1. o \in 2..(Cells + 1) /\ Cells \in Nat
    BY <1>1, Offsets, Constants
  <2> QED
    BY <1>1, <2>1
<1>4. o \in Inner(c) /\ (hole # 0 => o > hole)
  BY <1>1, <1>3 DEF Walk, Inner
<1>5. o \notin G
  <2>1. ~(o <= k)
    BY <1>3
  <2> QED
    BY <2>1 DEF Walk
<1>6. /\ c[o].size = b[o].size /\ c[o].fnext = b[o].fnext
      /\ c[o].fprev = b[o].fprev /\ c[o].data = b[o].data
  BY <1>3 DEF Walk
<1>7. b[o].fnext # 0 <=> o \in F
  BY FreeHasNext DEF Used
<1>8. hole # 0 => /\ Next_S(c, hole) = o /\ hole < o /\ hole \in Nat /\ hole \in H
                  /\ hole \in Inner(c) /\ hole \notin Used(c, G, H)
  <2> SUFFICES ASSUME hole # 0
               PROVE  /\ Next_S(c, hole) = o /\ hole < o /\ hole \in Nat /\ hole \in H
                      /\ hole \in Inner(c) /\ hole \notin Used(c, G, H)
    OBVIOUS
  <2>1. hole \in H
    BY DEF Limbo
  <2>2. hole \in Inner(c) /\ hole \notin Used(c, G, H)
    BY <1>2, <2>1 DEF Used
  <2>3. hole \in Nat /\ Next_S(c, hole) \in Nat
    BY <1>2, <2>2, NextIs
  <2>4. o > hole /\ o \in DOMAIN c
    BY <1>2, <1>4
  <2>5. Next_S(c, hole) <= o
    BY <1>2, <2>2, <2>4 DEF Tiles
  <2>6. Next_S(c, hole) > k
    BY DEF Walk
  <2>7. Next_S(c, hole) = o
    BY <1>3, <2>3, <2>5, <2>6
  <2>8. hole < o
    BY <1>3, <2>3, <2>4
  <2> QED
    BY <2>1, <2>2, <2>3, <2>7, <2>8
<1>9. o \in F => o \in H /\ o \notin Used(c, G, H) /\ o \notin Used(b, F, {})
  BY <1>3 DEF Used, Limbo, Ahead
<1>10. o \notin F => o \in Used(c, G, H) /\ o \in Used(b, F, {}) /\ o \notin H
  <2>1. hole # 0 => o # hole
    BY <1>3, <1>8
  <2> QED
    BY <1>3, <1>4, <1>5, <2>1 DEF Used, Limbo, Ahead
<1> HIDE DEF H
<1> QED
  BY <1>3, <1>4, <1>5, <1>6, <1>7, <1>8, <1>9, <1>10 DEF Here, H

\* Where there is no header nothing happens.
LEMMA WalkOn ==
  ASSUME NEW b, NEW F, Sane(b, F, {}), NEW o \in 2..(Cells + 1), o \notin DOMAIN b,
         NEW c, NEW hole, NEW G, Walk(b, F, c, hole, o - 1, G)
  PROVE  Walk(b, F, c, hole, o, G) /\ Limbo(F, hole, o) = Limbo(F, hole, o - 1)
<1> DEFINE k == o - 1
<1>1. Headers(b) /\ F \subseteq Inner(b) /\ Inner(b) \subseteq DOMAIN b /\ Inner(b) \subseteq 2..(Cells + 1)
      /\ Cells \in Nat /\ DOMAIN b \subseteq 1..(Cells + 2) /\ o \in Nat /\ k \in Nat /\ o = k + 1
  <2>1. Headers(b) /\ F \subseteq Inner(b) /\ Inner(b) \subseteq DOMAIN b /\ Cells \in Nat
    BY Constants DEF Sane, Parts, Inner
  <2> QED
    BY <2>1, Offsets
<1>2. \A x \in DOMAIN b : x > k <=> x > o
  BY <1>1
<1>3. Ahead(F, o) = Ahead(F, k)
  BY <1>1, <1>2 DEF Ahead
<1>4. Limbo(F, hole, o) = Limbo(F, hole, k)
  BY <1>3 DEF Limbo
<1>5. Sane(c, G, Limbo(F, hole, k)) /\ Headers(c) /\ Tiles(c) /\ G \subseteq Inner(c)
      /\ Limbo(F, hole, k) \subseteq Inner(c) /\ Inner(c) \subseteq DOMAIN c
  BY DEF Walk, Sane, Parts, Inner
<1>6. \A x \in DOMAIN c : x \in Nat
  BY <1>5, Offsets
<1>7. \A x \in G : x <= o
  <2> SUFFICES ASSUME NEW x \in G PROVE x <= o
    OBVIOUS
  <2>1. x <= k /\ x \in Nat
    BY <1>5, <1>6 DEF Walk
  <2> QED
    BY <1>1, <2>1
<1>8. \A x \in DOMAIN c : x > o => x > k
  BY <1>1, <1>6
<1>9. hole # 0 => Next_S(c, hole) > o
  <2> SUFFICES ASSUME hole # 0 PROVE Next_S(c, hole) > o
    OBVIOUS
  <2>1. hole \in Inner(c)
    BY <1>5 DEF Limbo
  <2>2. Next_S(c, hole) \in DOMAIN c /\ Next_S(c, hole) # hole /\ Next_S(c, hole) \in Nat
    BY <1>5, <2>1, NextIs
  <2>3. Next_S(c, hole) > k
    BY DEF Walk
  <2>4. Next_S(c, hole) \in DOMAIN b
    BY <2>2, <2>3 DEF Walk
  <2> QED
    BY <1>2, <2>3, <2>4
<1>10. \A x \in DOMAIN b : x > o => x \in DOMAIN c /\ (hole # 0 => x > hole)
  BY <1>2 DEF Walk
<1>11. \A x \in DOMAIN c : x > o => x \in DOMAIN b \/ x = hole
  BY <1>8 DEF Walk
<1>12. \A x \in Inner(b) : x > o =>
         /\ c[x].size = b[x].size /\ c[x].fnext = b[x].fnext
         /\ c[x].fprev = b[x].fprev /\ c[x].data = b[x].data
  BY <1>1, <1>2 DEF Walk
<1>13. \A x \in Limbo(F, hole, k) : c[x].prev_size = 0
  BY DEF Walk
<1> HIDE DEF k
<1>14. Walk(b, F, c, hole, o, G)
  BY <1>4, <1>5, <1>7, <1>9, <1>10, <1>11, <1>12, <1>13 DEF Walk
<1> QED
  BY <1>4, <1>14 DEF k

\* What a block is long after the move to: one that moved keeps what it uses.
NewSize(b, to, x) == IF to[x] = x THEN b[x].size ELSE b[x].fprev

\* Where the blocks up to o end after the move, with no gap behind them.
Upto(b, F, o) == {y \in Used(b, F, {}) : y <= o}
Fill(b, F, to, o) ==
  IF Upto(b, F, o) = {} THEN Start
  ELSE to[Max(Upto(b, F, o))] + NewSize(b, to, Max(Upto(b, F, o)))

\* to says where the allocated blocks of b are in c, and nothing else is allocated.
Placed(b, F, c, hole, gain, to, o, G) ==
  LET L == Limbo(F, hole, o)
  IN  /\ DOMAIN to = DOMAIN b
      /\ \A x \in Used(b, F, {}) :
           /\ to[x] \in Used(c, G, L) /\ c[to[x]].data = b[x].data /\ c[to[x]].fprev = b[x].fprev
           /\ x > o => to[x] = x
           /\ x <= o => to[x] <= o
      /\ \A y \in Used(c, G, L) : \E x \in Used(b, F, {}) : to[x] = y
      /\ gain \in Nat /\ Total(c, G \cup L) = Total(b, F) + gain

\* The blocks up to o have slid down, unless they are pinned.
Slid(b, F, pinned, c, hole, to, o) ==
  /\ \A x \in Used(b, F, {}) : c[to[x]].size = NewSize(b, to, x)
  /\ \A x \in Used(b, F, {}) :
       x <= o => to[x] = IF x \in pinned THEN x ELSE Fill(b, F, to, x - 1)
  /\ IF hole = 0 THEN Fill(b, F, to, o) > o ELSE Fill(b, F, to, o) = hole

Stage(b, F, pinned, c, hole, gain, to, o, G) ==
  /\ Walk(b, F, c, hole, o, G) /\ Placed(b, F, c, hole, gain, to, o, G)
  /\ Slid(b, F, pinned, c, hole, to, o)
  /\ pinned = {} => G = {}

\* The last allocated block up to an offset.
LEMMA UptoMax ==
  ASSUME NEW b, NEW F, Headers(b), NEW o \in Nat
  PROVE  /\ Upto(b, F, o) # {} => /\ Max(Upto(b, F, o)) \in Used(b, F, {})
                                  /\ Max(Upto(b, F, o)) <= o
                                  /\ \A x \in Upto(b, F, o) : x <= Max(Upto(b, F, o))
         /\ o \in Used(b, F, {}) => Upto(b, F, o) # {} /\ Max(Upto(b, F, o)) = o
         /\ o # 0 /\ o \notin Used(b, F, {}) => Upto(b, F, o) = Upto(b, F, o - 1)
<1>1. \A x \in Used(b, F, {}) : x \in Nat
  BY Offsets DEF Used
<1>2. Upto(b, F, o) \in SUBSET (0..o)
  BY <1>1 DEF Upto
<1>3. Upto(b, F, o) # {} => /\ Max(Upto(b, F, o)) \in Upto(b, F, o)
                            /\ \A x \in Upto(b, F, o) : x <= Max(Upto(b, F, o))
  BY <1>2, MaxInSet
<1>4. ASSUME o \in Used(b, F, {}) PROVE Upto(b, F, o) # {} /\ Max(Upto(b, F, o)) = o
  <2>1. o \in Upto(b, F, o)
    BY <1>4 DEF Upto
  <2>2. Max(Upto(b, F, o)) \in 0..o /\ o <= Max(Upto(b, F, o))
    BY <1>2, <1>3, <2>1
  <2> QED
    BY <2>1, <2>2
<1>5. ASSUME o # 0, o \notin Used(b, F, {}) PROVE Upto(b, F, o) = Upto(b, F, o - 1)
  <2>1. \A x \in Used(b, F, {}) : x <= o <=> x <= o - 1
    BY <1>1, <1>5
  <2> QED
    BY <2>1 DEF Upto
<1>6. Upto(b, F, o) \subseteq Used(b, F, {}) /\ \A x \in Upto(b, F, o) : x <= o
  BY DEF Upto
<1> QED
  BY <1>3, <1>4, <1>5, <1>6

\* Where the blocks end, one offset further.
LEMMA FillIs ==
  ASSUME NEW b, NEW F, Headers(b), NEW o \in Nat \ {0}, NEW to
  PROVE  Fill(b, F, to, o) = IF o \in Used(b, F, {}) THEN to[o] + NewSize(b, to, o)
                             ELSE Fill(b, F, to, o - 1)
<1>1. CASE o \in Used(b, F, {})
  BY <1>1, UptoMax DEF Fill
<1>2. CASE o \notin Used(b, F, {})
  BY <1>2, UptoMax DEF Fill
<1> QED
  BY <1>1, <1>2

\* It depends on the moves of the blocks up to o only.
LEMMA FillSame ==
  ASSUME NEW b, NEW F, Headers(b), NEW o \in Nat, NEW to, NEW t,
         \A x \in Used(b, F, {}) : x <= o => t[x] = to[x]
  PROVE  Fill(b, F, t, o) = Fill(b, F, to, o)
<1>1. CASE Upto(b, F, o) = {}
  BY <1>1 DEF Fill
<1>2. CASE Upto(b, F, o) # {}
  <2> DEFINE m == Max(Upto(b, F, o))
  <2>1. t[m] = to[m]
    BY <1>2, UptoMax
  <2> HIDE DEF m
  <2>2. NewSize(b, t, m) = NewSize(b, to, m)
    BY <2>1 DEF NewSize
  <2> QED
    BY <1>2, <2>1, <2>2 DEF Fill, m
<1> QED
  BY <1>1, <1>2

\* The blocks that have been visited lie below the next header.
LEMMA FillAt ==
  ASSUME NEW b, NEW F, NEW pinned, NEW c, NEW hole, NEW gain, NEW to, NEW o \in Nat, NEW G,
         Sane(b, F, {}), Stage(b, F, pinned, c, hole, gain, to, o, G)
  PROVE  /\ Fill(b, F, to, o) \in Nat
         /\ Upto(b, F, o) # {} => /\ Fill(b, F, to, o) \in DOMAIN c
                                  /\ \A x \in DOMAIN c : x > o => Fill(b, F, to, o) <= x
<1>1. Headers(b)
  BY DEF Sane
<1>2. Sane(c, G, Limbo(F, hole, o)) /\ Headers(c) /\ Tiles(c)
  BY DEF Stage, Walk, Sane
<1>3. CASE Upto(b, F, o) = {}
  BY <1>3, Constants DEF Fill
<1>4. CASE Upto(b, F, o) # {}
  <2>1. PICK m : m = Max(Upto(b, F, o))
    OBVIOUS
  <2>2. m \in Used(b, F, {}) /\ m <= o
    BY <1>1, <1>4, <2>1, UptoMax
  <2>3. to[m] \in Inner(c) /\ to[m] <= o
    BY <2>2 DEF Stage, Placed, Used
  <2>4. c[to[m]].size = NewSize(b, to, m)
    BY <2>2 DEF Stage, Slid
  <2>5. Fill(b, F, to, o) = Next_S(c, to[m])
    BY <1>4, <2>1, <2>4 DEF Fill, Next_S
  <2>6. /\ to[m] \in Nat /\ Next_S(c, to[m]) \in Nat /\ Next_S(c, to[m]) \in DOMAIN c
        /\ \A x \in DOMAIN c : x > to[m] => Next_S(c, to[m]) <= x
    BY <1>2, <2>3, NextIs
  <2>7. \A x \in DOMAIN c : x \in Nat
    BY <1>2, Offsets
  <2>8. \A x \in DOMAIN c : x > o => x > to[m]
    BY <2>3, <2>6, <2>7
  <2> QED
    BY <2>5, <2>6, <2>8
<1> QED
  BY <1>3, <1>4

\* So a block that is not pinned goes to the hole, or it stays.
LEMMA FillHere ==
  ASSUME NEW b, NEW F, NEW pinned, NEW c, NEW hole, NEW gain, NEW to, NEW o \in Inner(b), NEW G,
         Sane(b, F, {}), Stage(b, F, pinned, c, hole, gain, to, o - 1, G)
  PROVE  Fill(b, F, to, o - 1) = IF hole = 0 THEN o ELSE hole
<1>1. Here(b, F, c, hole, o, G)
  BY AtTurn DEF Stage
<1>2. o \in Nat /\ o - 1 \in Nat /\ o \in DOMAIN c
  BY <1>1 DEF Here, Inner
<1>3. o >= 2
  <2>1. Headers(b) /\ Cells \in Nat
    BY Constants DEF Sane
  <2> QED
    BY <2>1, Offsets
<1>4. CASE hole # 0
  BY <1>4 DEF Stage, Slid
<1>5. CASE hole = 0
  <2>1. Fill(b, F, to, o - 1) > o - 1 /\ Fill(b, F, to, o - 1) \in Nat
    BY <1>2, <1>5, FillAt DEF Stage, Slid
  <2>2. CASE Upto(b, F, o - 1) = {}
    <3>1. Fill(b, F, to, o - 1) = 2
      BY <2>2, Constants DEF Fill
    <3> QED
      BY <1>2, <1>3, <1>5, <2>1, <3>1
  <2>3. CASE Upto(b, F, o - 1) # {}
    <3>1. Fill(b, F, to, o - 1) <= o
      <4>1. o > o - 1
        BY <1>2
      <4> QED
        BY <1>2, <2>3, <4>1, FillAt
    <3> QED
      BY <1>2, <1>5, <2>1, <3>1
  <2> QED
    BY <2>2, <2>3
<1> QED
  BY <1>4, <1>5

\* At the turn of o the headers above o - 1 are o and those still to come.
Turn(b, F, o) ==
  /\ o \in Nat /\ o - 1 \in Nat /\ o # 0 /\ o > o - 1
  /\ \A x \in DOMAIN b : x > o - 1 <=> x > o \/ x = o
  /\ Ahead(F, o - 1) = IF o \in F THEN Ahead(F, o) \cup {o} ELSE Ahead(F, o)
  /\ o \notin Ahead(F, o)

\* The header after the visited one is the next to be visited.
LEMMA NextTurn ==
  ASSUME NEW b, Headers(b), NEW F \in SUBSET Inner(b), NEW o \in Inner(b)
  PROVE  Turn(b, F, o)
<1>1. o \in Nat \ {0} /\ Cells \in Nat /\ DOMAIN b \subseteq 1..(Cells + 2) /\ F \subseteq DOMAIN b
  <2>1. DOMAIN b \subseteq 1..(Cells + 2) /\ Cells \in Nat /\ o \in 2..(Cells + 1)
    BY Offsets, Constants
  <2>2. F \subseteq DOMAIN b
    BY DEF Inner
  <2> QED
    BY <2>1, <2>2
<1>2. \A x \in DOMAIN b : x > o - 1 <=> x > o \/ x = o
  BY <1>1
<1>3. Ahead(F, o - 1) = IF o \in F THEN Ahead(F, o) \cup {o} ELSE Ahead(F, o)
  <2>1. \A x \in F : x > o - 1 <=> x > o \/ x = o
    BY <1>1, <1>2
  <2>2. o > o - 1
    BY <1>1
  <2> QED
    BY <2>1, <2>2 DEF Ahead
<1>4. o \notin Ahead(F, o)
  BY <1>1 DEF Ahead
<1> QED
  BY <1>1, <1>2, <1>3, <1>4 DEF Turn

\* Nothing at o.
LEMMA StageNone ==
  ASSUME NEW b, NEW F, NEW pinned, NEW c, NEW hole, NEW gain, NEW to, NEW G,
         Sane(b, F, {}), NEW o \in 2..(Cells + 1), o \notin DOMAIN b,
         Stage(b, F, pinned, c, hole, gain, to, o - 1, G)
  PROVE  Stage(b, F, pinned, c, hole, gain, to, o, G)
<1>1. Headers(b) /\ Cells \in Nat /\ o \in Nat /\ o - 1 \in Nat /\ o # 0 /\ o > 2 /\ o - 1 >= 2
      /\ o \notin Used(b, F, {}) /\ o \notin Inner(b)
  <2>1. Headers(b) /\ Cells \in Nat /\ o \notin Used(b, F, {}) /\ o \notin Inner(b)
    BY Constants DEF Sane, Used, Inner
  <2>2. o # 2
    BY <2>1, Constants DEF Headers
  <2> QED
    BY <2>1, <2>2
<1>2. Walk(b, F, c, hole, o, G) /\ Limbo(F, hole, o) = Limbo(F, hole, o - 1)
  BY WalkOn DEF Stage
<1>3. \A x \in Used(b, F, {}) : x \in Nat /\ x # o
  <2>1. Inner(b) \subseteq 2..(Cells + 1)
    BY <1>1, Offsets
  <2> QED
    BY <1>1, <2>1 DEF Used
<1>4. Placed(b, F, c, hole, gain, to, o, G)
  <2>1. Placed(b, F, c, hole, gain, to, o - 1, G)
    BY DEF Stage
  <2>2. ASSUME NEW x \in Used(b, F, {})
        PROVE  (x > o => to[x] = x) /\ (x <= o => to[x] <= o)
    <3>1. x \in Nat /\ x # o
      BY <1>3
    <3>2. (x > o - 1 => to[x] = x) /\ (x <= o - 1 => to[x] <= o - 1)
      BY <2>1 DEF Placed
    <3>3. x <= o - 1 => to[x] \in Nat
      <4>1. to[x] \in Inner(c) /\ Headers(c)
        BY <1>2, <2>1 DEF Placed, Used, Walk, Sane
      <4> QED
        BY <1>1, <4>1, Offsets
    <3> QED
      BY <1>1, <3>1, <3>2, <3>3
  <2> QED
    BY <1>2, <2>1, <2>2 DEF Placed
<1>5. Slid(b, F, pinned, c, hole, to, o)
  <2>1. Slid(b, F, pinned, c, hole, to, o - 1)
    BY DEF Stage
  <2>2. Fill(b, F, to, o) = Fill(b, F, to, o - 1)
    <3>1. o \in Nat \ {0}
      BY <1>1
    <3> QED
      BY <1>1, <3>1, FillIs
  <2>3. \A x \in Used(b, F, {}) : x <= o => x <= o - 1
    BY <1>1, <1>3
  <2>4. hole = 0 => Fill(b, F, to, o) > o
    <3> SUFFICES ASSUME hole = 0 PROVE Fill(b, F, to, o - 1) > o
      BY <2>2
    <3>1. Fill(b, F, to, o - 1) > o - 1 /\ Fill(b, F, to, o - 1) \in Nat
      BY <1>1, <2>1, FillAt DEF Slid
    <3>2. Fill(b, F, to, o - 1) # o
      <4>1. CASE Upto(b, F, o - 1) = {}
        BY <1>1, <4>1, Constants DEF Fill
      <4>2. CASE Upto(b, F, o - 1) # {}
        <5>1. Fill(b, F, to, o - 1) \in DOMAIN c
          BY <1>1, <4>2, FillAt
        <5>2. o \notin DOMAIN c
          <6>1. o > o - 1
            BY <1>1
          <6> QED
            BY <1>1, <6>1 DEF Stage, Walk
        <5> QED
          BY <5>1, <5>2
      <4> QED
        BY <4>1, <4>2
    <3> QED
      BY <1>1, <3>1, <3>2
  <2> QED
    BY <2>1, <2>2, <2>3, <2>4 DEF Slid
<1> QED
  BY <1>2, <1>4, <1>5 DEF Stage

\* A free block at o, and no hole before it.
LEMMA StageOpen ==
  ASSUME NEW b, NEW F, NEW pinned, NEW c, NEW gain, NEW to, NEW G, Sane(b, F, {}),
         NEW o \in F, Stage(b, F, pinned, c, 0, gain, to, o - 1, G)
  PROVE  Stage(b, F, pinned, c, o, gain, to, o, G)
<1>1. Headers(b) /\ F \in SUBSET Inner(b) /\ o \in Inner(b)
  BY DEF Sane, Parts
<1>2. Here(b, F, c, 0, o, G)
  BY <1>1, AtTurn DEF Stage
<1>3. /\ o \in Nat /\ o - 1 \in Nat /\ o # 0 /\ o > o - 1
      /\ \A x \in DOMAIN b : x > o - 1 <=> x > o \/ x = o
      /\ Ahead(F, o - 1) = Ahead(F, o) \cup {o}
      /\ \A x \in F : x \in DOMAIN b
  <2>1. Turn(b, F, o)
    BY <1>1, NextTurn
  <2> QED
    BY <1>1, <2>1 DEF Turn, Inner
<1>4. Limbo(F, o, o) = Limbo(F, 0, o - 1)
  BY <1>3 DEF Limbo
<1>5. Sane(c, G, Limbo(F, 0, o - 1)) /\ Headers(c) /\ Tiles(c) /\ o \in Inner(c)
      /\ G \subseteq DOMAIN c /\ o \in DOMAIN c
  BY <1>2 DEF Stage, Walk, Sane, Here, Parts, Inner
<1>6. \A x \in DOMAIN c : x \in Nat
  BY <1>5, Offsets
<1>7. \A x \in DOMAIN c : (x > o => x > o - 1) /\ (x <= o - 1 => x <= o)
  BY <1>3, <1>6
<1>8. Walk(b, F, c, o, o, G)
  <2>1. Next_S(c, o) > o
    BY <1>3, <1>5, NextIs
  <2>2. \A x \in DOMAIN c : x > o => x \in DOMAIN b
    <3>1. \A x \in DOMAIN c : x > o => x \in DOMAIN b \/ x = 0
      BY <1>7 DEF Stage, Walk
    <3>2. ~(0 > o)
      BY <1>3
    <3> QED
      BY <3>1, <3>2
  <2>3. \A x \in DOMAIN b : x > o => x \in DOMAIN c
    BY <1>3 DEF Stage, Walk
  <2>4. \A x \in Inner(b) : x > o =>
          /\ c[x].size = b[x].size /\ c[x].fnext = b[x].fnext
          /\ c[x].fprev = b[x].fprev /\ c[x].data = b[x].data
    BY <1>3 DEF Stage, Walk, Inner
  <2>5. \A x \in G : x <= o
    BY <1>5, <1>7 DEF Stage, Walk
  <2>6. \A x \in Limbo(F, 0, o - 1) : c[x].prev_size = 0
    BY DEF Stage, Walk
  <2> QED
    BY <1>3, <1>4, <1>5, <2>1, <2>2, <2>3, <2>4, <2>5, <2>6 DEF Walk
<1>9. o \notin Used(b, F, {}) /\ Used(b, F, {}) \subseteq DOMAIN b
  BY <1>2 DEF Here, Used, Inner
<1>10. Placed(b, F, c, o, gain, to, o, G)
  <2>1. Placed(b, F, c, 0, gain, to, o - 1, G)
    BY DEF Stage
  <2>2. ASSUME NEW x \in Used(b, F, {})
        PROVE  (x > o => to[x] = x) /\ (x <= o => to[x] <= o)
    <3>1. x \in DOMAIN b /\ x # o /\ x \in Nat
      <4>1. Inner(b) \subseteq 2..(Cells + 1) /\ Cells \in Nat
        BY <1>1, Offsets, Constants
      <4> QED
        BY <1>9, <4>1 DEF Used
    <3>2. (x > o - 1 => to[x] = x) /\ (x <= o - 1 => to[x] <= o - 1) /\ to[x] \in DOMAIN c
      BY <2>1 DEF Placed, Used, Inner
    <3> QED
      BY <1>3, <1>6, <3>1, <3>2
  <2> QED
    BY <1>4, <2>1, <2>2 DEF Placed
<1>11. Slid(b, F, pinned, c, o, to, o)
  <2>1. Slid(b, F, pinned, c, 0, to, o - 1)
    BY DEF Stage
  <2>2. Fill(b, F, to, o - 1) = o
    BY <1>1, FillHere
  <2>3. Fill(b, F, to, o) = o
    BY <1>1, <1>3, <1>9, <2>2, FillIs
  <2>4. \A x \in Used(b, F, {}) : x <= o => x <= o - 1
    <3>1. \A x \in Used(b, F, {}) : x \in Nat /\ x # o
      <4>1. Inner(b) \subseteq 2..(Cells + 1) /\ Cells \in Nat
        BY <1>1, Offsets, Constants
      <4> QED
        BY <1>9, <4>1 DEF Used
    <3> QED
      BY <1>3, <3>1
  <2> QED
    BY <1>3, <2>1, <2>3, <2>4 DEF Slid
<1> QED
  BY <1>8, <1>10, <1>11 DEF Stage

\* An allocated block at o that stays: nothing free before it, or it is pinned and
\* d is c with the hole before it closed.
Rested(b, F, c, d, hole, gain, to, o, G, J) ==
  /\ Walk(b, F, d, 0, o, J) /\ Placed(b, F, d, 0, gain, to, o, J)
  /\ \A x \in Used(b, F, {}) : d[to[x]].size = c[to[x]].size
  /\ to[o] = o

\* Then the targets are right.
LEMMA SlidRests ==
  ASSUME NEW b, NEW F, NEW pinned, NEW c, NEW hole, NEW gain, NEW to, NEW G, Sane(b, F, {}),
         NEW o \in Used(b, F, {}), Stage(b, F, pinned, c, hole, gain, to, o - 1, G),
         NEW d, NEW J, Rested(b, F, c, d, hole, gain, to, o, G, J), hole = 0 \/ o \in pinned
  PROVE  Slid(b, F, pinned, d, 0, to, o)
<1>1. Headers(b) /\ o \in Inner(b) /\ Tiles(b)
  BY DEF Sane, Used
<1>2. /\ o \in Nat \ {0} /\ o - 1 \in Nat /\ o > o - 1 /\ b[o].size > 0 /\ b[o].size \in Nat
  BY <1>1, NextIs
<1>3. Slid(b, F, pinned, c, hole, to, o - 1)
  BY DEF Stage
<1>4. to[o] = o
  BY DEF Rested
<1>5. to[o] = IF o \in pinned THEN o ELSE Fill(b, F, to, o - 1)
  BY <1>1, <1>4, FillHere
<1>6. ASSUME NEW x \in Used(b, F, {}), x <= o PROVE x <= o - 1 \/ x = o
  <2>1. Inner(b) \subseteq 2..(Cells + 1) /\ Cells \in Nat /\ x \in Inner(b)
    BY <1>1, Offsets, Constants DEF Used
  <2>2. x \in Nat /\ o \in Nat
    BY <1>2, <2>1
  <2> QED
    BY <1>6, <2>2
<1>7. Fill(b, F, to, o) = o + b[o].size
  BY <1>1, <1>2, <1>4, FillIs DEF NewSize
<1>8. Fill(b, F, to, o) > o
  BY <1>2, <1>7
<1>9. \A x \in Used(b, F, {}) : d[to[x]].size = NewSize(b, to, x)
  BY <1>3 DEF Rested, Slid
<1>10. \A x \in Used(b, F, {}) :
         x <= o => to[x] = IF x \in pinned THEN x ELSE Fill(b, F, to, x - 1)
  BY <1>3, <1>5, <1>6 DEF Slid
<1> QED
  BY <1>8, <1>9, <1>10 DEF Slid

\* No hole before it.
LEMMA StageRest ==
  ASSUME NEW b, NEW F, NEW pinned, NEW c, NEW gain, NEW to, NEW G, Sane(b, F, {}),
         NEW o \in Inner(b) \ F, Stage(b, F, pinned, c, 0, gain, to, o - 1, G)
  PROVE  Stage(b, F, pinned, c, 0, gain, to, o, G)
<1>1. Headers(b) /\ F \in SUBSET Inner(b) /\ o \in Inner(b) /\ o \notin F
  BY DEF Sane, Parts
<1>2. Here(b, F, c, 0, o, G)
  BY <1>1, AtTurn DEF Stage
<1>3. /\ o \in Nat /\ o - 1 \in Nat /\ o # 0 /\ o > o - 1
      /\ \A x \in DOMAIN b : x > o - 1 <=> x > o \/ x = o
      /\ Ahead(F, o - 1) = Ahead(F, o)
  <2>1. Turn(b, F, o)
    BY <1>1, NextTurn
  <2> QED
    BY <1>1, <2>1 DEF Turn, Inner
<1>4. Limbo(F, 0, o) = Limbo(F, 0, o - 1)
  BY <1>3 DEF Limbo
<1>5. Sane(c, G, Limbo(F, 0, o - 1)) /\ Headers(c) /\ G \subseteq DOMAIN c
  BY DEF Stage, Walk, Sane, Parts, Inner
<1>6. \A x \in DOMAIN c : x \in Nat
  BY <1>5, Offsets
<1>7. \A x \in DOMAIN c : (x > o => x > o - 1) /\ (x <= o - 1 => x <= o)
  BY <1>3, <1>6
<1>8. Walk(b, F, c, 0, o, G)
  <2>1. \A x \in DOMAIN c : x > o => x \in DOMAIN b \/ x = 0
    BY <1>7 DEF Stage, Walk
  <2>2. \A x \in DOMAIN b : x > o => x \in DOMAIN c
    BY <1>3 DEF Stage, Walk
  <2>3. \A x \in Inner(b) : x > o =>
          /\ c[x].size = b[x].size /\ c[x].fnext = b[x].fnext
          /\ c[x].fprev = b[x].fprev /\ c[x].data = b[x].data
    BY <1>3 DEF Stage, Walk, Inner
  <2>4. \A x \in G : x <= o
    BY <1>5, <1>7 DEF Stage, Walk
  <2>5. \A x \in Limbo(F, 0, o - 1) : c[x].prev_size = 0
    BY DEF Stage, Walk
  <2> QED
    BY <1>4, <1>5, <2>1, <2>2, <2>3, <2>4, <2>5 DEF Walk
<1>9. o \in Used(b, F, {})
  BY <1>2 DEF Here
<1>10. Placed(b, F, c, 0, gain, to, o, G) /\ to[o] = o
  <2>1. Placed(b, F, c, 0, gain, to, o - 1, G)
    BY DEF Stage
  <2>2. to[o] = o
    BY <1>3, <1>9, <2>1 DEF Placed
  <2>3. ASSUME NEW x \in Used(b, F, {})
        PROVE  (x > o => to[x] = x) /\ (x <= o => to[x] <= o)
    <3>1. x \in DOMAIN b /\ x \in Nat
      <4>1. Inner(b) \subseteq 2..(Cells + 1) /\ Cells \in Nat /\ x \in Inner(b)
        BY <1>1, Offsets, Constants DEF Used
      <4> QED
        BY <4>1 DEF Inner
    <3>2. (x > o - 1 => to[x] = x) /\ (x <= o - 1 => to[x] <= o - 1) /\ to[x] \in DOMAIN c
      BY <2>1 DEF Placed, Used, Inner
    <3> QED
      BY <1>3, <1>6, <3>1, <3>2
  <2> QED
    BY <1>4, <2>1, <2>2, <2>3 DEF Placed
<1>11. Rested(b, F, c, c, 0, gain, to, o, G, G)
  BY <1>8, <1>10 DEF Rested
<1>12. Slid(b, F, pinned, c, 0, to, o)
  BY <1>9, <1>11, SlidRests
<1> QED
  BY <1>8, <1>10, <1>12 DEF Stage

\* A pinned block, and a hole before it that is closed.
LEMMA StageClose ==
  ASSUME NEW b, NEW F, NEW pinned, NEW c, NEW hole, hole # 0, NEW gain, NEW to, NEW G,
         Sane(b, F, {}), NEW o \in (Inner(b) \ F) \cap pinned,
         Stage(b, F, pinned, c, hole, gain, to, o - 1, G)
  PROVE  Stage(b, F, pinned, CloseHole(c, hole, o), 0, gain, to, o, G \cup {hole})
<1> DEFINE d == CloseHole(c, hole, o)
           H == Limbo(F, hole, o - 1)
           J == G \cup {hole}
<1>1. Headers(b) /\ F \in SUBSET Inner(b) /\ o \in Inner(b)
  BY DEF Sane, Parts
<1>2. Here(b, F, c, hole, o, G)
  BY <1>1, AtTurn DEF Stage
<1>3. /\ o \in Nat /\ o - 1 \in Nat /\ o # 0 /\ o > o - 1
      /\ \A x \in DOMAIN b : x > o - 1 <=> x > o \/ x = o
      /\ Ahead(F, o - 1) = Ahead(F, o)
      /\ \A x \in F : x \in DOMAIN b
  <2>1. Turn(b, F, o)
    BY <1>1, NextTurn
  <2> QED
    BY <1>1, <2>1 DEF Turn, Inner
<1>4. /\ Next_S(c, hole) = o /\ hole < o /\ hole \in Nat /\ hole \in H /\ hole \in Inner(c)
      /\ o \in Used(c, G, H) /\ o \in Used(b, F, {}) /\ o \notin H /\ o \notin G
  BY <1>2 DEF Here
<1>5. Sane(c, G, H) /\ Headers(c) /\ G \subseteq DOMAIN c /\ c[hole].prev_size = 0
      /\ H \subseteq Inner(c) /\ G \subseteq Inner(c) /\ G \cap H = {}
  BY <1>4 DEF Stage, Walk, Sane, Parts, Inner
<1>6. Closed(c, d, G, hole)
  BY <1>4, <1>5, HoleClosed
<1>7. Sane(d, J, H \ {hole})
  BY <1>4, <1>5, <1>6, CloseSane
<1>8. hole \notin Ahead(F, o)
  BY <1>3, <1>4 DEF Ahead
<1>9. Limbo(F, 0, o) = H \ {hole}
  BY <1>3, <1>8 DEF Limbo
<1> HIDE DEF d
<1>10. /\ DOMAIN d = DOMAIN c
       /\ \A x \in DOMAIN c :
            /\ d[x].size = c[x].size /\ d[x].data = c[x].data
            /\ x # o => d[x].prev_size = c[x].prev_size
       /\ \A x \in Inner(c) \ J : d[x].fnext = c[x].fnext /\ d[x].fprev = c[x].fprev
  BY <1>4, <1>6 DEF Closed, Inner
<1>11. \A x \in DOMAIN c : x \in Nat
  BY <1>5, Offsets
<1>12. \A x \in DOMAIN c : (x > o => x > o - 1) /\ (x <= o - 1 => x <= o)
  BY <1>3, <1>11
<1>13. \A x \in G : x <= o - 1
  BY DEF Stage, Walk
<1>14. Walk(b, F, d, 0, o, J)
  <2>1. \A x \in DOMAIN d : x > o => x \in DOMAIN b \/ x = 0
    <3>1. \A x \in DOMAIN c : x > o => x \in DOMAIN b \/ x = hole
      BY <1>12 DEF Stage, Walk
    <3>2. ~(hole > o)
      BY <1>3, <1>4
    <3> QED
      BY <1>10, <3>1, <3>2
  <2>2. \A x \in DOMAIN b : x > o => x \in DOMAIN c
    BY <1>3 DEF Stage, Walk
  <2>3. ASSUME NEW x \in Inner(b), x > o
        PROVE  /\ d[x].size = b[x].size /\ d[x].fnext = b[x].fnext
               /\ d[x].fprev = b[x].fprev /\ d[x].data = b[x].data
    <3>1. x \in DOMAIN c /\ x \in Inner(c) /\ x > o - 1
      BY <1>3, <2>2, <2>3 DEF Inner
    <3>2. x \notin J
      <4>1. x \in Nat
        BY <1>11, <3>1
      <4>2. x # hole
        BY <1>3, <1>4, <2>3, <4>1
      <4>3. ~(x <= o - 1)
        BY <1>3, <3>1, <4>1
      <4> QED
        BY <1>13, <4>2, <4>3
    <3>3. /\ c[x].size = b[x].size /\ c[x].fnext = b[x].fnext
          /\ c[x].fprev = b[x].fprev /\ c[x].data = b[x].data
      BY <3>1 DEF Stage, Walk
    <3> QED
      BY <1>10, <3>1, <3>2, <3>3
  <2>4. \A x \in J : x <= o
    BY <1>3, <1>4, <1>5, <1>12, <1>13
  <2>5. \A x \in H \ {hole} : d[x].prev_size = 0
    <3>1. \A x \in H : c[x].prev_size = 0 /\ x # o /\ x \in DOMAIN c
      BY <1>4, <1>5 DEF Stage, Walk, Inner
    <3> QED
      BY <1>10, <3>1
  <2> HIDE DEF H, J
  <2> QED
    BY <1>7, <1>9, <1>10, <2>1, <2>2, <2>3, <2>4, <2>5 DEF Walk
<1>15. Used(d, J, H \ {hole}) = Used(c, G, H)
  BY <1>4, <1>10 DEF Used, Inner
<1>16. Placed(b, F, d, 0, gain, to, o, J) /\ to[o] = o
  <2>1. Placed(b, F, c, hole, gain, to, o - 1, G)
    BY DEF Stage
  <2>2. to[o] = o
    BY <1>3, <1>4, <2>1 DEF Placed
  <2>3. ASSUME NEW x \in Used(b, F, {})
        PROVE  /\ to[x] \in Used(c, G, H) /\ (x > o => to[x] = x) /\ (x <= o => to[x] <= o)
               /\ d[to[x]].data = b[x].data /\ d[to[x]].fprev = b[x].fprev
    <3>1. x \in DOMAIN b /\ x \in Nat
      <4>1. Inner(b) \subseteq 2..(Cells + 1) /\ Cells \in Nat /\ x \in Inner(b)
        BY <1>1, Offsets, Constants DEF Used
      <4> QED
        BY <4>1 DEF Inner
    <3>2. /\ (x > o - 1 => to[x] = x) /\ (x <= o - 1 => to[x] <= o - 1)
          /\ to[x] \in Used(c, G, H)
          /\ c[to[x]].data = b[x].data /\ c[to[x]].fprev = b[x].fprev
      BY <2>1 DEF Placed
    <3>3. to[x] \in DOMAIN c /\ to[x] \in Inner(c) \ J
      BY <1>4, <3>2 DEF Used, Inner
    <3>4. d[to[x]].data = b[x].data /\ d[to[x]].fprev = b[x].fprev
      BY <1>10, <3>2, <3>3
    <3>5. (x > o => to[x] = x) /\ (x <= o => to[x] <= o)
      BY <1>3, <1>11, <3>1, <3>2, <3>3
    <3> QED
      BY <3>2, <3>4, <3>5
  <2>4. \A y \in Used(c, G, H) : \E x \in Used(b, F, {}) : to[x] = y
    BY <2>1 DEF Placed
  <2>5. Total(d, J \cup (H \ {hole})) = Total(b, F) + gain
    <3>1. J \cup (H \ {hole}) = G \cup H /\ G \cup H \in SUBSET Inner(c)
      BY <1>4, <1>5
    <3>2. \A x \in G \cup H : d[x].size = c[x].size
      BY <1>10, <3>1 DEF Inner
    <3>3. Total(d, G \cup H) = Total(c, G \cup H)
      BY <1>5, <3>1, <3>2, TotalKept
    <3>4. Total(c, G \cup H) = Total(b, F) + gain
      BY <2>1 DEF Placed
    <3> QED
      BY <3>1, <3>3, <3>4
  <2>6. DOMAIN to = DOMAIN b /\ gain \in Nat
    BY <2>1 DEF Placed
  <2> HIDE DEF H, J
  <2> QED
    BY <1>9, <1>15, <2>2, <2>3, <2>4, <2>5, <2>6 DEF Placed
<1>17. \A x \in Used(b, F, {}) : d[to[x]].size = c[to[x]].size
  <2>1. \A x \in Used(b, F, {}) : to[x] \in DOMAIN c
    BY DEF Stage, Placed, Used, Inner
  <2> QED
    BY <1>10, <2>1
<1>18. Rested(b, F, c, d, hole, gain, to, o, G, J)
  BY <1>14, <1>16, <1>17 DEF Rested
<1>19. Slid(b, F, pinned, d, 0, to, o)
  BY <1>4, <1>18, SlidRests
<1>20. pinned # {}
  OBVIOUS
<1> QED
  BY <1>14, <1>16, <1>19, <1>20 DEF Stage, d

\* A free block at o after a hole: they become one.
LEMMA StageJoin ==
  ASSUME NEW b, NEW F, NEW pinned, NEW c, NEW hole, hole # 0, NEW gain, NEW to, NEW G,
         Sane(b, F, {}), NEW o \in F, Stage(b, F, pinned, c, hole, gain, to, o - 1, G)
  PROVE  Stage(b, F, pinned, Drop([c EXCEPT ![hole].size = @ + c[o].size], o),
               hole, gain, to, o, G)
<1> DEFINE d == Drop([c EXCEPT ![hole].size = @ + c[o].size], o)
           H == Limbo(F, hole, o - 1)
<1>1. Headers(b) /\ F \in SUBSET Inner(b) /\ o \in Inner(b)
  BY DEF Sane, Parts
<1>2. Here(b, F, c, hole, o, G)
  BY <1>1, AtTurn DEF Stage
<1>3. /\ o \in Nat /\ o - 1 \in Nat /\ o # 0 /\ o > o - 1
      /\ \A x \in DOMAIN b : x > o - 1 <=> x > o \/ x = o
      /\ Ahead(F, o - 1) = Ahead(F, o) \cup {o} /\ o \notin Ahead(F, o)
  <2>1. Turn(b, F, o)
    BY <1>1, NextTurn
  <2> QED
    BY <1>1, <2>1 DEF Turn, Inner
<1>4. /\ Next_S(c, hole) = o /\ hole < o /\ hole \in Nat /\ hole \in H /\ hole \in Inner(c)
      /\ hole \notin Used(c, G, H) /\ o \notin Used(c, G, H) /\ o \notin Used(b, F, {})
      /\ o \in H /\ o \in Inner(c) /\ hole # o
  BY <1>2 DEF Here
<1>5. Sane(c, G, H) /\ Headers(c) /\ Tiles(c) /\ G \subseteq DOMAIN c /\ H \subseteq Inner(c)
      /\ G \subseteq Inner(c) /\ G \cap H = {} /\ o \in DOMAIN c
  BY <1>4 DEF Stage, Walk, Sane, Parts, Inner
<1>6. Joined(c, d, G, H, hole, o)
  BY <1>4, <1>5, AbsorbSane
<1>7. Limbo(F, hole, o) = H \ {o}
  BY <1>3, <1>4 DEF Limbo
<1> HIDE DEF d
<1>8. /\ DOMAIN d = DOMAIN c \ {o} /\ \A x \in DOMAIN c \ {hole, o} : d[x] = c[x]
      /\ d[hole].prev_size = c[hole].prev_size
      /\ Sane(d, G, H \ {o}) /\ Next_S(d, hole) = Next_S(c, o)
      /\ Total(d, G \cup (H \ {o})) = Total(c, G \cup H)
  BY <1>6 DEF Joined, Absorbed
<1>9. \A x \in DOMAIN c : x \in Nat
  BY <1>5, Offsets
<1>10. \A x \in DOMAIN c : (x > o => x > o - 1) /\ (x <= o - 1 => x <= o)
  BY <1>3, <1>9
<1>11. Walk(b, F, d, hole, o, G)
  <2>1. \A x \in DOMAIN d : x > o => x \in DOMAIN b \/ x = hole
    BY <1>8, <1>10 DEF Stage, Walk
  <2>2. \A x \in DOMAIN b : x > o => x \in DOMAIN d /\ x > hole
    <3>1. \A x \in DOMAIN b : x > o => x \in DOMAIN c /\ x > hole
      BY <1>3 DEF Stage, Walk
    <3>2. ~(o > o)
      BY <1>3
    <3> QED
      BY <1>8, <3>1, <3>2
  <2>3. ASSUME NEW x \in Inner(b), x > o
        PROVE  /\ d[x].size = b[x].size /\ d[x].fnext = b[x].fnext
               /\ d[x].fprev = b[x].fprev /\ d[x].data = b[x].data
    <3>1. x \in DOMAIN b /\ x > o - 1 /\ x \in DOMAIN d
      BY <1>3, <2>2, <2>3 DEF Inner
    <3>2. x # hole /\ x # o /\ x \in DOMAIN c
      BY <1>3, <1>4, <1>8, <2>3, <3>1
    <3>3. /\ c[x].size = b[x].size /\ c[x].fnext = b[x].fnext
          /\ c[x].fprev = b[x].fprev /\ c[x].data = b[x].data
      BY <3>1 DEF Stage, Walk
    <3> QED
      BY <1>8, <3>2, <3>3
  <2>4. \A x \in G : x <= o
    BY <1>5, <1>10 DEF Stage, Walk
  <2>5. \A x \in H \ {o} : d[x].prev_size = 0
    <3>1. \A x \in H : c[x].prev_size = 0 /\ x \in DOMAIN c
      BY <1>5 DEF Stage, Walk, Inner
    <3> QED
      BY <1>4, <1>8, <3>1
  <2>6. Next_S(d, hole) > o
    BY <1>3, <1>4, <1>5, <1>8, NextIs
  <2> HIDE DEF H
  <2> QED
    BY <1>7, <1>8, <2>1, <2>2, <2>3, <2>4, <2>5, <2>6 DEF Walk
<1>12. Used(d, G, H \ {o}) = Used(c, G, H) /\ hole \notin Used(c, G, H)
       /\ Used(c, G, H) \subseteq DOMAIN c \ {hole, o}
  <2>1. Inner(d) = Inner(c) \ {o}
    BY <1>8 DEF Inner
  <2>2. Used(d, G, H \ {o}) = Used(c, G, H)
    BY <1>4, <2>1 DEF Used
  <2>3. Used(c, G, H) \subseteq DOMAIN c \ {hole, o}
    BY <1>4 DEF Used, Inner
  <2> QED
    BY <1>4, <2>2, <2>3
<1>13. Placed(b, F, d, hole, gain, to, o, G)
  <2>1. Placed(b, F, c, hole, gain, to, o - 1, G)
    BY DEF Stage
  <2>2. ASSUME NEW x \in Used(b, F, {})
        PROVE  /\ to[x] \in Used(c, G, H) /\ (x > o => to[x] = x) /\ (x <= o => to[x] <= o)
               /\ d[to[x]].data = b[x].data /\ d[to[x]].fprev = b[x].fprev
    <3>1. x \in DOMAIN b /\ x \in Nat /\ x # o
      <4>1. Inner(b) \subseteq 2..(Cells + 1) /\ Cells \in Nat /\ x \in Inner(b)
        BY <1>1, Offsets, Constants DEF Used
      <4> QED
        BY <1>4, <4>1 DEF Inner
    <3>2. /\ (x > o - 1 => to[x] = x) /\ (x <= o - 1 => to[x] <= o - 1)
          /\ to[x] \in Used(c, G, H)
          /\ c[to[x]].data = b[x].data /\ c[to[x]].fprev = b[x].fprev
      BY <2>1 DEF Placed
    <3>3. to[x] \in DOMAIN c /\ d[to[x]] = c[to[x]]
      BY <1>8, <1>12, <3>2
    <3>4. (x > o => to[x] = x) /\ (x <= o => to[x] <= o)
      BY <1>3, <1>9, <3>1, <3>2, <3>3
    <3> QED
      BY <3>2, <3>3, <3>4
  <2>3. \A y \in Used(c, G, H) : \E x \in Used(b, F, {}) : to[x] = y
    BY <2>1 DEF Placed
  <2>4. DOMAIN to = DOMAIN b /\ gain \in Nat /\ Total(d, G \cup (H \ {o})) = Total(b, F) + gain
    BY <1>8, <2>1 DEF Placed
  <2> HIDE DEF H
  <2> QED
    BY <1>7, <1>12, <2>2, <2>3, <2>4 DEF Placed
<1>14. Slid(b, F, pinned, d, hole, to, o)
  <2>1. Slid(b, F, pinned, c, hole, to, o - 1)
    BY DEF Stage
  <2>2. Fill(b, F, to, o) = hole
    <3>1. Fill(b, F, to, o - 1) = hole
      BY <2>1 DEF Slid
    <3>2. o \in Nat \ {0}
      BY <1>3
    <3> QED
      BY <1>1, <1>4, <3>1, <3>2, FillIs
  <2>3. ASSUME NEW x \in Used(b, F, {}), x <= o PROVE x <= o - 1
    <3>1. Inner(b) \subseteq 2..(Cells + 1) /\ Cells \in Nat /\ x \in Inner(b)
      BY <1>1, Offsets, Constants DEF Used
    <3>2. x \in Nat /\ x # o
      BY <1>4, <3>1
    <3> QED
      BY <1>3, <2>3, <3>2
  <2>4. \A x \in Used(b, F, {}) : d[to[x]].size = NewSize(b, to, x)
    <3>1. \A x \in Used(b, F, {}) : to[x] \in Used(c, G, H)
      BY DEF Stage, Placed
    <3>2. \A x \in Used(b, F, {}) : d[to[x]] = c[to[x]]
      BY <1>8, <1>12, <3>1
    <3> QED
      BY <2>1, <3>2 DEF Slid
  <2> QED
    BY <2>1, <2>2, <2>3, <2>4 DEF Slid
<1> QED
  BY <1>11, <1>13, <1>14 DEF Stage, d

\* An allocated block that moves down to the hole.
LEMMA StageMove ==
  ASSUME NEW b, NEW F, NEW pinned, NEW c, NEW hole, hole # 0, NEW gain, NEW to, NEW G,
         Sane(b, F, {}), NEW o \in Inner(b) \ F, o \notin pinned,
         Stage(b, F, pinned, c, hole, gain, to, o - 1, G)
  PROVE  Stage(b, F, pinned, MoveDown(c, hole, o), hole + c[o].fprev,
               gain + c[o].size - c[o].fprev, [to EXCEPT ![o] = hole], o, G)
<1> DEFINE d == MoveDown(c, hole, o)
           H == Limbo(F, hole, o - 1)
           m == hole + c[o].fprev
           more == gain + c[o].size - c[o].fprev
           t == [to EXCEPT ![o] = hole]
           J == (H \ {hole}) \cup {m}
<1>1. Headers(b) /\ F \in SUBSET Inner(b) /\ o \in Inner(b) /\ o \notin F /\ o \in DOMAIN b
  BY DEF Sane, Parts, Inner
<1>2. Here(b, F, c, hole, o, G)
  BY <1>1, AtTurn DEF Stage
<1>3. /\ o \in Nat /\ o - 1 \in Nat /\ o # 0 /\ o > o - 1
      /\ \A x \in DOMAIN b : x > o - 1 <=> x > o \/ x = o
      /\ Ahead(F, o - 1) = Ahead(F, o) /\ o \notin Ahead(F, o)
  <2>1. Turn(b, F, o)
    BY <1>1, NextTurn
  <2> QED
    BY <1>1, <2>1 DEF Turn, Inner
<1>4. /\ Next_S(c, hole) = o /\ hole < o /\ hole \in Nat /\ hole \in H /\ hole \in Inner(c)
      /\ hole \notin Used(c, G, H) /\ o \in Used(c, G, H) /\ o \in Used(b, F, {})
      /\ o \notin H /\ o \in Inner(c) /\ hole # o
      /\ c[o].size = b[o].size /\ c[o].fprev = b[o].fprev /\ c[o].data = b[o].data
  BY <1>2 DEF Here
<1>5. Sane(c, G, H) /\ Headers(c) /\ Tiles(c) /\ G \subseteq DOMAIN c /\ H \subseteq Inner(c)
      /\ G \subseteq Inner(c) /\ G \cap H = {} /\ o \in DOMAIN c /\ c[hole].prev_size = 0
  BY <1>4 DEF Stage, Walk, Sane, Parts, Inner
<1>6. MovedDown(c, d, G, H, hole, o)
  BY <1>4, <1>5, MoveSane
<1> HIDE DEF d
<1>7. /\ m \notin DOMAIN c \ {o} /\ hole < m /\ Sane(d, G, J)
      /\ DOMAIN d = (DOMAIN c \ {o}) \cup {m}
      /\ \A x \in DOMAIN c \ {hole, o} : d[x] = c[x]
      /\ d[hole].size = c[o].fprev /\ d[hole].fprev = c[o].fprev /\ d[hole].data = c[o].data
  BY <1>6 DEF MovedDown
<1>8. /\ d[m].prev_size = 0 /\ Next_S(d, hole) = m /\ Next_S(d, m) = Next_S(c, o)
      /\ Used(d, G, J) = (Used(c, G, H) \ {o}) \cup {hole}
      /\ Total(d, G \cup J) = Total(c, G \cup H) + c[o].size - c[o].fprev
  BY <1>6 DEF MovedDown
<1>9. c[o].size \in Nat /\ c[o].fprev \in Nat /\ c[o].fprev >= 1 /\ c[o].fprev <= c[o].size
  <2>1. c[o].fprev \in 1..c[o].size
    BY <1>4, <1>5 DEF Sane, Busy
  <2>2. c[o].size \in Nat
    BY <1>4, <1>5, NextIs
  <2> QED
    BY <2>1, <2>2
<1>10. m \in Nat /\ m # 0 /\ Limbo(F, m, o) = J
  <2>1. m \in Nat /\ m # 0
    BY <1>4, <1>9
  <2>2. hole \notin Ahead(F, o)
    BY <1>3, <1>4 DEF Ahead
  <2> HIDE DEF m
  <2> QED
    BY <1>3, <2>1, <2>2 DEF Limbo
<1>11. \A x \in DOMAIN c : x \in Nat
  BY <1>5, Offsets
<1>12. \A x \in DOMAIN c : (x > o => x > o - 1) /\ (x <= o - 1 => x <= o)
  BY <1>3, <1>11
<1>13. m < Next_S(c, o) /\ Next_S(c, o) \in Nat /\ Next_S(c, o) > o
       /\ \A x \in DOMAIN c : x > o => Next_S(c, o) <= x
  <2>1. m \in J /\ J \subseteq Inner(d) /\ Headers(d) /\ Tiles(d)
    BY <1>7 DEF Sane, Parts
  <2>2. m < Next_S(d, m)
    BY <1>10, <2>1, NextIs
  <2> QED
    BY <1>3, <1>4, <1>5, <1>8, <2>2, NextIs
<1> HIDE DEF m, H
<1>14. Walk(b, F, d, m, o, G)
  <2>1. \A x \in DOMAIN d : x > o => x \in DOMAIN b \/ x = m
    <3>1. \A x \in DOMAIN c : x > o => x \in DOMAIN b \/ x = hole
      BY <1>12 DEF Stage, Walk
    <3>2. ~(hole > o)
      BY <1>3, <1>4
    <3> QED
      BY <1>7, <3>1, <3>2
  <2>2. \A x \in DOMAIN b : x > o => x \in DOMAIN d /\ x > m
    <3> SUFFICES ASSUME NEW x \in DOMAIN b, x > o PROVE x \in DOMAIN d /\ x > m
      OBVIOUS
    <3>1. x \in DOMAIN c /\ x # o
      BY <1>3 DEF Stage, Walk
    <3>2. Next_S(c, o) <= x /\ x \in Nat
      BY <1>11, <1>13, <3>1
    <3> QED
      BY <1>7, <1>10, <1>13, <3>1, <3>2
  <2>3. ASSUME NEW x \in Inner(b), x > o
        PROVE  /\ d[x].size = b[x].size /\ d[x].fnext = b[x].fnext
               /\ d[x].fprev = b[x].fprev /\ d[x].data = b[x].data
    <3>1. x \in DOMAIN b /\ x > o - 1 /\ x \in DOMAIN c
      BY <1>3, <2>3 DEF Inner, Stage, Walk
    <3>2. x # hole /\ x # o
      BY <1>3, <1>4, <2>3
    <3>3. /\ c[x].size = b[x].size /\ c[x].fnext = b[x].fnext
          /\ c[x].fprev = b[x].fprev /\ c[x].data = b[x].data
      BY <3>1 DEF Stage, Walk
    <3> QED
      BY <1>7, <3>1, <3>2, <3>3
  <2>4. \A x \in G : x <= o
    BY <1>5, <1>12 DEF Stage, Walk
  <2>5. \A x \in J : d[x].prev_size = 0
    <3>1. \A x \in H : c[x].prev_size = 0 /\ x \in DOMAIN c
      BY <1>5 DEF Stage, Walk, Inner, H
    <3> QED
      BY <1>4, <1>7, <1>8, <3>1
  <2>6. Next_S(d, m) > o
    BY <1>8, <1>13
  <2> HIDE DEF J
  <2> QED
    BY <1>7, <1>10, <2>1, <2>2, <2>3, <2>4, <2>5, <2>6 DEF Walk
<1>15. Placed(b, F, c, hole, gain, to, o - 1, G) /\ to[o] = o /\ DOMAIN to = DOMAIN b
  <2>1. Placed(b, F, c, hole, gain, to, o - 1, G)
    BY DEF Stage
  <2> QED
    BY <1>3, <1>4, <2>1 DEF Placed
<1>16. DOMAIN t = DOMAIN b /\ t[o] = hole /\ \A x \in DOMAIN b \ {o} : t[x] = to[x]
  BY <1>1, <1>15
<1> HIDE DEF t
<1>17. ASSUME NEW x \in Used(b, F, {})
       PROVE  x \in DOMAIN b /\ x \in Nat /\ to[x] \in Used(c, G, H)
  <2>1. Inner(b) \subseteq 2..(Cells + 1) /\ Cells \in Nat /\ x \in Inner(b)
    BY <1>1, Offsets, Constants DEF Used
  <2>2. to[x] \in Used(c, G, H)
    BY <1>15 DEF Placed, H
  <2> QED
    BY <2>1, <2>2 DEF Inner
<1>18. ASSUME NEW x \in Used(b, F, {}), x # o
       PROVE  /\ to[x] # o /\ to[x] # hole /\ t[x] = to[x] /\ d[to[x]] = c[to[x]]
              /\ to[x] \in Used(d, G, J)
  <2>1. x \in DOMAIN b /\ x \in Nat /\ to[x] \in Used(c, G, H) /\ t[x] = to[x]
    BY <1>16, <1>17, <1>18
  <2>2. to[x] # o
    <3>1. (x > o - 1 => to[x] = x) /\ (x <= o - 1 => to[x] <= o - 1)
      BY <1>15 DEF Placed
    <3> QED
      BY <1>3, <1>18, <2>1, <3>1
  <2>3. to[x] # hole /\ to[x] \in DOMAIN c
    BY <1>4, <2>1 DEF Used, Inner
  <2> QED
    BY <1>7, <1>8, <2>1, <2>2, <2>3
<1>19. Placed(b, F, d, m, more, t, o, G)
  <2>1. ASSUME NEW x \in Used(b, F, {})
        PROVE  /\ t[x] \in Used(d, G, J) /\ (x > o => t[x] = x) /\ (x <= o => t[x] <= o)
               /\ d[t[x]].data = b[x].data /\ d[t[x]].fprev = b[x].fprev
    <3>1. CASE x = o
      <4>1. t[x] = hole /\ hole \in Used(d, G, J)
        BY <1>8, <1>16, <3>1
      <4>2. ~(o > o) /\ hole <= o
        BY <1>3, <1>4
      <4> QED
        BY <1>4, <1>7, <3>1, <4>1, <4>2
    <3>2. CASE x # o
      <4>1. /\ t[x] = to[x] /\ d[to[x]] = c[to[x]] /\ to[x] \in Used(d, G, J)
            /\ x \in Nat /\ to[x] \in Used(c, G, H) /\ to[x] \in DOMAIN c
        BY <1>17, <1>18, <3>2 DEF Used, Inner
      <4>2. /\ (x > o - 1 => to[x] = x) /\ (x <= o - 1 => to[x] <= o - 1)
            /\ c[to[x]].data = b[x].data /\ c[to[x]].fprev = b[x].fprev
        BY <1>15 DEF Placed
      <4>3. (x > o => to[x] = x) /\ (x <= o => to[x] <= o)
        BY <1>3, <1>11, <3>2, <4>1, <4>2
      <4> QED
        BY <4>1, <4>2, <4>3
    <3> QED
      BY <3>1, <3>2
  <2>2. ASSUME NEW y \in Used(d, G, J) PROVE \E x \in Used(b, F, {}) : t[x] = y
    <3>1. CASE y = hole
      BY <1>4, <1>16, <3>1
    <3>2. CASE y # hole
      <4>1. y \in Used(c, G, H) /\ y # o
        BY <1>8, <3>2
      <4>2. PICK x \in Used(b, F, {}) : to[x] = y
        BY <1>15, <4>1 DEF Placed, H
      <4>3. x # o
        BY <1>15, <4>1, <4>2
      <4> QED
        BY <1>18, <4>2, <4>3
    <3> QED
      BY <3>1, <3>2
  <2>3. more \in Nat /\ Total(d, G \cup J) = Total(b, F) + more
    <3>1. gain \in Nat /\ Total(c, G \cup H) = Total(b, F) + gain
      BY <1>15 DEF Placed, H
    <3>2. Total(b, F) \in Nat
      BY <1>1, TotalOf
    <3> QED
      BY <1>8, <1>9, <3>1, <3>2
  <2> HIDE DEF J, more
  <2> QED
    BY <1>10, <1>16, <2>1, <2>2, <2>3 DEF Placed
<1>20. Slid(b, F, pinned, d, m, t, o)
  <2>1. Slid(b, F, pinned, c, hole, to, o - 1)
    BY DEF Stage
  <2>2. \A n \in Nat : n <= o - 1 => Fill(b, F, t, n) = Fill(b, F, to, n)
    <3> SUFFICES ASSUME NEW n \in Nat, n <= o - 1 PROVE Fill(b, F, t, n) = Fill(b, F, to, n)
      OBVIOUS
    <3>1. \A x \in Used(b, F, {}) : x <= n => x # o
      BY <1>3
    <3>2. \A x \in Used(b, F, {}) : x <= n => t[x] = to[x]
      BY <1>18, <3>1
    <3> QED
      BY <1>1, <3>2, FillSame
  <2>3. Fill(b, F, to, o - 1) = hole
    BY <2>1 DEF Slid
  <2>4. Fill(b, F, t, o - 1) = hole
    BY <1>3, <2>2, <2>3
  <2>5. Fill(b, F, t, o) = m
    <3>1. o \in Nat \ {0}
      BY <1>3
    <3>2. Fill(b, F, t, o) = t[o] + NewSize(b, t, o)
      BY <1>1, <1>4, <3>1, FillIs
    <3> QED
      BY <1>4, <1>16, <3>2 DEF NewSize, m
  <2>6. ASSUME NEW x \in Used(b, F, {}) PROVE d[t[x]].size = NewSize(b, t, x)
    <3>1. CASE x = o
      BY <1>4, <1>7, <1>16, <3>1 DEF NewSize
    <3>2. CASE x # o
      BY <1>18, <2>1, <3>2 DEF NewSize, Slid
    <3> QED
      BY <3>1, <3>2
  <2>7. ASSUME NEW x \in Used(b, F, {}), x <= o
        PROVE  t[x] = IF x \in pinned THEN x ELSE Fill(b, F, t, x - 1)
    <3>1. CASE x = o
      BY <1>16, <2>4, <3>1
    <3>2. CASE x # o
      <4>1. x \in Nat /\ x # 0
        <5>1. Inner(b) \subseteq 2..(Cells + 1) /\ Cells \in Nat /\ x \in Inner(b)
          BY <1>1, Offsets, Constants DEF Used
        <5> QED
          BY <5>1
      <4>2. x <= o - 1 /\ x - 1 \in Nat /\ x - 1 <= o - 1
        BY <1>3, <2>7, <3>2, <4>1
      <4>3. to[x] = IF x \in pinned THEN x ELSE Fill(b, F, to, x - 1)
        BY <2>1, <4>2 DEF Slid
      <4> QED
        BY <1>18, <2>2, <3>2, <4>2, <4>3
    <3> QED
      BY <3>1, <3>2
  <2> QED
    BY <1>10, <2>5, <2>6, <2>7 DEF Slid
<1>21. pinned = {} => G = {}
  BY DEF Stage
<1> QED
  BY <1>14, <1>19, <1>20, <1>21 DEF Stage, d, m, t

-----------------------------------------------------------------------------
(* The walk as a whole *)

State(c, hole, gain, to) == [b |-> c, hole |-> hole, gain |-> gain, to |-> to]

Reached(b, F, pinned, s, o) ==
  \E c, hole, gain, to, G : /\ s = State(c, hole, gain, to)
                            /\ Stage(b, F, pinned, c, hole, gain, to, o, G)

\* v is what is left after the visit, case by case.
Visited(c, hole, gain, to, o, pinned, v) ==
  /\ c[o].fnext # 0 /\ hole = 0 => v = State(c, o, gain, to)
  /\ c[o].fnext # 0 /\ hole # 0 =>
       v = State(Drop([c EXCEPT ![hole].size = @ + c[o].size], o), hole, gain, to)
  /\ c[o].fnext = 0 /\ hole = 0 => v = State(c, 0, gain, to)
  /\ c[o].fnext = 0 /\ hole # 0 /\ o \in pinned => v = State(CloseHole(c, hole, o), 0, gain, to)
  /\ c[o].fnext = 0 /\ hole # 0 /\ o \notin pinned =>
       v = State(MoveDown(c, hole, o), hole + c[o].fprev,
                 gain + c[o].size - c[o].fprev, [to EXCEPT ![o] = hole])

\* One pass of the loop, case by case.
LEMMA VisitIs ==
  ASSUME NEW c, NEW hole, NEW gain, NEW to, NEW o, NEW pinned
  PROVE  Visited(c, hole, gain, to, o, pinned, Visit(State(c, hole, gain, to), o, pinned))
<1>1. PICK s : s = State(c, hole, gain, to)
  OBVIOUS
<1>2. s.b = c /\ s.hole = hole /\ s.gain = gain /\ s.to = to
  BY <1>1 DEF State
<1>3. ASSUME c[o].fnext # 0, hole = 0 PROVE Visit(s, o, pinned) = State(c, o, gain, to)
  <2>1. Visit(s, o, pinned) = [s EXCEPT !.hole = o]
    BY <1>2, <1>3 DEF Visit
  <2> QED
    BY <1>1, <2>1 DEF State
<1>4. ASSUME c[o].fnext # 0, hole # 0
      PROVE  Visit(s, o, pinned) =
               State(Drop([c EXCEPT ![hole].size = @ + c[o].size], o), hole, gain, to)
  <2> DEFINE d == Drop([c EXCEPT ![hole].size = @ + c[o].size], o)
             e == Drop([s.b EXCEPT ![s.hole].size = @ + s.b[o].size], o)
  <2>1. Visit(s, o, pinned) = [s EXCEPT !.b = e]
    BY <1>2, <1>4 DEF Visit
  <2>2. e = d
    BY <1>2
  <2> HIDE DEF e
  <2> HIDE DEF d
  <2>3. Visit(s, o, pinned) = State(d, hole, gain, to)
    BY <1>1, <2>1, <2>2 DEF State
  <2> QED
    BY <2>3 DEF d
<1>5. ASSUME c[o].fnext = 0, hole = 0 PROVE Visit(s, o, pinned) = State(c, 0, gain, to)
  BY <1>1, <1>2, <1>5 DEF Visit
<1>6. ASSUME c[o].fnext = 0, hole # 0, o \in pinned
      PROVE  Visit(s, o, pinned) = State(CloseHole(c, hole, o), 0, gain, to)
  <2>1. Visit(s, o, pinned) = [s EXCEPT !.b = CloseHole(@, s.hole, o), !.hole = 0]
    BY <1>2, <1>6 DEF Visit
  <2>2. Visit(s, o, pinned) = [s EXCEPT !.b = CloseHole(c, hole, o), !.hole = 0]
    BY <1>2, <2>1
  <2> QED
    BY <1>1, <2>2 DEF State
<1>7. ASSUME c[o].fnext = 0, hole # 0, o \notin pinned
      PROVE  Visit(s, o, pinned) =
               State(MoveDown(c, hole, o), hole + c[o].fprev,
                     gain + c[o].size - c[o].fprev, [to EXCEPT ![o] = hole])
  <2> DEFINE d == MoveDown(c, hole, o)
             t == [to EXCEPT ![o] = hole]
  <2>1. Visit(s, o, pinned) = [s EXCEPT !.b = MoveDown(@, s.hole, o),
                                        !.hole = @ + s.b[o].fprev,
                                        !.gain = @ + s.b[o].size - s.b[o].fprev,
                                        !.to[o] = s.hole]
    BY <1>2, <1>7 DEF Visit
  <2>2. Visit(s, o, pinned) = [s EXCEPT !.b = d,
                                        !.hole = hole + c[o].fprev,
                                        !.gain = gain + c[o].size - c[o].fprev,
                                        !.to = t]
    BY <1>1, <1>2, <2>1 DEF State
  <2> HIDE DEF d, t
  <2>3. Visit(s, o, pinned) = State(d, hole + c[o].fprev, gain + c[o].size - c[o].fprev, t)
    BY <1>1, <2>2 DEF State
  <2> QED
    BY <2>3 DEF d, t
<1>8. Visited(c, hole, gain, to, o, pinned, Visit(s, o, pinned))
  BY <1>3, <1>4, <1>5, <1>6, <1>7 DEF Visited
<1> QED
  BY <1>1, <1>8

\* One pass of the loop keeps what is known of the stage.
LEMMA VisitReaches ==
  ASSUME NEW b, NEW F, Sane(b, F, {}), NEW pinned, NEW s, NEW o \in Inner(b),
         Reached(b, F, pinned, s, o - 1)
  PROVE  Reached(b, F, pinned, Visit(s, o, pinned), o)
<1>1. PICK c, hole, gain, to, G : /\ s = State(c, hole, gain, to)
                                  /\ Stage(b, F, pinned, c, hole, gain, to, o - 1, G)
  BY DEF Reached
<1>2. c[o].fnext # 0 <=> o \in F
  <2>1. Here(b, F, c, hole, o, G)
    BY <1>1, AtTurn DEF Stage
  <2> QED
    BY <2>1 DEF Here
<1>3. PICK v : v = Visit(s, o, pinned)
  OBVIOUS
<1>4. Visited(c, hole, gain, to, o, pinned, v)
  BY <1>1, <1>3, VisitIs
<1>5. CASE o \in F /\ hole = 0
  <2>1. v = State(c, o, gain, to)
    BY <1>2, <1>4, <1>5 DEF Visited
  <2>2. Stage(b, F, pinned, c, o, gain, to, o, G)
    BY <1>1, <1>5, StageOpen
  <2> QED
    BY <1>3, <2>1, <2>2 DEF Reached
<1>6. CASE o \in F /\ hole # 0
  <2> DEFINE d == Drop([c EXCEPT ![hole].size = @ + c[o].size], o)
  <2>1. v = State(d, hole, gain, to)
    BY <1>2, <1>4, <1>6 DEF Visited
  <2>2. Stage(b, F, pinned, d, hole, gain, to, o, G)
    BY <1>1, <1>6, StageJoin
  <2> HIDE DEF d
  <2> QED
    BY <1>3, <2>1, <2>2 DEF Reached
<1>7. CASE o \notin F /\ hole = 0
  <2>1. v = State(c, 0, gain, to)
    BY <1>2, <1>4, <1>7 DEF Visited
  <2>2. Stage(b, F, pinned, c, 0, gain, to, o, G)
    BY <1>1, <1>7, StageRest
  <2> QED
    BY <1>3, <2>1, <2>2 DEF Reached
<1>8. CASE o \notin F /\ hole # 0 /\ o \in pinned
  <2> DEFINE d == CloseHole(c, hole, o)
             J == G \cup {hole}
  <2>1. v = State(d, 0, gain, to)
    BY <1>2, <1>4, <1>8 DEF Visited
  <2>2. Stage(b, F, pinned, d, 0, gain, to, o, J)
    BY <1>1, <1>8, StageClose
  <2> HIDE DEF d, J
  <2> QED
    BY <1>3, <2>1, <2>2 DEF Reached
<1>9. CASE o \notin F /\ hole # 0 /\ o \notin pinned
  <2> DEFINE d == MoveDown(c, hole, o)
             m == hole + c[o].fprev
             more == gain + c[o].size - c[o].fprev
             t == [to EXCEPT ![o] = hole]
  <2>1. v = State(d, m, more, t)
    BY <1>2, <1>4, <1>9 DEF Visited
  <2>2. Stage(b, F, pinned, d, m, more, t, o, G)
    BY <1>1, <1>9, StageMove
  <2> HIDE DEF d, m, more, t
  <2> QED
    BY <1>3, <2>1, <2>2 DEF Reached
<1> QED
  BY <1>5, <1>6, <1>7, <1>8, <1>9

\* An offset without a header needs no pass.
LEMMA NoneReaches ==
  ASSUME NEW b, NEW F, Sane(b, F, {}), NEW pinned, NEW s,
         NEW o \in 2..(Cells + 1), o \notin DOMAIN b, Reached(b, F, pinned, s, o - 1)
  PROVE  Reached(b, F, pinned, s, o)
<1>1. PICK c, hole, gain, to, G : /\ s = State(c, hole, gain, to)
                                  /\ Stage(b, F, pinned, c, hole, gain, to, o - 1, G)
  BY DEF Reached
<1>2. Stage(b, F, pinned, c, hole, gain, to, o, G)
  BY <1>1, StageNone
<1> QED
  BY <1>1, <1>2 DEF Reached

\* No free block has a tag of a free block before it.
LEMMA FreeUntagged ==
  ASSUME NEW b, NEW F, Sane(b, F, {}), NEW x \in F
  PROVE  b[x].prev_size = 0
<1>1. Headers(b) /\ Tiles(b) /\ x \in Inner(b) /\ Tags(b, F, {})
  BY DEF Sane, Parts
<1>2. CASE x = Start
  BY <1>1, <1>2 DEF Tags
<1>3. CASE x # Start
  <2>1. PICK p \in Inner(b) : Next_S(b, p) = x
    BY <1>1, <1>3, PreviousIs
  <2> QED
    BY <1>1, <2>1 DEF Tags
<1> QED
  BY <1>2, <1>3

\* The free list is emptied, and its blocks are in limbo.
LEMMA EmptySane ==
  ASSUME NEW b, NEW F, Sane(b, F, {})
  PROVE  LET c == EmptyFreeList(b) IN
         /\ Sane(c, {}, F) /\ DOMAIN c = DOMAIN b
         /\ \A x \in Inner(b) : c[x] = b[x]
<1> DEFINE c == EmptyFreeList(b)
<1>1. /\ Headers(b) /\ Tiles(b) /\ F \subseteq Inner(b) /\ Tags(b, F, {}) /\ Busy(b, Used(b, F, {}))
      /\ b[LastBlk].fnext = 0
  BY DEF Sane, Parts
<1>2. /\ FirstBlk \in DOMAIN b /\ LastBlk \in DOMAIN b /\ FirstBlk # LastBlk
      /\ LastBlk \in Offset /\ FirstBlk \in 0..LastBlk /\ Start # FirstBlk /\ Start # LastBlk
      /\ Start \in Inner(b)
  <2>1. FirstBlk \in DOMAIN b /\ LastBlk \in DOMAIN b /\ Start \in Inner(b)
    BY <1>1, Offsets
  <2> QED
    BY <2>1, Constants
<1>3. /\ DOMAIN c = DOMAIN b
      /\ c[FirstBlk] = [b[FirstBlk] EXCEPT !.fnext = LastBlk]
      /\ c[LastBlk] = [b[LastBlk] EXCEPT !.fprev = FirstBlk]
      /\ \A x \in Inner(b) : c[x] = b[x]
  BY <1>2 DEF EmptyFreeList, Inner
<1> HIDE DEF c
<1>4. b[FirstBlk] \in Block /\ b[LastBlk] \in Block
  BY <1>1, <1>2 DEF Headers
<1>5. /\ c[FirstBlk] \in Block /\ c[FirstBlk].size = b[FirstBlk].size
      /\ c[FirstBlk].fnext = LastBlk
  BY <1>2, <1>3, <1>4 DEF Block
<1>6. /\ c[LastBlk] \in Block /\ c[LastBlk].size = b[LastBlk].size
      /\ c[LastBlk].prev_size = b[LastBlk].prev_size
      /\ c[LastBlk].fprev = FirstBlk /\ c[LastBlk].fnext = b[LastBlk].fnext
  BY <1>2, <1>3, <1>4 DEF Block
<1>7. \A x \in DOMAIN b : x = FirstBlk \/ x = LastBlk \/ x \in Inner(b)
  BY DEF Inner
<1>8. Headers(c) /\ \A x \in DOMAIN b : c[x].size = b[x].size
  BY <1>1, <1>3, <1>5, <1>6, <1>7 DEF Headers
<1>9. Tiles(c) /\ Inner(c) = Inner(b) /\ \A x \in Inner(b) : Next_S(c, x) = Next_S(b, x)
  BY <1>1, <1>3, <1>8, TilesSame
<1>10. Parts(c, {}, F) /\ Used(c, {}, F) = Used(b, F, {})
  BY <1>1, <1>9 DEF Parts, Used
<1> DEFINE r == [x \in {FirstBlk, LastBlk} |-> IF x = FirstBlk THEN 1 ELSE 0]
<1>11. Linked(c, {}, r)
  <2>1. {} \cup {FirstBlk, LastBlk} = {FirstBlk, LastBlk} /\ {} \cup {FirstBlk} = {FirstBlk}
        /\ {} \cup {LastBlk} = {LastBlk}
    OBVIOUS
  <2>2. r \in [{FirstBlk, LastBlk} -> Nat] /\ r[FirstBlk] = 1 /\ r[LastBlk] = 0
    BY <1>2
  <2> HIDE DEF r
  <2> QED
    BY <1>5, <1>6, <2>1, <2>2 DEF Linked
<1>12. Tags(c, {}, F)
  <2>1. c[Start].prev_size = 0
    BY <1>1, <1>2, <1>3 DEF Tags
  <2>2. ASSUME NEW o \in Inner(c) \ F PROVE c[Next_S(c, o)].prev_size = 0
    <3>1. b[Next_S(b, o)].prev_size = 0 /\ o \in Inner(b) /\ Next_S(c, o) = Next_S(b, o)
      BY <1>1, <1>9, <2>2 DEF Tags
    <3>2. Next_S(b, o) \in Inner(b) \cup {LastBlk}
      BY <1>1, <3>1, NextIs
    <3> QED
      BY <1>3, <1>6, <3>1, <3>2
  <2> QED
    BY <2>1, <2>2 DEF Tags
<1>13. Busy(c, Used(c, {}, F))
  BY <1>1, <1>3, <1>10 DEF Busy, Used
<1>14. Sane(c, {}, F)
  <2> HIDE DEF r
  <2> QED
    BY <1>1, <1>6, <1>8, <1>9, <1>10, <1>11, <1>12, <1>13 DEF Sane
<1> QED
  BY <1>3, <1>14 DEF c

\* What holds before the first pass.
LEMMA StartReached ==
  ASSUME NEW b, NEW F, Sane(b, F, {}), NEW pinned
  PROVE  Reached(b, F, pinned, State(EmptyFreeList(b), 0, 0, [x \in DOMAIN b |-> x]), FirstBlk)
<1> DEFINE c == EmptyFreeList(b)
           to == [x \in DOMAIN b |-> x]
<1>1. Headers(b) /\ F \subseteq Inner(b) /\ Inner(b) \subseteq DOMAIN b
  BY DEF Sane, Parts, Inner
<1>2. /\ Sane(c, {}, F) /\ DOMAIN c = DOMAIN b /\ \A x \in Inner(b) : c[x] = b[x]
  BY EmptySane
<1> HIDE DEF c
<1>3. \A x \in Inner(b) : x \in Nat /\ x > 1 /\ ~(x <= 1) /\ x # 0
  <2>1. Inner(b) \subseteq 2..(Cells + 1) /\ Cells \in Nat
    BY <1>1, Offsets, Constants
  <2> QED
    BY <2>1
<1>4. FirstBlk = 1 /\ Start = 2
  BY Constants
<1>5. Limbo(F, 0, 1) = F
  BY <1>1, <1>3 DEF Limbo, Ahead
<1>6. Walk(b, F, c, 0, 1, {})
  <2>1. \A x \in F : c[x].prev_size = 0
    BY <1>1, <1>2, FreeUntagged
  <2> QED
    BY <1>1, <1>2, <1>5, <2>1 DEF Walk
<1>7. Inner(c) = Inner(b) /\ Used(c, {}, F) = Used(b, F, {}) /\ Used(b, F, {}) \subseteq Inner(b)
  BY <1>2 DEF Inner, Used
<1>8. \A x \in Inner(b) : to[x] = x
  BY <1>1
<1>9. DOMAIN to = DOMAIN b
  OBVIOUS
<1> HIDE DEF to
<1>10. Placed(b, F, c, 0, 0, to, 1, {})
  <2>1. Total(c, {} \cup F) = Total(b, F) + 0
    <3>1. Total(c, F) = Total(b, F)
      BY <1>1, <1>2, TotalKept
    <3>2. Total(b, F) \in Nat /\ {} \cup F = F
      BY <1>1, TotalOf
    <3> QED
      BY <3>1, <3>2
  <2> QED
    BY <1>2, <1>3, <1>5, <1>7, <1>8, <1>9, <2>1 DEF Placed
<1>11. Slid(b, F, pinned, c, 0, to, 1)
  <2>1. \A x \in Used(b, F, {}) : ~(x <= 1)
    BY <1>3, <1>7
  <2>2. Upto(b, F, 1) = {}
    BY <2>1 DEF Upto
  <2>3. Fill(b, F, to, 1) = 2
    BY <1>4, <2>2 DEF Fill
  <2>4. \A x \in Used(b, F, {}) : c[to[x]].size = NewSize(b, to, x)
    BY <1>2, <1>7, <1>8 DEF NewSize
  <2> QED
    BY <2>1, <2>3, <2>4 DEF Slid
<1>12. Stage(b, F, pinned, c, 0, 0, to, 1, {})
  BY <1>6, <1>10, <1>11 DEF Stage
<1> QED
  BY <1>4, <1>12 DEF Reached, c, to

\* What the walk has at o, when a says what it had before.
Swept(b, pinned, a, o) ==
  IF o = FirstBlk THEN [b |-> EmptyFreeList(b), hole |-> 0, gain |-> 0,
                        to |-> [x \in DOMAIN b |-> x]]
  ELSE IF o \in DOMAIN b THEN Visit(a[o - 1], o, pinned) ELSE a[o - 1]

\* The recursion goes down, so that there is a function that obeys it.
LEMMA SweptExists ==
  ASSUME NEW b, NEW pinned
  PROVE  \E g : g = [o \in FirstBlk..(LastBlk - 1) |-> Swept(b, pinned, g, o)]
<1> DEFINE Some(n) == \E g : g = [o \in 1..(n + 1) |-> Swept(b, pinned, g, o)]
           S == {n \in 0..Cells : Some(n)}
<1>1. Cells \in Nat /\ FirstBlk = 1 /\ LastBlk - 1 = Cells + 1
  BY Constants
<1>2. 0 \in S
  <2> DEFINE g == [o \in 1..(0 + 1) |-> Swept(b, pinned, 0, o)]
  <2>1. \A o \in 1..(0 + 1) : Swept(b, pinned, g, o) = Swept(b, pinned, 0, o)
    BY <1>1 DEF Swept
  <2>2. g = [o \in 1..(0 + 1) |-> Swept(b, pinned, g, o)]
    BY <2>1
  <2> HIDE DEF g
  <2> QED
    BY <1>1, <2>2
<1>3. ASSUME NEW n \in 1..Cells, n - 1 \in S PROVE n \in S
  <2>1. PICK g : g = [o \in 1..n |-> Swept(b, pinned, g, o)]
    <3>1. PICK g : g = [o \in 1..((n - 1) + 1) |-> Swept(b, pinned, g, o)]
      BY <1>3
    <3>2. (n - 1) + 1 = n
      OBVIOUS
    <3> QED
      BY <3>1, <3>2
  <2> DEFINE f == [o \in 1..(n + 1) |-> Swept(b, pinned, g, o)]
  <2>2. \A o \in 1..n : f[o] = g[o]
    <3>1. \A o \in 1..n : o \in 1..(n + 1)
      OBVIOUS
    <3>2. \A o \in 1..n : f[o] = Swept(b, pinned, g, o)
      BY <3>1
    <3>3. \A o \in 1..n : g[o] = Swept(b, pinned, g, o)
      BY <2>1
    <3> QED
      BY <3>2, <3>3
  <2>3. ASSUME NEW o \in 1..(n + 1) PROVE Swept(b, pinned, f, o) = Swept(b, pinned, g, o)
    <3>1. CASE o = 1
      BY <1>1, <3>1 DEF Swept
    <3>2. CASE o # 1
      <4>1. o - 1 \in 1..n
        BY <3>2
      <4>2. f[o - 1] = g[o - 1]
        BY <2>2, <4>1
      <4> HIDE DEF f
      <4> QED
        BY <4>2 DEF Swept
    <3> QED
      BY <3>1, <3>2
  <2>4. f = [o \in 1..(n + 1) |-> Swept(b, pinned, f, o)]
    BY <2>3
  <2> HIDE DEF f
  <2> QED
    BY <2>4
<1>4. 0..Cells \subseteq S
  <2> HIDE DEF S
  <2> QED
    BY <1>1, <1>2, <1>3, StepByStep
<1>5. Some(Cells)
  BY <1>1, <1>4
<1> QED
  BY <1>1, <1>5

\* The end of the walk: s is closed, as CloseHole at the end of the segment does.
Final(s) == IF s.hole = 0 THEN s ELSE [s EXCEPT !.b = CloseHole(@, s.hole, LastBlk)]

\* The loop ends past the last block, and closes its hole.
LEMMA CompactedIs ==
  ASSUME NEW b, NEW F, Sane(b, F, {}), NEW pinned
  PROVE  \E s : Reached(b, F, pinned, s, LastBlk - 1) /\ Compacted(b, pinned) = Final(s)
<1> DEFINE g == CHOOSE g : g = [o \in FirstBlk..(LastBlk - 1) |-> Swept(b, pinned, g, o)]
<1>1. g = [o \in FirstBlk..(LastBlk - 1) |-> Swept(b, pinned, g, o)]
  BY SweptExists
<1>2. Compacted(b, pinned) = Final(g[LastBlk - 1])
  BY DEF Compacted, Final, Swept
<1> HIDE DEF g
<1>3. Cells \in Nat /\ FirstBlk = 1 /\ LastBlk - 1 = Cells + 1 /\ LastBlk = Cells + 2
  BY Constants
<1>4. \A o \in 1..(Cells + 1) : g[o] = Swept(b, pinned, g, o)
  BY <1>1, <1>3
<1> DEFINE S == {n \in 0..Cells : Reached(b, F, pinned, g[n + 1], n + 1)}
<1>5. 0 \in S
  <2>1. g[1] = State(EmptyFreeList(b), 0, 0, [x \in DOMAIN b |-> x])
    BY <1>3, <1>4 DEF Swept, State
  <2>2. Reached(b, F, pinned, g[1], 1)
    BY <1>3, <2>1, StartReached
  <2>3. 0 + 1 = 1 /\ 0 \in 0..Cells
    BY <1>3
  <2> QED
    BY <2>2, <2>3
<1>6. ASSUME NEW n \in 1..Cells, n - 1 \in S PROVE n \in S
  <2>1. PICK o : o = n + 1
    OBVIOUS
  <2>2. o \in 2..(Cells + 1) /\ o \in 1..(Cells + 1) /\ (n - 1) + 1 = o - 1 /\ o # 1
        /\ n \in 0..Cells
    BY <1>3, <2>1
  <2>3. Reached(b, F, pinned, g[o - 1], o - 1)
    BY <1>6, <2>2
  <2>4. CASE o \in DOMAIN b
    <3>1. g[o] = Visit(g[o - 1], o, pinned)
      BY <1>3, <1>4, <2>2, <2>4 DEF Swept
    <3>2. o \in Inner(b)
      <4>1. o # LastBlk
        BY <1>3, <2>2
      <4> QED
        BY <1>3, <2>2, <2>4, <4>1 DEF Inner
    <3>3. Reached(b, F, pinned, g[o], o)
      BY <2>3, <3>1, <3>2, VisitReaches
    <3> QED
      BY <2>1, <2>2, <3>3
  <2>5. CASE o \notin DOMAIN b
    <3>1. g[o] = g[o - 1]
      BY <1>3, <1>4, <2>2, <2>5 DEF Swept
    <3>2. Reached(b, F, pinned, g[o], o)
      BY <2>2, <2>3, <2>5, <3>1, NoneReaches
    <3> QED
      BY <2>1, <2>2, <3>2
  <2> QED
    BY <2>4, <2>5
<1>7. 0..Cells \subseteq S
  <2> HIDE DEF S
  <2> QED
    BY <1>3, <1>5, <1>6, StepByStep
<1>8. Reached(b, F, pinned, g[Cells + 1], Cells + 1)
  BY <1>3, <1>7
<1> QED
  BY <1>2, <1>3, <1>8

\* c is b with its blocks moved by to, as compaction around the pinned ones does.
Compacts(b, F, pinned, c, gain, to, G) ==
  /\ Sane(c, G, {})
  /\ \A x \in Used(b, F, {}) :
       /\ to[x] \in Used(c, G, {}) /\ c[to[x]].data = b[x].data /\ c[to[x]].fprev = b[x].fprev
       /\ c[to[x]].size = NewSize(b, to, x)
       /\ to[x] = IF x \in pinned THEN x ELSE Fill(b, F, to, x - 1)
  /\ \A y \in Used(c, G, {}) : \E x \in Used(b, F, {}) : to[x] = y
  /\ gain \in Nat /\ Total(c, G) = Total(b, F) + gain
  /\ pinned = {} => G = {} \/ \E h : G = {h}

\* apc_sma_defrag() leaves sound headers and moves what it may.
LEMMA CompactedSane ==
  ASSUME NEW b, NEW F, Sane(b, F, {}), NEW pinned
  PROVE  \E c, gain, to, G : /\ Compacted(b, pinned).b = c /\ Compacted(b, pinned).gain = gain
                             /\ Compacted(b, pinned).to = to
                             /\ Compacts(b, F, pinned, c, gain, to, G)
<1>1. PICK s : Reached(b, F, pinned, s, LastBlk - 1) /\ Compacted(b, pinned) = Final(s)
  BY CompactedIs
<1>2. PICK c, hole, gain, to, G : /\ s = State(c, hole, gain, to)
                                  /\ Stage(b, F, pinned, c, hole, gain, to, LastBlk - 1, G)
  BY <1>1 DEF Reached
<1>3. Cells \in Nat /\ LastBlk = Cells + 2 /\ LastBlk - 1 = Cells + 1 /\ Headers(b) /\ F \subseteq Inner(b)
  BY Constants DEF Sane, Parts
<1>4. \A x \in Inner(b) : x <= LastBlk - 1 /\ ~(x > LastBlk - 1)
  <2>1. Inner(b) \subseteq 2..(Cells + 1)
    BY <1>3, Offsets
  <2> QED
    BY <1>3, <2>1
<1>5. Limbo(F, hole, LastBlk - 1) = {hole} \ {0}
  BY <1>3, <1>4 DEF Limbo, Ahead
<1>6. /\ Sane(c, G, {hole} \ {0}) /\ \A x \in {hole} \ {0} : c[x].prev_size = 0
      /\ hole # 0 => Next_S(c, hole) > LastBlk - 1
  BY <1>2, <1>5 DEF Stage, Walk
<1>7. Placed(b, F, c, hole, gain, to, LastBlk - 1, G) /\ Slid(b, F, pinned, c, hole, to, LastBlk - 1)
      /\ (pinned = {} => G = {})
  BY <1>2 DEF Stage
<1>8. /\ \A x \in Used(b, F, {}) :
           /\ to[x] \in Used(c, G, {hole} \ {0})
           /\ c[to[x]].data = b[x].data /\ c[to[x]].fprev = b[x].fprev
      /\ \A y \in Used(c, G, {hole} \ {0}) : \E x \in Used(b, F, {}) : to[x] = y
      /\ gain \in Nat /\ Total(c, G \cup ({hole} \ {0})) = Total(b, F) + gain
  BY <1>5, <1>7 DEF Placed
<1>9. \A x \in Used(b, F, {}) :
           /\ c[to[x]].size = NewSize(b, to, x)
           /\ to[x] = IF x \in pinned THEN x ELSE Fill(b, F, to, x - 1)
  BY <1>4, <1>7 DEF Slid, Used
<1>10. CASE hole = 0
  <2>1. {hole} \ {0} = {} /\ G \cup {} = G
    BY <1>10
  <2>2. Compacts(b, F, pinned, c, gain, to, G)
    BY <1>6, <1>7, <1>8, <1>9, <2>1 DEF Compacts
  <2>3. Compacted(b, pinned) = s /\ s.b = c /\ s.gain = gain /\ s.to = to
    BY <1>1, <1>2, <1>10 DEF Final, State
  <2> QED
    BY <2>2, <2>3
<1>11. CASE hole # 0
  <2> DEFINE d == CloseHole(c, hole, LastBlk)
             J == G \cup {hole}
  <2>1. {hole} \ {0} = {hole} /\ {hole} \ {hole} = {} /\ J \cup {} = J
    BY <1>11
  <2>2. Sane(c, G, {hole}) /\ c[hole].prev_size = 0 /\ Next_S(c, hole) > LastBlk - 1
    BY <1>6, <1>11, <2>1
  <2>3. Headers(c) /\ Tiles(c) /\ hole \in Inner(c) /\ G \subseteq Inner(c)
    BY <2>2 DEF Sane, Parts
  <2>4. Next_S(c, hole) = LastBlk /\ LastBlk \notin G
    BY <1>3, <2>2, <2>3, NextIs DEF Inner
  <2>5. Closed(c, d, G, hole)
    BY <2>2, <2>4, HoleClosed
  <2>6. Sane(d, J, {})
    BY <2>1, <2>2, <2>4, <2>5, CloseSane
  <2>7. /\ DOMAIN d = DOMAIN c
        /\ \A x \in DOMAIN c : d[x].size = c[x].size /\ d[x].data = c[x].data
        /\ \A x \in Inner(c) \ J : d[x].fprev = c[x].fprev
    BY <2>5 DEF Closed, Inner
  <2> HIDE DEF d
  <2>8. Used(d, J, {}) = Used(c, G, {hole}) /\ Used(c, G, {hole}) \subseteq Inner(c) \ J
        /\ Inner(c) \subseteq DOMAIN c
    BY <2>7 DEF Used, Inner
  <2>9. Total(d, J) = Total(c, J)
    <3>1. J \in SUBSET Inner(c)
      BY <2>3
    <3>2. \A x \in J : d[x].size = c[x].size
      BY <2>7, <2>8, <3>1
    <3> HIDE DEF J
    <3> QED
      BY <2>3, <3>1, <3>2, TotalKept
  <2>10. pinned = {} => \E h : J = {h}
    BY <1>7
  <2>11. Total(d, J) = Total(b, F) + gain
    BY <1>8, <2>1, <2>9
  <2> HIDE DEF J
  <2>12. \A x \in Used(b, F, {}) :
           /\ to[x] \in Used(d, J, {}) /\ d[to[x]].data = b[x].data /\ d[to[x]].fprev = b[x].fprev
           /\ d[to[x]].size = NewSize(b, to, x)
    <3>1. \A x \in Used(b, F, {}) : to[x] \in Used(c, G, {hole})
      BY <1>8, <2>1
    <3>2. \A x \in Used(b, F, {}) : to[x] \in Inner(c) \ J /\ to[x] \in DOMAIN c
      BY <2>8, <3>1
    <3> QED
      BY <1>8, <1>9, <2>7, <2>8, <3>1, <3>2
  <2>13. \A y \in Used(d, J, {}) : \E x \in Used(b, F, {}) : to[x] = y
    BY <1>8, <2>1, <2>8
  <2>14. Compacts(b, F, pinned, d, gain, to, J)
    BY <1>8, <1>9, <2>6, <2>10, <2>11, <2>12, <2>13 DEF Compacts
  <2>15. Compacted(b, pinned).b = d /\ Compacted(b, pinned).gain = gain
         /\ Compacted(b, pinned).to = to
    <3>1. s.b = c /\ s.hole = hole /\ s.gain = gain /\ s.to = to
      BY <1>2 DEF State
    <3>2. Compacted(b, pinned) = [s EXCEPT !.b = d]
      BY <1>1, <1>11, <3>1 DEF Final, d
    <3> QED
      BY <1>2, <3>1, <3>2 DEF State
  <2> QED
    BY <2>14, <2>15
<1> QED
  BY <1>10, <1>11

-----------------------------------------------------------------------------
(* The free list as find_block() walks it                                    *)

Chain(b, at) ==
  at = [n \in 0..Cells |-> Follow(b, IF n = 0 THEN FirstBlk ELSE at[n - 1])]

\* Following the list is a recursion that goes up, so it is defined.
LEMMA ChainExists ==
  ASSUME NEW b
  PROVE  \E at : Chain(b, at)
<1> DEFINE Next1(g, n) == Follow(b, IF n = 0 THEN FirstBlk ELSE g[n - 1])
           Some(k) == \E g : g = [n \in 0..k |-> Next1(g, n)]
           S == {k \in 0..Cells : Some(k)}
<1>1. Cells \in Nat
  BY Constants
<1>2. 0 \in S
  <2> DEFINE g == [n \in 0..0 |-> Follow(b, FirstBlk)]
  <2>1. \A n \in 0..0 : Next1(g, n) = Follow(b, FirstBlk)
    OBVIOUS
  <2>2. g = [n \in 0..0 |-> Next1(g, n)]
    BY <2>1
  <2> HIDE DEF g
  <2> QED
    BY <1>1, <2>2
<1>3. ASSUME NEW k \in 1..Cells, k - 1 \in S PROVE k \in S
  <2>1. PICK g : g = [n \in 0..(k - 1) |-> Next1(g, n)]
    BY <1>3
  <2> DEFINE f == [n \in 0..k |-> Next1(g, n)]
  <2>2. \A n \in 0..(k - 1) : f[n] = g[n]
    <3>1. \A n \in 0..(k - 1) : n \in 0..k
      OBVIOUS
    <3>2. \A n \in 0..(k - 1) : f[n] = Next1(g, n)
      BY <3>1
    <3>3. \A n \in 0..(k - 1) : g[n] = Next1(g, n)
      BY <2>1
    <3> QED
      BY <3>2, <3>3
  <2>3. ASSUME NEW n \in 0..k PROVE Next1(f, n) = Next1(g, n)
    <3>1. CASE n = 0
      BY <3>1
    <3>2. CASE n # 0
      <4>1. n - 1 \in 0..(k - 1)
        BY <3>2
      <4>2. f[n - 1] = g[n - 1]
        BY <2>2, <4>1
      <4> HIDE DEF f
      <4> QED
        BY <4>2
    <3> QED
      BY <3>1, <3>2
  <2>4. f = [n \in 0..k |-> Next1(f, n)]
    BY <2>3
  <2> HIDE DEF f
  <2> QED
    BY <2>4
<1>4. 0..Cells \subseteq S
  <2> HIDE DEF S
  <2> QED
    BY <1>1, <1>2, <1>3, StepByStep
<1>5. Some(Cells)
  BY <1>1, <1>4
<1> QED
  BY <1>5 DEF Chain

\* Along the chain the ranks fall, until it is at the end of the list.
Falls(b, F, r, at) ==
  /\ at[0] = b[FirstBlk].fnext
  /\ \A n \in 0..Cells : at[n] \in F \cup {LastBlk}
  /\ \A n \in 1..Cells : IF at[n - 1] \in F THEN at[n] = b[at[n - 1]].fnext ELSE at[n] = LastBlk
  /\ \A j \in 0..Cells : \A i \in 0..(j - 1) :
       at[j] \in F => at[i] \in F /\ r[at[j]] < r[at[i]]

\* Each step along the list lowers the rank.
LEMMA ChainFalls ==
  ASSUME NEW b, NEW F, Sane(b, F, {}), NEW r, Linked(b, F, r), NEW at, Chain(b, at)
  PROVE  Falls(b, F, r, at)
<1>1. /\ Cells \in Nat /\ LastBlk \notin F /\ b[LastBlk].fnext = 0 /\ b[FirstBlk].fnext # 0
      /\ \A x \in F : b[x].fnext # 0 /\ b[x].fnext \in F \cup {LastBlk} /\ r[b[x].fnext] < r[x]
      /\ b[FirstBlk].fnext \in F \cup {LastBlk}
  <2>1. LastBlk \notin F /\ b[LastBlk].fnext = 0 /\ Headers(b) /\ F \subseteq Inner(b)
    BY DEF Sane, Parts, Inner
  <2>2. \A x \in F \cup {FirstBlk} : b[x].fnext \in F \cup {LastBlk} /\ r[b[x].fnext] < r[x]
    BY DEF Linked
  <2>3. \A x \in F \cup {LastBlk} : x # 0
    <3>1. Inner(b) \subseteq 2..(Cells + 1) /\ LastBlk = Cells + 2 /\ Cells \in Nat
      BY <2>1, Offsets, Constants
    <3>2. \A x \in Inner(b) : x # 0
      BY <3>1
    <3>3. LastBlk # 0
      BY <3>1
    <3> QED
      BY <2>1, <3>2, <3>3
  <2>4. Cells \in Nat
    BY Constants
  <2> QED
    BY <2>1, <2>2, <2>3, <2>4
<1>2. \A n \in 0..Cells : at[n] = Follow(b, IF n = 0 THEN FirstBlk ELSE at[n - 1])
  BY DEF Chain
<1>3. at[0] = b[FirstBlk].fnext
  <2>1. 0 \in 0..Cells
    BY <1>1
  <2>2. at[0] = Follow(b, FirstBlk)
    BY <1>2, <2>1
  <2> QED
    BY <1>1, <2>2 DEF Follow
<1> DEFINE S == {n \in 0..Cells : at[n] \in F \cup {LastBlk}}
<1>4. ASSUME NEW n \in 1..Cells, at[n - 1] \in F \cup {LastBlk}
      PROVE  IF at[n - 1] \in F THEN at[n] = b[at[n - 1]].fnext ELSE at[n] = LastBlk
  <2>1. n \in 0..Cells /\ n # 0
    OBVIOUS
  <2>2. at[n] = Follow(b, at[n - 1])
    BY <1>2, <2>1
  <2> QED
    BY <1>1, <1>4, <2>2 DEF Follow
<1>5. 0..Cells \subseteq S
  <2>1. 0 \in S
    BY <1>1, <1>3
  <2>2. ASSUME NEW n \in 1..Cells, n - 1 \in S PROVE n \in S
    <3>1. at[n - 1] \in F \cup {LastBlk} /\ n \in 0..Cells
      BY <2>2
    <3> QED
      BY <1>1, <1>4, <3>1
  <2> HIDE DEF S
  <2> QED
    BY <1>1, <2>1, <2>2, StepByStep
<1>6. \A n \in 0..Cells : at[n] \in F \cup {LastBlk}
  BY <1>5
<1>7. \A n \in 1..Cells : IF at[n - 1] \in F THEN at[n] = b[at[n - 1]].fnext ELSE at[n] = LastBlk
  <2>1. \A n \in 1..Cells : n - 1 \in 0..Cells
    BY <1>1
  <2> QED
    BY <1>4, <1>6, <2>1
<1> DEFINE Low(j) == \A i \in 0..(j - 1) : at[j] \in F => at[i] \in F /\ r[at[j]] < r[at[i]]
           T == {j \in 0..Cells : Low(j)}
<1>8. 0..Cells \subseteq T
  <2>1. 0 \in T
    BY <1>1
  <2>2. ASSUME NEW j \in 1..Cells, j - 1 \in T PROVE j \in T
    <3>1. SUFFICES ASSUME NEW i \in 0..(j - 1), at[j] \in F
                   PROVE  at[i] \in F /\ r[at[j]] < r[at[i]]
      OBVIOUS
    <3>2. at[j - 1] \in F /\ at[j] = b[at[j - 1]].fnext /\ r[at[j]] < r[at[j - 1]]
      BY <1>1, <1>7, <3>1
    <3>3. CASE i = j - 1
      BY <3>2, <3>3
    <3>4. CASE i # j - 1
      <4>1. i \in 0..((j - 1) - 1)
        BY <3>4
      <4>2. at[i] \in F /\ r[at[j - 1]] < r[at[i]]
        BY <2>2, <3>2, <4>1
      <4>3. r[at[i]] \in Nat /\ r[at[j]] \in Nat /\ r[at[j - 1]] \in Nat
        BY <3>1, <3>2, <4>2 DEF Linked
      <4> QED
        BY <3>2, <4>2, <4>3
    <3> QED
      BY <3>3, <3>4
  <2> HIDE DEF T
  <2> QED
    BY <1>1, <2>1, <2>2, StepByStep
<1>9. \A j \in 0..Cells : Low(j)
  BY <1>8
<1> QED
  BY <1>3, <1>6, <1>7, <1>9 DEF Falls

\* A list of different blocks is not longer than the segment.
LEMMA ChainEnds ==
  ASSUME NEW b, NEW F, Sane(b, F, {}), NEW r, Linked(b, F, r), NEW at, Falls(b, F, r, at)
  PROVE  \E n \in 0..Cells : at[n] = LastBlk
<1> SUFFICES ASSUME \A n \in 0..Cells : at[n] # LastBlk PROVE FALSE
  OBVIOUS
<1> DEFINE f == [n \in 0..Cells |-> at[n]]
<1>1. f \in [0..Cells -> F]
  BY DEF Falls
<1>2. Cells \in Nat /\ F \subseteq 2..(Cells + 1)
  <2>1. Cells \in Nat /\ Headers(b) /\ F \subseteq Inner(b)
    BY Constants DEF Sane, Parts
  <2> QED
    BY <2>1, Offsets
<1>3. IsFiniteSet(0..Cells) /\ Cardinality(0..Cells) = Cells + 1
  <2>1. 0 \in Int /\ Cells \in Int /\ ~(0 > Cells)
    BY <1>2
  <2>2. Cardinality(0..Cells) = Cells - 0 + 1
    BY <2>1, FS_Interval
  <2> QED
    BY <1>2, <2>1, <2>2, FS_Interval
<1>4. IsFiniteSet(2..(Cells + 1)) /\ Cardinality(2..(Cells + 1)) = Cells
  <2>1. 2 \in Int /\ Cells + 1 \in Int
    BY <1>2
  <2>2. Cardinality(2..(Cells + 1)) = IF 2 > Cells + 1 THEN 0 ELSE (Cells + 1) - 2 + 1
    BY <2>1, FS_Interval
  <2>3. Cells # 0
    BY Constants
  <2> QED
    BY <1>2, <2>1, <2>2, <2>3, FS_Interval
<1>5. IsFiniteSet(F) /\ Cardinality(F) <= Cells /\ Cardinality(F) \in Nat
  BY <1>2, <1>4, FS_Subset, FS_CardinalityType
<1> HIDE DEF f
<1>6. PICK i \in 0..Cells, j \in 0..Cells : i # j /\ f[i] = f[j]
  <2>1. Cardinality(F) < Cardinality(0..Cells)
    BY <1>2, <1>3, <1>5
  <2> QED
    BY <1>1, <1>3, <1>5, <2>1, FS_PigeonHole
<1>7. at[i] = at[j] /\ at[i] \in F /\ r[at[i]] \in Nat
  BY <1>1, <1>6 DEF f, Linked
<1>8. i \in 0..(j - 1) \/ j \in 0..(i - 1)
  BY <1>6
<1>9. r[at[i]] < r[at[j]] \/ r[at[j]] < r[at[i]]
  BY <1>7, <1>8 DEF Falls
<1> QED
  BY <1>7, <1>9

Path(b, s) ==
  \A i \in 1..(Len(s) - 1) : b[s[i]].fnext = s[i + 1] /\ b[s[i + 1]].fprev = s[i]

Lists(b, F, l) ==
  l \in Seq(F) /\ ToSet(l) = F /\ Path(b, <<FirstBlk>> \o l \o <<LastBlk>>)

\* The walk along the list meets each free block, and no other.
LEMMA FreeListIs ==
  ASSUME NEW b, NEW F, Sane(b, F, {})
  PROVE  Lists(b, F, FreeList(b))
<1>1. PICK r : Linked(b, F, r)
  BY DEF Sane
<1> DEFINE at == CHOOSE at : Chain(b, at)
           Ends == {n \in 0..Cells : b[at[n]].fnext = 0}
           m == Min(Ends)
           l == [i \in 1..m |-> at[i - 1]]
<1>2. FreeList(b) = l
  BY DEF FreeList, Chain
<1>3. Chain(b, at)
  BY ChainExists
<1> HIDE DEF at
<1>4. Falls(b, F, r, at)
  BY <1>1, <1>3, ChainFalls
<1>5. /\ Cells \in Nat /\ LastBlk \notin F /\ FirstBlk \notin F /\ FirstBlk # LastBlk
      /\ \A x \in F : b[x].fnext # 0 /\ b[LastBlk].fnext = 0
  <2>1. LastBlk \notin F /\ FirstBlk \notin F
    BY DEF Sane, Parts, Inner
  <2>2. b[LastBlk].fnext = 0 /\ \A x \in F : b[x].fnext # 0
    BY FreeHasNext
  <2> QED
    BY <2>1, <2>2, Constants
<1>6. b[LastBlk].fnext = 0
  BY DEF Sane
<1>7. Ends = {n \in 0..Cells : at[n] = LastBlk}
  BY <1>4, <1>5, <1>6 DEF Falls
<1>8. Ends # {} /\ Ends \in SUBSET Nat
  BY <1>1, <1>4, <1>5, <1>7, ChainEnds
<1>9. m \in Ends /\ \A n \in Ends : m <= n
  BY <1>8, MinInSet
<1>10. m \in 0..Cells /\ at[m] = LastBlk /\ \A n \in 0..(m - 1) : at[n] \in F
  <2>1. m \in 0..Cells /\ at[m] = LastBlk
    BY <1>7, <1>9
  <2>2. ASSUME NEW n \in 0..(m - 1) PROVE at[n] \in F
    <3>1. n \in 0..Cells /\ ~(m <= n)
      BY <1>5, <2>1
    <3>2. n \notin Ends
      BY <1>9, <3>1
    <3> QED
      BY <1>4, <1>7, <3>1, <3>2 DEF Falls
  <2> QED
    BY <2>1, <2>2
<1> HIDE DEF m, Ends
<1>11. m \in Nat /\ l \in [1..m -> F] /\ \A i \in 1..m : l[i] = at[i - 1]
  BY <1>5, <1>10
<1> HIDE DEF l
<1>12. l \in Seq(F) /\ Len(l) = m /\ DOMAIN l = 1..m
  BY <1>11
<1> DEFINE s == <<FirstBlk>> \o l \o <<LastBlk>>
<1>13. /\ Len(s) = m + 2 /\ s[1] = FirstBlk /\ \A i \in 2..(m + 2) : s[i] = at[i - 2]
  <2>1. FirstBlk \in F \cup {FirstBlk, LastBlk} /\ LastBlk \in F \cup {FirstBlk, LastBlk}
        /\ l \in Seq(F \cup {FirstBlk, LastBlk})
    BY <1>11, <1>12
  <2>2. /\ Len(s) = m + 2 /\ s[1] = FirstBlk /\ s[m + 2] = LastBlk
        /\ \A i \in 2..(m + 1) : s[i] = l[i - 1]
    BY <1>11, <1>12, <2>1
  <2> HIDE DEF s
  <2>3. ASSUME NEW i \in 2..(m + 2) PROVE s[i] = at[i - 2]
    <3>1. CASE i = m + 2
      <4>1. i - 2 = m
        BY <1>11, <3>1
      <4> QED
        BY <1>10, <2>2, <3>1, <4>1
    <3>2. CASE i # m + 2
      <4>1. i \in 2..(m + 1) /\ i - 1 \in 1..m /\ (i - 1) - 1 = i - 2
        BY <1>11, <3>2
      <4> QED
        BY <1>11, <2>2, <4>1
    <3> QED
      BY <3>1, <3>2
  <2> QED
    BY <2>2, <2>3
<1> HIDE DEF s
<1>14. Path(b, s)
  <2>1. ASSUME NEW i \in 1..(Len(s) - 1)
        PROVE  s[i] \in F \cup {FirstBlk} /\ b[s[i]].fnext = s[i + 1]
    <3>1. i \in 1..(m + 1) /\ i + 1 \in 2..(m + 2) /\ (i + 1) - 2 = i - 1
      BY <1>11, <1>13
    <3>2. s[i + 1] = at[i - 1]
      BY <1>13, <3>1
    <3>3. CASE i = 1
      BY <1>4, <1>13, <3>2, <3>3 DEF Falls
    <3>4. CASE i # 1
      <4>1. i \in 2..(m + 2) /\ i - 2 \in 0..(m - 1) /\ i - 1 \in 1..Cells /\ (i - 1) - 1 = i - 2
        BY <1>5, <1>10, <3>1, <3>4
      <4>2. s[i] = at[i - 2] /\ at[i - 2] \in F
        BY <1>10, <1>13, <4>1
      <4>3. at[i - 1] = b[at[i - 2]].fnext
        BY <1>4, <4>1, <4>2 DEF Falls
      <4> QED
        BY <3>2, <4>2, <4>3
    <3> QED
      BY <3>3, <3>4
  <2>2. ASSUME NEW i \in 1..(Len(s) - 1) PROVE b[s[i + 1]].fprev = s[i]
    BY <1>1, <2>1, <2>2 DEF Linked
  <2> QED
    BY <2>1, <2>2 DEF Path
<1>15. ToSet(l) = F
  <2>1. ToSet(l) \subseteq F
    BY <1>11, <1>12 DEF ToSet
  <2> DEFINE Missed == {x \in F : x \notin ToSet(l)}
             Ranks == {r[x] : x \in Missed}
  <2>2. Missed = {}
    <3> SUFFICES ASSUME Missed # {} PROVE FALSE
      OBVIOUS
    <3>1. r[FirstBlk] \in Nat /\ \A x \in F : r[x] \in Nat /\ r[x] < r[FirstBlk]
      BY <1>1 DEF Linked
    <3>2. Ranks \in SUBSET (0..r[FirstBlk]) /\ Ranks # {}
      BY <3>1
    <3>3. PICK k \in Ranks : \A n \in Ranks : n <= k
      <4> HIDE DEF Ranks
      <4> QED
        BY <3>1, <3>2, GreatestElement
    <3>4. PICK x \in Missed : r[x] = k
      BY <3>3
    <3>5. \A y \in Missed : r[y] <= r[x]
      BY <3>3, <3>4
    <3>6. x \in F /\ x \notin ToSet(l) /\ x # LastBlk
      BY <1>5
    <3>7. PICK p \in F \cup {FirstBlk} : b[p].fnext = x
      BY <1>1, <3>6 DEF Linked
    <3>8. r[x] < r[p]
      BY <1>1, <3>7 DEF Linked
    <3>9. p \notin Missed
      BY <3>1, <3>5, <3>6, <3>8
    <3>10. \A n \in 0..(m - 1) : at[n] \in ToSet(l)
      <4> SUFFICES ASSUME NEW n \in 0..(m - 1) PROVE at[n] \in ToSet(l)
        OBVIOUS
      <4>1. n + 1 \in 1..m /\ (n + 1) - 1 = n
        BY <1>11
      <4> QED
        BY <1>11, <1>12, <4>1 DEF ToSet
    <3>11. CASE p = FirstBlk
      <4>1. at[0] = x
        BY <1>4, <3>7, <3>11 DEF Falls
      <4>2. m # 0
        BY <1>10, <3>6, <4>1
      <4>3. 0 \in 0..(m - 1)
        BY <1>11, <4>2
      <4> QED
        BY <3>6, <3>10, <4>1, <4>3
    <3>12. CASE p \in F
      <4>1. PICK i \in 1..m : at[i - 1] = p
        BY <1>11, <1>12, <3>9, <3>12 DEF ToSet
      <4>2. i \in 1..Cells
        BY <1>5, <1>10
      <4>3. at[i] = x
        BY <1>4, <3>7, <3>12, <4>1, <4>2 DEF Falls
      <4>4. i # m
        BY <1>10, <3>6, <4>3
      <4>5. i \in 0..(m - 1)
        BY <1>11, <4>4
      <4> QED
        BY <3>6, <3>10, <4>3, <4>5
    <3> QED
      BY <3>11, <3>12
  <2> QED
    BY <2>1, <2>2
<1> QED
  BY <1>2, <1>12, <1>14, <1>15 DEF Lists, s

\* The search looks at blocks of the list that fit, and finds one if there is any.
LEMMA CandidatesFit ==
  ASSUME NEW b, NEW F, Sane(b, F, {}), NEW n \in Nat
  PROVE  /\ Candidates(b, n) \subseteq {o \in F : b[o].size >= n}
         /\ {o \in F : b[o].size >= n} # {} => Candidates(b, n) # {}
<1> DEFINE list == FreeList(b)
           fits == {i \in DOMAIN list : b[list[i]].size >= n}
           near == {j \in fits : j <= Min(fits) + BestFitLimit}
<1>1. Lists(b, F, list)
  BY FreeListIs
<1>2. Candidates(b, n) = {list[i] : i \in near}
  BY DEF Candidates
<1> HIDE DEF list
<1>3. list \in Seq(F) /\ ToSet(list) = F /\ DOMAIN list \subseteq Nat
  BY <1>1 DEF Lists
<1>4. \A i \in DOMAIN list : list[i] \in F
  BY <1>3
<1>5. Candidates(b, n) \subseteq {o \in F : b[o].size >= n}
  BY <1>2, <1>4
<1>6. ASSUME {o \in F : b[o].size >= n} # {} PROVE Candidates(b, n) # {}
  <2>1. PICK o \in F : b[o].size >= n
    BY <1>6
  <2>2. PICK i \in DOMAIN list : list[i] = o
    BY <1>3 DEF ToSet
  <2>3. fits # {} /\ fits \in SUBSET Nat
    BY <1>3, <2>1, <2>2
  <2> HIDE DEF fits
  <2>4. Min(fits) \in fits /\ Min(fits) \in Nat
    BY <2>3, MinInSet
  <2>5. Min(fits) \in near
    BY <2>4, Constants
  <2> HIDE DEF near
  <2> QED
    BY <1>2, <2>5
<1> QED
  BY <1>5, <1>6

\* What find_block() returns is free and large enough.
LEMMA FindBlockFits ==
  ASSUME NEW b, NEW F, Sane(b, F, {}), NEW n \in Nat, Candidates(b, n) # {}
  PROVE  FindBlock(b, n) \in F /\ b[FindBlock(b, n)].size >= n
<1> DEFINE list == FreeList(b)
           C == Candidates(b, n)
           Rank(o) == CHOOSE i \in DOMAIN list : list[i] = o
           Best(o) == \A x \in C :
             b[o].size < b[x].size \/ (b[o].size = b[x].size /\ Rank(o) <= Rank(x))
<1>1. FindBlock(b, n) = CHOOSE o \in C : Best(o)
  BY DEF FindBlock
<1>2. C \subseteq {o \in F : b[o].size >= n}
  BY CandidatesFit
<1>3. Lists(b, F, list)
  BY FreeListIs
<1>4. list \in Seq(F) /\ ToSet(list) = F /\ DOMAIN list \subseteq Nat
  BY <1>3 DEF Lists
<1>5. \A o \in C : b[o].size \in Nat
  <2>1. Headers(b) /\ F \subseteq Inner(b) /\ Inner(b) \subseteq DOMAIN b
    BY DEF Sane, Parts, Inner
  <2>2. \A o \in DOMAIN b : b[o].size \in Nat
    BY <2>1, Offsets
  <2> QED
    BY <1>2, <2>1, <2>2
<1> HIDE DEF list, C
<1>6. \A o \in C : Rank(o) \in Nat
  <2> SUFFICES ASSUME NEW o \in C PROVE Rank(o) \in Nat
    OBVIOUS
  <2>1. \E i \in DOMAIN list : list[i] = o
    BY <1>2, <1>4 DEF ToSet
  <2> QED
    BY <1>4, <2>1
<1> HIDE DEF Rank
<1> DEFINE Lengths == {b[o].size : o \in C}
<1>7. Lengths # {} /\ Lengths \in SUBSET Nat
  BY <1>5 DEF C
<1>8. PICK k \in Lengths : \A j \in Lengths : k <= j
  <2> HIDE DEF Lengths
  <2> QED
    BY <1>7, LeastElement
<1> DEFINE Ranks == {Rank(o) : o \in {x \in C : b[x].size = k}}
<1>9. Ranks # {} /\ Ranks \in SUBSET Nat
  BY <1>6, <1>8
<1>10. PICK q \in Ranks : \A j \in Ranks : q <= j
  <2> HIDE DEF Ranks
  <2> QED
    BY <1>9, LeastElement
<1>11. PICK o \in C : b[o].size = k /\ Rank(o) = q
  BY <1>10
<1>12. ASSUME NEW x \in C
       PROVE  b[o].size < b[x].size \/ (b[o].size = b[x].size /\ Rank(o) <= Rank(x))
  <2>1. k <= b[x].size /\ b[x].size \in Nat /\ k \in Nat
    BY <1>5, <1>7, <1>8
  <2>2. b[x].size = k => q <= Rank(x)
    BY <1>10
  <2> QED
    BY <1>11, <2>1, <2>2
<1>13. Best(o)
  BY <1>12
<1> HIDE DEF Best
<1>14. FindBlock(b, n) \in C
  BY <1>1, <1>11, <1>13
<1> QED
  BY <1>2, <1>14

-----------------------------------------------------------------------------
(* The inductive invariant: the headers are sound, avail is what is free, and *)
(* a client holds what is marked as its own, and nothing else is allocated.   *)

FreeOf(b) == {o \in Inner(b) : b[o].fnext # 0}
UsedOf(b) == {o \in Inner(b) : b[o].fnext = 0}

Clients(b, U, h) ==
  /\ h \in [Id -> Offset \cup {0}]
  /\ \A o \in U : h[b[o].data] = o
  /\ \A i \in Id : h[i] # 0 => h[i] \in U /\ b[h[i]].data = i

Sound(b, F, a, h) == Sane(b, F, {}) /\ a = Total(b, F) /\ Clients(b, Used(b, F, {}), h)

Inv == Sound(blk, FreeBlocks, avail, held)

\* Which blocks are free can be told by their headers.
LEMMA FreeIs ==
  ASSUME NEW b, NEW F, Sane(b, F, {})
  PROVE  FreeOf(b) = F /\ UsedOf(b) = Used(b, F, {})
<1>1. F \subseteq Inner(b)
  BY DEF Sane, Parts
<1>2. /\ \A o \in F : b[o].fnext # 0
      /\ \A o \in Used(b, F, {}) \cup {LastBlk} : b[o].fnext = 0
  BY FreeHasNext
<1>3. Used(b, F, {}) = Inner(b) \ F
  BY DEF Used
<1> QED
  BY <1>1, <1>2, <1>3 DEF FreeOf, UsedOf

\* Headers that are sound show what is free.
LEMMA SoundNow ==
  ASSUME NEW F, Sound(blk, F, avail, held)
  PROVE  Inv /\ FreeBlocks = F /\ Allocated = Used(blk, F, {})
<1>1. FreeOf(blk) = F /\ UsedOf(blk) = Used(blk, F, {})
  BY FreeIs DEF Sound
<1>2. FreeBlocks = FreeOf(blk) /\ Allocated = UsedOf(blk)
  BY DEF FreeBlocks, Allocated, FreeOf, UsedOf, Inner
<1> QED
  BY <1>1, <1>2 DEF Inv

\* So they do after a step.
LEMMA SoundNext ==
  ASSUME NEW F, Sound(blk', F, avail', held')
  PROVE  Inv' /\ FreeBlocks' = F /\ Allocated' = Used(blk', F, {})
<1>1. FreeOf(blk') = F /\ UsedOf(blk') = Used(blk', F, {})
  BY FreeIs DEF Sound
<1>2. FreeBlocks' = FreeOf(blk') /\ Allocated' = UsedOf(blk')
  BY DEF FreeBlocks, Allocated, FreeOf, UsedOf, Inner
<1> QED
  BY <1>1, <1>2 DEF Inv

\* A new segment is one free block.
LEMMA InitSane ==
  ASSUME Init
  PROVE  Sane(blk, {Start}, {}) /\ Inner(blk) = {Start} /\ blk[Start].size = Cells
<1>1. /\ FirstBlk # Start /\ Start # LastBlk /\ FirstBlk # LastBlk /\ Cells \in Nat /\ Cells > 0
      /\ FirstBlk \in Offset /\ Start \in Offset /\ LastBlk \in Offset
      /\ FirstBlk \in 0..LastBlk /\ Start \in 0..LastBlk /\ 0 \in 0..LastBlk
      /\ 0 \in 0..Cells /\ Cells \in 0..Cells /\ LastBlk = Start + Cells
  BY Constants
<1>2. /\ DOMAIN blk = {FirstBlk, Start, LastBlk}
      /\ blk[FirstBlk] = [size |-> 0, prev_size |-> 0, fnext |-> Start, fprev |-> 0, data |-> 0]
      /\ blk[Start] = [size |-> Cells, prev_size |-> 0, fnext |-> LastBlk,
                       fprev |-> FirstBlk, data |-> 0]
      /\ blk[LastBlk] = [size |-> 0, prev_size |-> Cells, fnext |-> 0, fprev |-> Start, data |-> 0]
  BY <1>1 DEF Init
<1>3. Inner(blk) = {Start}
  BY <1>1, <1>2 DEF Inner
<1>4. blk[FirstBlk] \in Block /\ blk[Start] \in Block /\ blk[LastBlk] \in Block
  BY <1>1, <1>2 DEF Block
<1>5. Headers(blk)
  BY <1>1, <1>2, <1>4 DEF Headers
<1>6. Next_S(blk, Start) = LastBlk
  BY <1>1, <1>2 DEF Next_S
<1>7. Tiles(blk)
  <2>1. \A x \in DOMAIN blk : x > Start => LastBlk <= x
    BY <1>2, Constants
  <2> QED
    BY <1>1, <1>2, <1>3, <1>6, <2>1 DEF Tiles
<1> DEFINE r == [x \in {Start, FirstBlk, LastBlk} |->
                   IF x = FirstBlk THEN 2 ELSE IF x = Start THEN 1 ELSE 0]
<1>8. Linked(blk, {Start}, r)
  <2>1. /\ {Start} \cup {FirstBlk, LastBlk} = {Start, FirstBlk, LastBlk}
        /\ r \in [{Start, FirstBlk, LastBlk} -> Nat]
        /\ r[FirstBlk] = 2 /\ r[Start] = 1 /\ r[LastBlk] = 0
    BY <1>1
  <2> HIDE DEF r
  <2>2. /\ blk[FirstBlk].fnext = Start /\ blk[Start].fnext = LastBlk
        /\ blk[Start].fprev = FirstBlk /\ blk[LastBlk].fprev = Start
    BY <1>2
  <2> QED
    BY <2>1, <2>2 DEF Linked
<1>9. Parts(blk, {Start}, {}) /\ Used(blk, {Start}, {}) = {}
  BY <1>3 DEF Parts, Used
<1>10. Tags(blk, {Start}, {})
  BY <1>1, <1>2, <1>3, <1>6 DEF Tags
<1>11. Busy(blk, Used(blk, {Start}, {}))
  BY <1>9 DEF Busy
<1>12. blk[LastBlk].fnext = 0 /\ blk[Start].size = Cells
  BY <1>2
<1>13. Sane(blk, {Start}, {})
  <2> HIDE DEF r
  <2> QED
    BY <1>5, <1>7, <1>8, <1>9, <1>10, <1>11, <1>12 DEF Sane
<1> QED
  BY <1>3, <1>12, <1>13

\* A new segment is sound.
LEMMA InitInv ==
  ASSUME Init
  PROVE  Inv
<1>1. Sane(blk, {Start}, {}) /\ Inner(blk) = {Start} /\ blk[Start].size = Cells
  BY InitSane
<1>2. Headers(blk) /\ Cells \in Nat
  BY <1>1, Constants DEF Sane
<1>3. Total(blk, {Start}) = Cells
  <2>1. {Start} \in SUBSET Inner(blk) /\ {} \in SUBSET Inner(blk) /\ {Start} \ {Start} = {}
    BY <1>1
  <2>2. Total(blk, {Start}) = blk[Start].size + Total(blk, {Start} \ {Start})
    BY <1>2, <2>1, TotalOf
  <2>3. Sized(blk, {})
    BY <1>2, <2>1, TotalOf
  <2>4. Total(blk, {}) = 0
    BY <2>3, TotalTakes
  <2> QED
    BY <1>1, <1>2, <2>1, <2>2, <2>4
<1>4. avail = Total(blk, {Start})
  BY <1>3 DEF Init
<1>5. Clients(blk, Used(blk, {Start}, {}), held)
  <2>1. Used(blk, {Start}, {}) = {}
    BY <1>1 DEF Used
  <2>2. held \in [Id -> Offset \cup {0}] /\ \A i \in Id : held[i] = 0
    BY DEF Init
  <2> QED
    BY <2>1, <2>2 DEF Clients
<1>6. Sound(blk, {Start}, avail, held)
  BY <1>1, <1>4, <1>5 DEF Sound
<1> QED
  BY <1>6, SoundNow

\* apc_sma_free() keeps the invariant.
LEMMA FreeStep ==
  ASSUME Inv, NEW i \in Id, Free(i)
  PROVE  /\ held[i] \in Used(blk, FreeBlocks, {}) /\ blk[held[i]].data = i
         /\ \E G : Took(blk, FreeBlocks, blk', G, held[i]) /\ Sound(blk', G, avail', held')
         /\ Inv'
<1> DEFINE F == FreeBlocks
           U == Used(blk, F, {})
           o == held[i]
<1>1. Sane(blk, F, {}) /\ avail = Total(blk, F) /\ Clients(blk, U, held)
  BY DEF Inv, Sound
<1>2. o # 0 /\ blk' = Deallocate(blk, o) /\ avail' = avail + blk[o].size
      /\ held' = [held EXCEPT ![i] = 0]
  BY DEF Free
<1>3. o \in U /\ blk[o].data = i
  BY <1>1, <1>2 DEF Clients
<1> HIDE DEF F, o
<1>4. PICK G : Took(blk, F, blk', G, o)
  <2>1. \E G : Took(blk, F, Deallocate(blk, o), G, o)
    BY <1>1, <1>3, DeallocateSane
  <2> QED
    BY <1>2, <2>1
<1>5. /\ Sane(blk', G, {}) /\ Used(blk', G, {}) = U \ {o}
      /\ \A x \in U \ {o} : blk'[x].data = blk[x].data
      /\ avail' = Total(blk', G)
  BY <1>1, <1>2, <1>4 DEF Took, Alike
<1>6. Clients(blk', U \ {o}, held')
  <2>1. /\ held \in [Id -> Offset \cup {0}] /\ \A x \in U : held[blk[x].data] = x
        /\ \A j \in Id : held[j] # 0 => held[j] \in U /\ blk[held[j]].data = j
    BY <1>1 DEF Clients
  <2>2. /\ held' \in [Id -> Offset \cup {0}] /\ held'[i] = 0
        /\ \A j \in Id \ {i} : held'[j] = held[j]
    BY <1>2, <2>1
  <2>3. \A x \in U : blk[x].data \in Id
    BY <1>1 DEF Sane, Busy
  <2>4. ASSUME NEW x \in U \ {o} PROVE held'[blk'[x].data] = x
    <3>1. blk'[x].data = blk[x].data /\ held[blk[x].data] = x /\ blk[x].data \in Id
      BY <1>5, <2>1, <2>3
    <3>2. blk[x].data # i
      BY <2>4, <3>1 DEF o
    <3> QED
      BY <2>2, <3>1, <3>2
  <2>5. ASSUME NEW j \in Id, held'[j] # 0
        PROVE  held'[j] \in U \ {o} /\ blk'[held'[j]].data = j
    <3>1. j # i /\ held'[j] = held[j]
      BY <2>2, <2>5
    <3>2. held[j] \in U /\ blk[held[j]].data = j
      BY <2>1, <2>5, <3>1
    <3>3. held[j] # o
      BY <1>3, <3>1, <3>2
    <3> QED
      BY <1>5, <3>1, <3>2, <3>3
  <2> QED
    BY <2>2, <2>4, <2>5 DEF Clients
<1>7. Sound(blk', G, avail', held')
  BY <1>5, <1>6 DEF Sound
<1>8. Inv'
  BY <1>7, SoundNext
<1> QED
  BY <1>3, <1>4, <1>7, <1>8 DEF F, o

\* apc_sma_malloc() keeps the invariant.
LEMMA MallocStep ==
  ASSUME Inv, NEW i \in Id, NEW n \in Sizes, Malloc(i, n)
  PROVE  /\ held[i] = 0
         /\ \E o, G : /\ o \in FreeBlocks /\ blk[o].size >= n
                      /\ Gave(blk, FreeBlocks, blk', G, o, n, i)
                      /\ Sound(blk', G, avail', held')
         /\ Inv'
<1> DEFINE F == FreeBlocks
           U == Used(blk, F, {})
<1>1. Sane(blk, F, {}) /\ avail = Total(blk, F) /\ Clients(blk, U, held) /\ n \in Nat
  BY Constants DEF Inv, Sound
<1>2. PICK o : o = FindBlock(blk, n)
  OBVIOUS
<1>3. /\ held[i] = 0 /\ Candidates(blk, n) # {} /\ blk' = Allocate(blk, o, n, i)
      /\ avail' = avail - blk'[o].size /\ held' = [held EXCEPT ![i] = o]
  BY <1>2 DEF Malloc
<1>4. o \in F /\ blk[o].size >= n
  BY <1>1, <1>2, <1>3, FindBlockFits
<1> HIDE DEF F
<1>5. PICK G : Gave(blk, F, blk', G, o, n, i)
  <2>1. \E G : Gave(blk, F, Allocate(blk, o, n, i), G, o, n, i)
    BY <1>1, <1>4, AllocateSane
  <2> QED
    BY <1>3, <2>1
<1>6. /\ Sane(blk', G, {}) /\ Used(blk', G, {}) = U \cup {o} /\ blk'[o].data = i
      /\ \A x \in U : blk'[x].data = blk[x].data
      /\ avail' = Total(blk', G)
  BY <1>1, <1>3, <1>5 DEF Gave, Alike
<1>7. o \notin U /\ o \in Offset
  <2>1. o \in Inner(blk) /\ Headers(blk)
    BY <1>1, <1>4 DEF Sane, Parts
  <2> QED
    BY <1>4, <2>1 DEF Used, Inner, Headers
<1>8. Clients(blk', U \cup {o}, held')
  <2>1. /\ held \in [Id -> Offset \cup {0}] /\ \A x \in U : held[blk[x].data] = x
        /\ \A j \in Id : held[j] # 0 => held[j] \in U /\ blk[held[j]].data = j
    BY <1>1 DEF Clients
  <2>2. /\ held' \in [Id -> Offset \cup {0}] /\ held'[i] = o
        /\ \A j \in Id \ {i} : held'[j] = held[j]
    BY <1>3, <1>7, <2>1
  <2>3. \A x \in U : blk[x].data \in Id /\ x # 0
    <3>1. Headers(blk) /\ Cells \in Nat
      BY <1>1, Constants DEF Sane
    <3>2. Inner(blk) \subseteq 2..(Cells + 1)
      BY <3>1, Offsets
    <3>3. \A x \in U : x # 0
      BY <3>1, <3>2 DEF Used
    <3> QED
      BY <1>1, <3>3 DEF Sane, Busy
  <2>4. ASSUME NEW x \in U \cup {o} PROVE held'[blk'[x].data] = x
    <3>1. CASE x = o
      BY <1>6, <2>2, <3>1
    <3>2. CASE x # o
      <4>1. blk'[x].data = blk[x].data /\ held[blk[x].data] = x /\ blk[x].data \in Id /\ x # 0
        BY <1>6, <2>1, <2>3, <3>2
      <4>2. blk[x].data # i
        BY <1>3, <4>1
      <4> QED
        BY <2>2, <4>1, <4>2
    <3> QED
      BY <3>1, <3>2
  <2>5. ASSUME NEW j \in Id, held'[j] # 0
        PROVE  held'[j] \in U \cup {o} /\ blk'[held'[j]].data = j
    <3>1. CASE j = i
      BY <1>6, <2>2, <3>1
    <3>2. CASE j # i
      BY <1>6, <2>1, <2>2, <2>5, <3>2
    <3> QED
      BY <3>1, <3>2
  <2> QED
    BY <2>2, <2>4, <2>5 DEF Clients
<1>9. Sound(blk', G, avail', held')
  BY <1>6, <1>8 DEF Sound
<1>10. Inv'
  BY <1>9, SoundNext
<1> QED
  BY <1>3, <1>4, <1>5, <1>9, <1>10 DEF F

\* apc_sma_defrag() keeps the invariant.
LEMMA DefragStep ==
  ASSUME Inv, NEW pinned, Defrag(pinned)
  PROVE  /\ \E gain, to, G :
              /\ Compacted(blk, pinned).to = to
              /\ Compacts(blk, FreeBlocks, pinned, blk', gain, to, G)
              /\ Sound(blk', G, avail', held')
         /\ Inv'
<1> DEFINE F == FreeBlocks
           U == Used(blk, F, {})
<1>1. Sane(blk, F, {}) /\ avail = Total(blk, F) /\ Clients(blk, U, held)
  BY DEF Inv, Sound
<1> HIDE DEF F
<1>2. PICK c, gain, to, G : /\ Compacted(blk, pinned).b = c /\ Compacted(blk, pinned).gain = gain
                            /\ Compacted(blk, pinned).to = to
                            /\ Compacts(blk, F, pinned, c, gain, to, G)
  BY <1>1, CompactedSane
<1>3. /\ blk' = c /\ avail' = avail + gain
      /\ held' = [i \in Id |-> IF held[i] = 0 THEN 0 ELSE to[held[i]]]
  BY <1>2 DEF Defrag
<1>4. Compacts(blk, F, pinned, blk', gain, to, G)
  BY <1>2, <1>3
<1> HIDE DEF U
<1>5. /\ Sane(blk', G, {}) /\ avail' = Total(blk', G)
      /\ \A x \in U : to[x] \in Used(blk', G, {}) /\ blk'[to[x]].data = blk[x].data
      /\ \A y \in Used(blk', G, {}) : \E x \in U : to[x] = y
  BY <1>1, <1>3, <1>4 DEF Compacts, U
<1>6. Clients(blk', Used(blk', G, {}), held')
  <2>1. /\ held \in [Id -> Offset \cup {0}] /\ \A x \in U : held[blk[x].data] = x
        /\ \A j \in Id : held[j] # 0 => held[j] \in U /\ blk[held[j]].data = j
    BY <1>1 DEF Clients
  <2>2. \A x \in Used(blk', G, {}) : x \in Offset
    <3>1. Headers(blk')
      BY <1>5 DEF Sane
    <3> QED
      BY <3>1 DEF Used, Inner, Headers
  <2>3. \A j \in Id : held'[j] = IF held[j] = 0 THEN 0 ELSE to[held[j]]
    BY <1>3
  <2>4. \A j \in Id : held'[j] \in Offset \cup {0}
    BY <1>5, <2>1, <2>2, <2>3
  <2>5. held' \in [Id -> Offset \cup {0}]
    BY <1>3, <2>3, <2>4
  <2>6. \A x \in U : blk[x].data \in Id /\ x # 0
    <3>1. Headers(blk) /\ Cells \in Nat
      BY <1>1, Constants DEF Sane
    <3>2. Inner(blk) \subseteq 2..(Cells + 1)
      BY <3>1, Offsets
    <3>3. \A x \in U : x # 0
      BY <3>1, <3>2 DEF Used, U
    <3> QED
      BY <1>1, <3>3 DEF Sane, Busy, U
  <2>7. ASSUME NEW y \in Used(blk', G, {}) PROVE held'[blk'[y].data] = y
    <3>1. PICK x \in U : to[x] = y
      BY <1>5
    <3>2. blk'[y].data = blk[x].data /\ held[blk[x].data] = x /\ blk[x].data \in Id /\ x # 0
      BY <1>5, <2>1, <2>6, <3>1
    <3> QED
      BY <2>3, <3>1, <3>2
  <2>8. ASSUME NEW j \in Id, held'[j] # 0
        PROVE  held'[j] \in Used(blk', G, {}) /\ blk'[held'[j]].data = j
    <3>1. held[j] # 0 /\ held'[j] = to[held[j]]
      BY <2>3, <2>8
    <3>2. held[j] \in U /\ blk[held[j]].data = j
      BY <2>1, <3>1
    <3> QED
      BY <1>5, <3>1, <3>2
  <2> QED
    BY <2>5, <2>7, <2>8 DEF Clients
<1>7. Sound(blk', G, avail', held')
  BY <1>5, <1>6 DEF Sound
<1>8. Inv'
  BY <1>7, SoundNext
<1> QED
  BY <1>2, <1>4, <1>7, <1>8 DEF F

\* Every step keeps the invariant.
LEMMA NextInv == Inv /\ [Next]_vars => Inv'
<1> SUFFICES ASSUME Inv, [Next]_vars PROVE Inv'
  OBVIOUS
<1>1. ASSUME NEW i \in Id, Free(i) PROVE Inv'
  BY <1>1, FreeStep
<1>2. ASSUME NEW i \in Id, NEW n \in Sizes, Malloc(i, n) PROVE Inv'
  BY <1>2, MallocStep
<1>3. ASSUME NEW pinned \in SUBSET Allocated, Defrag(pinned) PROVE Inv'
  BY <1>3, DefragStep
<1>4. CASE UNCHANGED vars
  BY <1>4 DEF vars, Inv, Sound, FreeBlocks
<1> QED
  BY <1>1, <1>2, <1>3, <1>4 DEF Next

-----------------------------------------------------------------------------
(* Theorems                                                                  *)

\* The headers are sound in every state that apc_sma_malloc, apc_sma_free and
\* apc_sma_defrag can reach.
THEOREM Invariance == Spec => []Inv
BY InitInv, NextInv, PTL DEF Spec

\* Sound headers are of their types.
LEMMA Typed == Inv => TypeOK
<1> SUFFICES ASSUME Inv PROVE TypeOK
  OBVIOUS
<1>1. /\ Sane(blk, FreeBlocks, {}) /\ avail = Total(blk, FreeBlocks)
      /\ Clients(blk, Used(blk, FreeBlocks, {}), held)
  BY DEF Inv, Sound
<1>2. Headers(blk) /\ Tiles(blk) /\ FreeBlocks \in SUBSET Inner(blk)
  BY <1>1 DEF Sane, Parts
<1>3. avail \in 0..Cells
  BY <1>1, <1>2, TotalFits
<1>4. held \in [Id -> Offset \cup {0}]
  BY <1>1 DEF Clients
<1> QED
  BY <1>2, <1>3, <1>4 DEF TypeOK, Headers

\* Headers, counters and clients hold values of their types: no header leaves
\* the segment, and avail stays between 0 and its size.
THEOREM TypeCorrect == Spec => []TypeOK
BY Invariance, Typed, PTL

\* Sound headers have the right tags.
LEMMA Tagged == Inv => BoundaryTags
<1> SUFFICES ASSUME Inv, NEW o \in Inner(blk)
             PROVE  /\ blk[o].size > 0 /\ Next_S(blk, o) \in DOMAIN blk
                    /\ \A x \in DOMAIN blk : ~(o < x /\ x < Next_S(blk, o))
                    /\ IF o \in FreeBlocks
                       THEN blk[Next_S(blk, o)].prev_size = blk[o].size /\ Next_S(blk, o) \notin FreeBlocks
                       ELSE blk[Next_S(blk, o)].prev_size = 0
  BY DEF BoundaryTags, Inner
<1>1. Sane(blk, FreeBlocks, {})
  BY DEF Inv, Sound
<1>2. Headers(blk) /\ Tiles(blk) /\ Tags(blk, FreeBlocks, {})
  BY <1>1 DEF Sane
<1>3. /\ blk[o].size > 0 /\ Next_S(blk, o) \in DOMAIN blk /\ o \in Nat /\ Next_S(blk, o) \in Nat
      /\ \A x \in DOMAIN blk : x > o => Next_S(blk, o) <= x
  BY <1>2, NextIs, Constants
<1>4. \A x \in DOMAIN blk : x \in Nat
  BY <1>2, Offsets
<1>5. \A x \in DOMAIN blk : ~(o < x /\ x < Next_S(blk, o))
  BY <1>3, <1>4
<1>6. /\ blk[Next_S(blk, o)].prev_size = IF o \in FreeBlocks THEN blk[o].size ELSE 0
      /\ o \in FreeBlocks => Next_S(blk, o) \notin FreeBlocks
  BY <1>2 DEF Tags
<1> QED
  BY <1>3, <1>5, <1>6

\* NEXT_SBLOCK and PREV_SBLOCK find the neighbours of every block, the tag tells
\* a block whether the one before it is free, and no two free blocks are
\* neighbours, so that sma_deallocate() has at most one to merge on each side.
THEOREM BoundaryTagsHold == Spec => []BoundaryTags
BY Invariance, Tagged, PTL

\* Sound headers have the right list.
LEMMA ListExact == Inv => FreeListExact
<1> SUFFICES ASSUME Inv PROVE FreeListExact
  OBVIOUS
<1>1. Sane(blk, FreeBlocks, {}) /\ avail = Total(blk, FreeBlocks)
  BY DEF Inv, Sound
<1>2. Lists(blk, FreeBlocks, FreeList(blk))
  BY <1>1, FreeListIs
<1>3. Path(blk, <<FirstBlk>> \o FreeList(blk) \o <<LastBlk>>)
      /\ ToSet(FreeList(blk)) = FreeBlocks
  BY <1>2 DEF Lists
<1>4. avail = MapThenSumSet(LAMBDA o : blk[o].size, FreeBlocks)
  BY <1>1 DEF Total
<1> QED
  BY <1>3, <1>4 DEF FreeListExact, Path

\* The free list is linked both ways, holds every free block and no other, and
\* smaheader->avail is their total size.
THEOREM FreeListExactHolds == Spec => []FreeListExact
BY Invariance, ListExact, PTL

\* With nothing pinned, one free block is left.
LEMMA CompactsAll ==
  ASSUME Inv, Defrag({})
  PROVE  FreeBlocks' = {} \/ \E o \in FreeBlocks' : blk'[o].size = avail'
<1>1. PICK gain, to, G : /\ Compacts(blk, FreeBlocks, {}, blk', gain, to, G)
                         /\ Sound(blk', G, avail', held')
  BY DefragStep
<1>2. FreeBlocks' = G
  BY <1>1, SoundNext
<1>3. avail' = Total(blk', G) /\ Sane(blk', G, {})
  BY <1>1 DEF Sound
<1>4. Headers(blk') /\ G \in SUBSET Inner(blk')
  BY <1>3 DEF Sane, Parts
<1>5. G = {} \/ \E h : G = {h}
  BY <1>1 DEF Compacts
<1>6. ASSUME NEW h, G = {h} PROVE blk'[h].size = avail'
  <2>1. h \in G /\ G \ {h} = {} /\ blk'[h].size \in Nat
    <3>1. h \in DOMAIN blk'
      BY <1>4, <1>6 DEF Inner
    <3> QED
      BY <1>4, <1>6, <3>1, Offsets
  <2>2. Total(blk', G) = blk'[h].size + Total(blk', {})
    BY <1>4, <2>1, TotalOf
  <2>3. Total(blk', {}) = 0
    BY TotalTakes, FS_EmptySet DEF Sized
  <2> QED
    BY <1>3, <2>1, <2>2, <2>3
<1> QED
  BY <1>2, <1>5, <1>6

\* Once nothing is pinned, apc_sma_defrag() leaves the whole of avail in a single
\* free block, so that the second contiguous check of apc_sma_malloc succeeds.
THEOREM DefragCompactsHolds == Spec => DefragCompacts
<1>1. Inv => (Defrag({}) => \/ FreeBlocks' = {}
                            \/ \E o \in FreeBlocks' : blk'[o].size = avail')
  BY CompactsAll
<1>2. [][Next]_vars /\ []Inv => DefragCompacts
  BY <1>1, PTL DEF DefragCompacts
<1> QED
  BY <1>2, Invariance, PTL DEF Spec

-----------------------------------------------------------------------------
(* The heap that the headers implement: U are the allocated blocks of b.      *)

View(b, U) ==
  [a \in {o - Hdr : o \in U} |->
     [len |-> b[a + Hdr].size, used |-> b[a + Hdr].fprev, id |-> b[a + Hdr].data]]

\* An allocated block at o is a block of the heap at o - 1.
Seen(b, U, h) ==
  /\ DOMAIN h = {o - 1 : o \in U} /\ h = [a \in DOMAIN h |-> h[a]]
  /\ \A o \in U : /\ o \in 2..(Cells + 1) /\ o - 1 \in DOMAIN h
                  /\ h[o - 1] = [len |-> b[o].size, used |-> b[o].fprev, id |-> b[o].data]
  /\ \A a \in DOMAIN h : a + 1 \in U /\ a \in 1..Cells

\* The view of the allocated blocks is a function of their offsets.
LEMMA ViewIs ==
  ASSUME NEW b, Headers(b), NEW U \in SUBSET Inner(b)
  PROVE  Seen(b, U, View(b, U))
<1>1. Hdr = 1 /\ Cells \in Nat
  BY Constants
<1>2. \A o \in U : o \in 2..(Cells + 1) /\ (o - 1) + 1 = o
  <2>1. \A o \in U : o \in 2..(Cells + 1)
    BY Offsets
  <2> QED
    BY <1>1, <2>1
<1>3. /\ DOMAIN View(b, U) = {o - 1 : o \in U}
      /\ View(b, U) = [a \in DOMAIN View(b, U) |-> View(b, U)[a]]
  BY <1>1 DEF View
<1>4. \A o \in U : o - 1 \in DOMAIN View(b, U)
  BY <1>3
<1>5. ASSUME NEW o \in U
      PROVE  View(b, U)[o - 1] = [len |-> b[o].size, used |-> b[o].fprev, id |-> b[o].data]
  <2>1. View(b, U)[o - 1] = [len |-> b[(o - 1) + 1].size, used |-> b[(o - 1) + 1].fprev,
                             id |-> b[(o - 1) + 1].data]
    BY <1>1 DEF View
  <2> QED
    BY <1>2, <2>1
<1>6. ASSUME NEW a \in DOMAIN View(b, U) PROVE a + 1 \in U /\ a \in 1..Cells
  <2>1. PICK o \in U : a = o - 1
    BY <1>3, <1>6
  <2> QED
    BY <1>1, <1>2, <2>1
<1> QED
  BY <1>2, <1>3, <1>4, <1>5, <1>6 DEF Seen

\* What the heap shows of a block.
LEMMA SeenRecord ==
  ASSUME NEW b, NEW U, NEW h, Seen(b, U, h), NEW o \in U
  PROVE  h[o - 1] = [len |-> b[o].size, used |-> b[o].fprev, id |-> b[o].data]
BY DEF Seen

\* What the heap shows of a block, field by field.
LEMMA SeenAt ==
  ASSUME NEW b, NEW U, NEW h, Seen(b, U, h), NEW o \in U
  PROVE  h[o - 1].len = b[o].size /\ h[o - 1].used = b[o].fprev /\ h[o - 1].id = b[o].data
<1>1. h[o - 1] = [len |-> b[o].size, used |-> b[o].fprev, id |-> b[o].data]
  BY SeenRecord
<1> QED
  BY <1>1

\* Blocks seen as a heap do not overlap.
LEMMA SeenHeap ==
  ASSUME NEW b, NEW F, Sane(b, F, {}), NEW h, Seen(b, Used(b, F, {}), h)
  PROVE  /\ IsHeap(h) /\ Disjoint(h)
         /\ \A a \in DOMAIN h : h[a].used \in 1..h[a].len
<1> DEFINE U == Used(b, F, {})
<1>1. Headers(b) /\ Tiles(b) /\ U \subseteq Inner(b) /\ Cells \in Nat
  BY Constants DEF Sane, Used
<1>2. \A o \in U : b[o].size \in 1..Cells /\ b[o].fprev \in 1..b[o].size
  <2>1. \A o \in U : b[o].size \in 1..Cells
    BY <1>1, NextIs
  <2> QED
    BY <2>1 DEF Sane, Busy
<1>3. ASSUME NEW a \in DOMAIN h
      PROVE  a \in 1..Cells /\ h[a].len \in 1..Cells /\ h[a].used \in 1..h[a].len
  <2>1. a + 1 \in U /\ a \in 1..Cells /\ (a + 1) - 1 = a
    BY <1>1 DEF Seen
  <2>2. h[a] = [len |-> b[a + 1].size, used |-> b[a + 1].fprev, id |-> b[a + 1].data]
    BY <2>1 DEF Seen
  <2> QED
    BY <1>2, <2>1, <2>2
<1>4. IsHeap(h)
  BY <1>1, <1>3 DEF IsHeap
<1>5. ASSUME NEW a \in DOMAIN h, NEW c \in DOMAIN h, a < c PROVE End(h, a) <= c
  <2>1. a + 1 \in U /\ c + 1 \in U /\ a \in 1..Cells /\ c \in 1..Cells /\ (a + 1) - 1 = a
    BY <1>1 DEF Seen
  <2>2. h[a].len = b[a + 1].size
    <3> HIDE DEF U
    <3>1. Seen(b, U, h)
      BY DEF U
    <3>2. h[(a + 1) - 1].len = b[a + 1].size
      BY <2>1, <3>1, SeenAt
    <3> QED
      BY <2>1, <3>2
  <2>3. Next_S(b, a + 1) <= c + 1 /\ Next_S(b, a + 1) = (a + 1) + b[a + 1].size
    <3>1. a + 1 \in Inner(b) /\ c + 1 \in DOMAIN b /\ c + 1 > a + 1
      BY <1>1, <1>5, <2>1 DEF Inner
    <3> QED
      BY <1>1, <3>1, NextIs
  <2>4. b[a + 1].size \in Nat
    BY <1>2, <2>1
  <2> QED
    BY <2>1, <2>2, <2>3, <2>4 DEF End
<1>6. Disjoint(h)
  BY <1>4, <1>5, Ordered
<1> QED
  BY <1>3, <1>4, <1>6

\* A cell is taken if an allocated block covers it.
Covers(b, o, c) == o <= c + 1 /\ c + 1 < Next_S(b, o)

\* The cells taken in the heap are those of the allocated blocks.
LEMMA TakenIs ==
  ASSUME NEW b, NEW F, Sane(b, F, {}), NEW h, Seen(b, Used(b, F, {}), h), NEW c \in Nat
  PROVE  c \in Taken(h) <=> \E o \in Used(b, F, {}) : Covers(b, o, c)
<1> DEFINE U == Used(b, F, {})
<1>1. IsHeap(h) /\ Headers(b) /\ Tiles(b) /\ U \subseteq Inner(b) /\ Cells \in Nat
  BY SeenHeap, Constants DEF Sane, Used
<1>2. ASSUME NEW o \in U PROVE c \in Extent(h, o - 1) <=> Covers(b, o, c)
  <2>1. o \in 2..(Cells + 1) /\ o - 1 \in DOMAIN h /\ h[o - 1].len = b[o].size
    <3>1. h[o - 1].len = b[o].size
      BY SeenAt
    <3>2. o \in 2..(Cells + 1) /\ o - 1 \in DOMAIN h
      BY DEF Seen
    <3> QED
      BY <3>1, <3>2
  <2>2. b[o].size \in Nat /\ Next_S(b, o) = o + b[o].size
    BY <1>1, NextIs
  <2>3. c \in Extent(h, o - 1) <=> o - 1 <= c /\ c < End(h, o - 1)
    BY <1>1, <2>1, ExtentCells
  <2>4. End(h, o - 1) = (o - 1) + b[o].size
    BY <2>1 DEF End
  <2> QED
    BY <1>1, <2>1, <2>2, <2>3, <2>4 DEF Covers
<1>3. c \in Taken(h) <=> \E o \in U : c \in Extent(h, o - 1)
  <2>1. c \in Taken(h) <=> \E a \in DOMAIN h : c \in Extent(h, a)
    BY DEF Taken
  <2>2. DOMAIN h = {o - 1 : o \in U}
    BY DEF Seen
  <2> HIDE DEF U
  <2> QED
    BY <2>1, <2>2
<1> QED
  BY <1>2, <1>3

\* Two blocks do not cover the same cell.
LEMMA CoversOnce ==
  ASSUME NEW b, Headers(b), Tiles(b), NEW o \in Inner(b), NEW p \in Inner(b), NEW c \in Nat,
         Covers(b, o, c), Covers(b, p, c)
  PROVE  o = p
<1>1. o \in Nat /\ p \in Nat /\ Next_S(b, o) \in Nat /\ Next_S(b, p) \in Nat
      /\ o \in DOMAIN b /\ p \in DOMAIN b
  BY NextIs, Constants DEF Inner
<1>2. (o < p => Next_S(b, o) <= p) /\ (p < o => Next_S(b, p) <= o)
  BY <1>1, NextIs
<1>3. o <= c + 1 /\ c + 1 < Next_S(b, o) /\ p <= c + 1 /\ c + 1 < Next_S(b, p)
  BY DEF Covers
<1> QED
  BY <1>1, <1>2, <1>3

\* The gaps of the heap are the free blocks.
LEMMA GapsAre ==
  ASSUME NEW b, NEW F, Sane(b, F, {}), NEW h, Seen(b, Used(b, F, {}), h)
  PROVE  /\ \A o \in F : o - 1 \in GapStarts(h)
         /\ \A a \in GapStarts(h) : a \in 1..Cells /\ a + 1 \in F
<1> DEFINE U == Used(b, F, {})
<1>1. /\ Headers(b) /\ Tiles(b) /\ U \subseteq Inner(b) /\ F \subseteq Inner(b)
      /\ Cells \in Nat /\ Start = 2 /\ LastBlk = Cells + 2
      /\ \A o \in Inner(b) : o \notin F => o \in U
      /\ \A o \in F : o \notin U
  BY Constants DEF Sane, Used, Parts
<1>2. \A o \in Inner(b) : o \in 2..(Cells + 1) /\ Next_S(b, o) \in Nat /\ o < Next_S(b, o)
  BY <1>1, NextIs
<1> HIDE DEF U
<1>3. ASSUME NEW o \in F PROVE o - 1 \in GapStarts(h)
  <2>1. o \in Inner(b) /\ o \in 2..(Cells + 1) /\ o - 1 \in 1..Cells /\ o - 1 \in Nat
    BY <1>1, <1>2
  <2>2. o - 1 \notin Taken(h)
    <3> SUFFICES ASSUME NEW p \in U, Covers(b, p, o - 1) PROVE FALSE
      BY <2>1, TakenIs DEF U
    <3>1. Covers(b, o, o - 1)
      BY <1>2, <2>1 DEF Covers
    <3>2. o = p
      BY <1>1, <2>1, <3>1, CoversOnce
    <3> QED
      BY <1>1, <3>2
  <2>3. o - 1 = 1 \/ (o - 1) - 1 \in Taken(h)
    <3>1. CASE o = Start
      BY <1>1, <3>1
    <3>2. CASE o # Start
      <4>1. PICK p \in Inner(b) : Next_S(b, p) = o
        BY <1>1, <2>1, <3>2, PreviousIs
      <4>2. p \in U
        <5>1. p \in F => Next_S(b, p) \notin F
          BY DEF Sane, Tags
        <5> QED
          BY <1>1, <4>1, <5>1
      <4>3. (o - 1) - 1 \in Nat /\ Covers(b, p, (o - 1) - 1)
        <5>1. p < o /\ p \in Nat
          BY <1>2, <4>1
        <5> QED
          BY <2>1, <4>1, <5>1 DEF Covers
      <4> QED
        BY <4>2, <4>3, TakenIs DEF U
    <3> QED
      BY <3>1, <3>2
  <2> QED
    BY <2>1, <2>2, <2>3 DEF GapStarts
<1>4. ASSUME NEW a \in GapStarts(h) PROVE a \in 1..Cells /\ a + 1 \in F
  <2>1. a \in 1..Cells /\ a \notin Taken(h) /\ (a = 1 \/ a - 1 \in Taken(h))
    BY DEF GapStarts
  <2>2. a \in Nat /\ a + 1 \in 2..(Cells + 1)
    BY <1>1, <2>1
  <2>3. PICK o \in Inner(b) : o <= a + 1 /\ a + 1 < Next_S(b, o)
    BY <1>1, <2>2, Covered
  <2>4. Covers(b, o, a)
    BY <2>3 DEF Covers
  <2>5. o \in F
    <3>1. o \notin U
      BY <2>1, <2>2, <2>4, TakenIs DEF U
    <3> QED
      BY <1>1, <3>1
  <2>6. o = a + 1
    <3>1. CASE a = 1
      BY <1>2, <2>3, <3>1
    <3>2. CASE a # 1
      <4>1. a - 1 \in Nat /\ a - 1 \in Taken(h)
        BY <1>1, <2>1, <3>2
      <4>2. PICK p \in U : Covers(b, p, a - 1)
        BY <4>1, TakenIs DEF U
      <4>3. ~(o <= a)
        <5> SUFFICES ASSUME o <= a PROVE FALSE
          OBVIOUS
        <5>1. Covers(b, o, a - 1)
          BY <1>2, <2>2, <2>3 DEF Covers
        <5>2. o = p
          BY <1>1, <4>1, <4>2, <5>1, CoversOnce
        <5> QED
          BY <1>1, <2>5, <5>2
      <4> QED
        BY <1>2, <2>2, <2>3, <4>3
    <3> QED
      BY <3>1, <3>2
  <2> QED
    BY <2>1, <2>5, <2>6
<1> QED
  BY <1>3, <1>4

\* A gap is as long as its free block.
LEMMA GapLenIs ==
  ASSUME NEW b, NEW F, Sane(b, F, {}), NEW h, Seen(b, Used(b, F, {}), h), NEW o \in F
  PROVE  GapLen(h, o - 1) = b[o].size
<1> DEFINE U == Used(b, F, {})
           ends == {c \in (o - 1)..Cells : c \in Taken(h)}
           nxt == Next_S(b, o)
<1>1. /\ Headers(b) /\ Tiles(b) /\ U \subseteq Inner(b) /\ F \subseteq Inner(b)
      /\ Cells \in Nat /\ LastBlk = Cells + 2
      /\ \A p \in Inner(b) : p \notin F => p \in U
      /\ \A p \in F : p \notin U
  BY Constants DEF Sane, Used, Parts
<1>2. /\ o \in Inner(b) /\ o \in 2..(Cells + 1) /\ b[o].size \in Nat /\ nxt = o + b[o].size
      /\ nxt \in (o + 1)..(Cells + 2) /\ nxt \in Inner(b) \cup {LastBlk}
  BY <1>1, NextIs
<1>3. nxt \notin F
  BY <1>2 DEF Sane, Tags
<1> HIDE DEF U
<1>4. ASSUME NEW c \in ends PROVE c >= nxt - 1
  <2> SUFFICES ASSUME c < nxt - 1 PROVE FALSE
    BY <1>1, <1>2
  <2>1. c \in Nat /\ c \in Taken(h) /\ c >= o - 1
    BY <1>1, <1>2
  <2>2. PICK p \in U : Covers(b, p, c)
    BY <2>1, TakenIs DEF U
  <2>3. Covers(b, o, c)
    BY <1>2, <2>1 DEF Covers
  <2>4. o = p
    BY <1>1, <1>2, <2>1, <2>2, <2>3, CoversOnce
  <2> QED
    BY <1>1, <2>4
<1>5. CASE nxt = LastBlk
  <2>1. ends = {}
    <3> SUFFICES ASSUME NEW c \in ends PROVE FALSE
      OBVIOUS
    <3>1. c \in (o - 1)..Cells /\ c >= nxt - 1
      BY <1>4
    <3> QED
      BY <1>1, <1>2, <1>5, <3>1
  <2>2. GapLen(h, o - 1) = Cells + 1 - (o - 1)
    BY <2>1 DEF GapLen
  <2> QED
    BY <1>1, <1>2, <1>5, <2>2
<1>6. CASE nxt \in Inner(b)
  <2>1. nxt \in U
    BY <1>1, <1>3, <1>6
  <2>2. nxt - 1 \in Nat /\ nxt \in 2..(Cells + 1) /\ Covers(b, nxt, nxt - 1)
    <3>1. nxt \in Nat /\ Next_S(b, nxt) \in Nat /\ nxt < Next_S(b, nxt) /\ nxt \in 2..(Cells + 1)
      BY <1>1, <1>6, NextIs
    <3> QED
      BY <3>1 DEF Covers
  <2>3. nxt - 1 \in Taken(h)
    BY <2>1, <2>2, TakenIs DEF U
  <2>4. nxt - 1 \in ends
    BY <1>1, <1>2, <2>2, <2>3
  <2>5. ends \in SUBSET Nat /\ ends # {}
    BY <1>1, <1>2, <2>4
  <2> HIDE DEF ends
  <2>6. Min(ends) \in ends /\ \A c \in ends : Min(ends) <= c
    BY <2>5, MinInSet
  <2>7. Min(ends) = nxt - 1
    <3>1. PICK m : m = Min(ends)
      OBVIOUS
    <3>2. m \in Nat /\ m <= nxt - 1 /\ m >= nxt - 1
      BY <1>4, <2>4, <2>5, <2>6, <3>1
    <3>3. nxt - 1 \in Nat
      BY <2>2
    <3> QED
      BY <3>1, <3>2, <3>3
  <2>8. GapLen(h, o - 1) = Min(ends) - (o - 1)
    BY <2>5 DEF GapLen, ends
  <2> QED
    BY <1>2, <2>7, <2>8
<1> QED
  BY <1>2, <1>5, <1>6

\* A request fits a free block if it fits the gap that the block is.
LEMMA FittingIs ==
  ASSUME NEW b, NEW F, Sane(b, F, {}), NEW h, Seen(b, Used(b, F, {}), h), NEW n \in Nat
  PROVE  /\ \A o \in F : o - 1 \in Fitting(h, n) <=> b[o].size >= n
         /\ \A a \in Fitting(h, n) : a + 1 \in F /\ b[a + 1].size >= n
<1>1. ASSUME NEW o \in F PROVE o - 1 \in Fitting(h, n) <=> b[o].size >= n
  BY GapsAre, GapLenIs DEF Fitting
<1>2. ASSUME NEW a \in Fitting(h, n) PROVE a + 1 \in F /\ b[a + 1].size >= n
  <2>1. a \in GapStarts(h)
    BY DEF Fitting
  <2>2. a \in 1..Cells /\ a + 1 \in F /\ (a + 1) - 1 = a
    BY <2>1, GapsAre, Constants
  <2> QED
    BY <1>1, <2>2
<1> QED
  BY <1>1, <1>2

-----------------------------------------------------------------------------
(* A request is served whenever it could be.                                  *)

\* The heap that the headers show.
LEMMA HeapNow ==
  ASSUME Inv
  PROVE  /\ Sane(blk, FreeBlocks, {}) /\ Allocated = Used(blk, FreeBlocks, {})
         /\ Seen(blk, Used(blk, FreeBlocks, {}), AbstractHeap)
<1>1. Sane(blk, FreeBlocks, {}) /\ Allocated = Used(blk, FreeBlocks, {})
  BY SoundNow DEF Inv, Sound
<1>2. Headers(blk) /\ Allocated \in SUBSET Inner(blk)
  BY <1>1 DEF Sane, Used
<1>3. AbstractHeap = View(blk, Allocated)
  BY DEF AbstractHeap, View
<1> QED
  BY <1>1, <1>2, <1>3, ViewIs

\* The heap that they show after a step.
LEMMA HeapNext ==
  ASSUME NEW G, Sound(blk', G, avail', held')
  PROVE  Seen(blk', Used(blk', G, {}), AbstractHeap')
<1>1. Sane(blk', G, {}) /\ Allocated' = Used(blk', G, {})
  BY SoundNext DEF Sound
<1>2. Headers(blk') /\ Allocated' \in SUBSET Inner(blk')
  BY <1>1 DEF Sane, Used
<1>3. AbstractHeap' = View(blk', Allocated')
  BY DEF AbstractHeap, View
<1> QED
  BY <1>1, <1>2, <1>3, ViewIs

\* A gap that is long enough is a block the search finds.
LEMMA ServesAll == Inv => FailsOnlyIfFull
<1> SUFFICES ASSUME Inv, NEW n \in Sizes, Fitting(AbstractHeap, n) # {}
             PROVE  avail >= n /\ Candidates(blk, n) # {}
  BY DEF FailsOnlyIfFull
<1>1. n \in Nat /\ Cells \in Nat
  BY Constants
<1> DEFINE F == FreeBlocks
<1>2. Sane(blk, F, {}) /\ Seen(blk, Used(blk, F, {}), AbstractHeap) /\ avail = Total(blk, F)
  BY HeapNow DEF Inv, Sound
<1> HIDE DEF F
<1>3. PICK a \in Fitting(AbstractHeap, n) : TRUE
  OBVIOUS
<1>4. a + 1 \in F /\ blk[a + 1].size >= n
  BY <1>1, <1>2, <1>3, FittingIs
<1>5. Candidates(blk, n) # {}
  BY <1>1, <1>2, <1>4, CandidatesFit
<1>6. avail >= n
  <2>1. Headers(blk) /\ F \in SUBSET Inner(blk)
    BY <1>2 DEF Sane, Parts
  <2>2. Total(blk, F) = blk[a + 1].size + Total(blk, F \ {a + 1})
    BY <1>4, <2>1, TotalOf
  <2>3. Total(blk, F \ {a + 1}) \in Nat
    BY <2>1, TotalOf
  <2>4. blk[a + 1].size \in Nat
    <3>1. a + 1 \in DOMAIN blk
      BY <1>4, <2>1 DEF Inner
    <3> QED
      BY <2>1, <3>1, Offsets
  <2> QED
    BY <1>1, <1>2, <1>4, <2>2, <2>3, <2>4
<1> QED
  BY <1>5, <1>6

\* apc_sma_malloc() fails, and the cache is expunged for it, only if no run of
\* free cells has room: neither the test of avail nor the bounded best fit turns
\* down a request that some free block could serve.
THEOREM FailsOnlyIfFullHolds == Spec => []FailsOnlyIfFull
BY Invariance, ServesAll, PTL

-----------------------------------------------------------------------------
(* The headers implement the heap of ApcAlloc, step by step.                  *)

\* Freeing a block removes it from the heap and changes no other.
LEMMA FreeRefines ==
  ASSUME Inv, NEW i \in Id, Free(i)
  PROVE  Heap!Free(i)
<1> DEFINE F == FreeBlocks
           U == Used(blk, F, {})
           h == AbstractHeap
           o == held[i]
<1>1. PICK G : Took(blk, F, blk', G, o) /\ Sound(blk', G, avail', held')
  BY FreeStep
<1>2. o \in U /\ blk[o].data = i
  BY FreeStep
<1>3. PICK g : g = AbstractHeap'
  OBVIOUS
<1>4. Seen(blk, U, h) /\ Seen(blk', U \ {o}, g)
  <2>1. Used(blk', G, {}) = U \ {o}
    BY <1>1 DEF Took
  <2> QED
    BY <1>1, <1>3, <2>1, HeapNow, HeapNext
<1>5. h = [a \in DOMAIN h |-> h[a]] /\ g = [a \in DOMAIN g |-> g[a]]
  BY <1>4 DEF Seen
<1>6. \A x \in U \ {o} : blk'[x].size = blk[x].size /\ blk'[x].fprev = blk[x].fprev
                         /\ blk'[x].data = blk[x].data
  BY <1>1 DEF Took, Alike
<1> HIDE DEF F, U, h, o
<1>7. /\ \A x \in U : x \in Nat /\ x - 1 \in DOMAIN h
      /\ DOMAIN h = {x - 1 : x \in U} /\ DOMAIN g = {x - 1 : x \in U \ {o}}
  <2>1. \A x \in U : x \in 2..(Cells + 1) /\ x - 1 \in DOMAIN h
    BY <1>4 DEF Seen
  <2>2. DOMAIN h = {x - 1 : x \in U} /\ DOMAIN g = {x - 1 : x \in U \ {o}}
    BY <1>4 DEF Seen
  <2> QED
    BY <2>1, <2>2, Constants
<1>8. DOMAIN g = DOMAIN h \ {o - 1}
  BY <1>2, <1>7
<1>9. ASSUME NEW a \in DOMAIN g PROVE g[a] = h[a]
  <2>1. PICK x \in U \ {o} : a = x - 1
    BY <1>7, <1>9
  <2>2. /\ g[x - 1] = [len |-> blk'[x].size, used |-> blk'[x].fprev, id |-> blk'[x].data]
        /\ h[x - 1] = [len |-> blk[x].size, used |-> blk[x].fprev, id |-> blk[x].data]
    BY <1>4 DEF Seen
  <2> QED
    BY <1>6, <2>1, <2>2
<1>10. g = [a \in DOMAIN h \ {o - 1} |-> h[a]]
  BY <1>5, <1>8, <1>9
<1>11. o - 1 \in DOMAIN h /\ h[o - 1].id = i
  BY <1>2, <1>4, <1>7, SeenAt
<1> QED
  BY <1>3, <1>10, <1>11 DEF Heap!Free, Heap!Without, h

\* Best fit takes the start of a gap that is long enough.
LEMMA MallocRefines ==
  ASSUME Inv, NEW i \in Id, NEW n \in Sizes, Malloc(i, n)
  PROVE  Heap!Malloc(i, n)
<1> DEFINE F == FreeBlocks
           U == Used(blk, F, {})
           h == AbstractHeap
<1>1. PICK o, G : /\ o \in F /\ blk[o].size >= n /\ Gave(blk, F, blk', G, o, n, i)
                  /\ Sound(blk', G, avail', held')
  BY MallocStep
<1>2. held[i] = 0 /\ n \in Nat
  BY Constants, MallocStep
<1>3. PICK g : g = AbstractHeap'
  OBVIOUS
<1>4. Seen(blk, U, h) /\ Seen(blk', U \cup {o}, g) /\ Sane(blk, F, {})
  <2>1. Used(blk', G, {}) = U \cup {o}
    BY <1>1 DEF Gave
  <2> QED
    BY <1>1, <1>3, <2>1, HeapNow, HeapNext
<1>5. h = [a \in DOMAIN h |-> h[a]] /\ g = [a \in DOMAIN g |-> g[a]]
  BY <1>4 DEF Seen
<1>6. /\ \A x \in U : /\ blk'[x].size = blk[x].size /\ blk'[x].fprev = blk[x].fprev
                      /\ blk'[x].data = blk[x].data
      /\ blk'[o].fprev = n /\ blk'[o].data = i
      /\ blk'[o].size = IF blk[o].size < n + MinBlock THEN blk[o].size ELSE n
  BY <1>1 DEF Gave, Alike
<1>7. o \notin U
  BY <1>1 DEF Used
<1>8. o - 1 \in Fitting(h, n) /\ GapLen(h, o - 1) = blk[o].size
  BY <1>1, <1>2, <1>4, FittingIs, GapLenIs
<1>9. ASSUME NEW a \in DOMAIN h PROVE h[a].id # i
  <2>1. a + 1 \in U /\ (a + 1) - 1 = a
    BY <1>4, Constants DEF Seen
  <2>2. h[a].id = blk[a + 1].data
    <3> HIDE DEF U
    <3>1. h[(a + 1) - 1].id = blk[a + 1].data
      BY <1>4, <2>1, SeenAt
    <3> QED
      BY <2>1, <3>1
  <2>3. Clients(blk, U, held)
    BY DEF Inv, Sound
  <2>4. held[blk[a + 1].data] = a + 1 /\ a + 1 # 0
    <3>1. Headers(blk) /\ U \subseteq Inner(blk)
      BY <1>4 DEF Sane, Used
    <3>2. a + 1 # 0
      BY <2>1, <3>1, Offsets, Constants
    <3> QED
      BY <2>1, <2>3, <3>2 DEF Clients
  <2> QED
    BY <1>2, <2>2, <2>4
<1> HIDE DEF F, U, h
<1>10. /\ \A x \in U \cup {o} : x \in Nat
       /\ DOMAIN h = {x - 1 : x \in U} /\ DOMAIN g = {x - 1 : x \in U \cup {o}}
  <2>1. \A x \in U \cup {o} : x \in 2..(Cells + 1)
    BY <1>4 DEF Seen
  <2>2. DOMAIN h = {x - 1 : x \in U} /\ DOMAIN g = {x - 1 : x \in U \cup {o}}
    BY <1>4 DEF Seen
  <2> QED
    BY <2>1, <2>2, Constants
<1>11. DOMAIN g = DOMAIN h \cup {o - 1} /\ o - 1 \notin DOMAIN h
  BY <1>7, <1>10
<1> DEFINE r == [len |-> IF GapLen(h, o - 1) < n + MinBlock THEN GapLen(h, o - 1) ELSE n,
                 used |-> n, id |-> i]
<1>12. g[o - 1] = r
  <2>1. g[o - 1] = [len |-> blk'[o].size, used |-> blk'[o].fprev, id |-> blk'[o].data]
    BY <1>4 DEF Seen
  <2> QED
    BY <1>6, <1>8, <2>1
<1>13. ASSUME NEW a \in DOMAIN h PROVE g[a] = h[a]
  <2>1. PICK x \in U : a = x - 1
    BY <1>10, <1>13
  <2>2. /\ g[x - 1] = [len |-> blk'[x].size, used |-> blk'[x].fprev, id |-> blk'[x].data]
        /\ h[x - 1] = [len |-> blk[x].size, used |-> blk[x].fprev, id |-> blk[x].data]
    BY <1>4 DEF Seen
  <2> QED
    BY <1>6, <2>1, <2>2
<1>14. g = With(h, o - 1, r)
  <2> HIDE DEF r
  <2> QED
    BY <1>5, <1>11, <1>12, <1>13 DEF With
<1>15. /\ Heap!With(h, o - 1, r) = With(h, o - 1, r)
       /\ Heap!Fitting(h, n) = Fitting(h, n) /\ Heap!GapLen(h, o - 1) = GapLen(h, o - 1)
  <2>1. Heap!With(h, o - 1, r) = With(h, o - 1, r)
    BY DEF Heap!With, With
  <2>2. Heap!Taken(h) = Taken(h)
    BY DEF Heap!Taken, Taken, Heap!Extent, Extent
  <2>3. Heap!GapStarts(h) = GapStarts(h)
    BY <2>2 DEF Heap!GapStarts, GapStarts
  <2>4. \A a : Heap!GapLen(h, a) = GapLen(h, a)
    BY <2>2 DEF Heap!GapLen, GapLen, Heap!Min, Min
  <2> QED
    BY <2>1, <2>3, <2>4 DEF Heap!Fitting, Fitting
<1>16. i \notin Heap!Ids(h)
  BY <1>9 DEF Heap!Ids
<1> QED
  BY <1>3, <1>8, <1>14, <1>15, <1>16 DEF Heap!Malloc, h

Slides(h, pinned, used, g) ==
  /\ g = [a \in 0..Cells |-> Target(h, pinned, used, g, a)]
  /\ Slide(h, pinned, used) = [a \in DOMAIN h |-> g[a]]

\* Slide is a recursion that goes down, so it is defined.
LEMMA SlidesExist ==
  ASSUME NEW h, IsHeap(h), NEW pinned, NEW used
  PROVE  \E g : Slides(h, pinned, used, g)
BY SlideTargets DEF Slides

\* What compaction does with a block, told of headers and told of the heap.
LEMMA SlideIs ==
  ASSUME NEW b, NEW F, Sane(b, F, {}), NEW h, Seen(b, Used(b, F, {}), h),
         NEW pinned \in SUBSET Used(b, F, {}), NEW used, used = [a \in DOMAIN h |-> h[a].used],
         NEW to, \A x \in Used(b, F, {}) :
                   /\ to[x] \in Nat
                   /\ to[x] = IF x \in pinned THEN x ELSE Fill(b, F, to, x - 1)
  PROVE  \A x \in Used(b, F, {}) : Slide(h, {p - 1 : p \in pinned}, used)[x - 1] = to[x] - 1
<1> DEFINE U == Used(b, F, {})
           pin == {p - 1 : p \in pinned}
<1>1. /\ Headers(b) /\ IsHeap(h) /\ Cells \in Nat /\ Start = 2
      /\ \A x \in U : x \in 2..(Cells + 1) /\ x \in Nat /\ x - 1 \in 0..Cells
  <2>1. Headers(b) /\ U \subseteq Inner(b) /\ Cells \in Nat /\ Start = 2
    BY Constants DEF Sane, Used
  <2>2. \A x \in U : x \in 2..(Cells + 1)
    BY <2>1, Offsets
  <2> QED
    BY <2>1, <2>2, SeenHeap
<1>2. PICK g : /\ g = [a \in 0..Cells |-> Target(h, pin, used, g, a)]
               /\ Slide(h, pin, used) = [a \in DOMAIN h |-> g[a]]
  <2>1. IsHeap(h)
    BY <1>1
  <2>2. \E g : Slides(h, pin, used, g)
    BY <2>1, SlidesExist
  <2> HIDE DEF pin
  <2> QED
    BY <2>2 DEF Slides
<1>3. \A x \in U : to[x] \in Nat /\ to[x] = IF x \in pinned THEN x ELSE Fill(b, F, to, x - 1)
  OBVIOUS
<1>4. /\ \A x \in U : x - 1 \in DOMAIN h /\ h[x - 1].len = b[x].size
                      /\ used[x - 1] = b[x].fprev
      /\ \A a \in DOMAIN h : a + 1 \in U /\ a \in 1..Cells
  <2> HIDE DEF U
  <2>1. Seen(b, U, h)
    BY DEF U
  <2>2. /\ \A x \in U : x - 1 \in DOMAIN h
        /\ \A a \in DOMAIN h : a + 1 \in U /\ a \in 1..Cells
    BY <2>1 DEF Seen
  <2>3. \A x \in U : h[x - 1].len = b[x].size /\ h[x - 1].used = b[x].fprev
    BY <2>1, SeenAt
  <2> QED
    BY <2>2, <2>3
<1>5. \A x \in U : x - 1 \in pin <=> x \in pinned
  <2>1. pinned \subseteq U
    OBVIOUS
  <2> QED
    BY <1>1, <2>1
<1> HIDE DEF U, pin
<1> DEFINE Wrong == {x \in U : g[x - 1] # to[x] - 1}
<1>6. ASSUME NEW x \in U, \A y \in U : y < x => g[y - 1] = to[y] - 1
      PROVE  g[x - 1] = to[x] - 1
  <2>1. g[x - 1] = Target(h, pin, used, g, x - 1)
    BY <1>1, <1>2
  <2>2. x - 1 \in DOMAIN h /\ x \in Nat /\ x >= 2 /\ x - 1 \in Nat
    BY <1>1, <1>4
  <2>3. CASE x \in pinned
    <3>1. x - 1 \in pin
      BY <1>5, <2>3
    <3>2. g[x - 1] = x - 1
      BY <2>1, <3>1 DEF Target
    <3> QED
      BY <1>3, <2>3, <3>2
  <2>4. CASE x \notin pinned
    <3>1. x - 1 \notin pin /\ to[x] = Fill(b, F, to, x - 1)
      BY <1>3, <1>5, <2>4
    <3>2. \A y \in U : y < x => y - 1 \in Before(h, x - 1)
      <4> SUFFICES ASSUME NEW y \in U, y < x PROVE y - 1 \in DOMAIN h /\ y - 1 < x - 1
        BY DEF Before
      <4> QED
        BY <1>1, <1>4, <2>2
    <3>3. \A a \in Before(h, x - 1) : a + 1 \in Upto(b, F, x - 1)
      <4> SUFFICES ASSUME NEW a \in DOMAIN h, a < x - 1 PROVE a + 1 \in U /\ a + 1 <= x - 1
        BY DEF Before, Upto, U
      <4> QED
        BY <1>1, <1>4, <2>2
    <3>4. \A y \in Upto(b, F, x - 1) : y \in U /\ y < x
      <4> SUFFICES ASSUME NEW y \in U, y <= x - 1 PROVE y < x
        BY DEF Upto, U
      <4> QED
        BY <1>1, <2>2
    <3>5. CASE Upto(b, F, x - 1) = {}
      <4>1. Before(h, x - 1) = {}
        BY <3>3, <3>5
      <4>2. g[x - 1] = 1
        BY <2>1, <2>2, <3>1, <4>1 DEF Target
      <4>3. to[x] = 2
        BY <1>1, <3>1, <3>5 DEF Fill
      <4> QED
        BY <4>2, <4>3
    <3>6. CASE Upto(b, F, x - 1) # {}
      <4>1. PICK m : m = Max(Upto(b, F, x - 1))
        OBVIOUS
      <4>2. m \in U /\ m < x /\ \A y \in Upto(b, F, x - 1) : y <= m
        <5>1. Max(Upto(b, F, x - 1)) \in U /\ Max(Upto(b, F, x - 1)) <= x - 1
              /\ \A y \in Upto(b, F, x - 1) : y <= Max(Upto(b, F, x - 1))
          BY <1>1, <2>2, <3>6, UptoMax DEF U
        <5>2. m \in Nat /\ m <= x - 1
          BY <1>1, <4>1, <5>1
        <5>3. m < x
          BY <2>2, <5>2
        <5> QED
          BY <4>1, <5>1, <5>3
      <4>3. Before(h, x - 1) # {} /\ m - 1 \in Before(h, x - 1)
        BY <3>2, <4>2
      <4>4. PICK l : l = Max(Before(h, x - 1))
        OBVIOUS
      <4>5. l \in Before(h, x - 1) /\ l \in DOMAIN h /\ \A y \in DOMAIN h : y < x - 1 => y <= l
        <5>1. x - 1 \in 0..Cells
          BY <1>1
        <5>2. /\ Max(Before(h, x - 1)) \in DOMAIN h /\ Max(Before(h, x - 1)) < x - 1
              /\ \A y \in DOMAIN h : y < x - 1 => y <= Max(Before(h, x - 1))
          BY <1>1, <4>3, <5>1, LastBefore
        <5> QED
          BY <4>4, <5>2 DEF Before
      <4>6. l = m - 1
        <5>1. m - 1 <= l
          BY <4>3, <4>5 DEF Before
        <5>2. l + 1 <= m
          BY <3>3, <4>2, <4>5
        <5>3. l \in Nat /\ m \in Nat
          BY <1>1, <1>4, <4>2, <4>5
        <5> QED
          BY <5>1, <5>2, <5>3
      <4>7. g[x - 1] = g[l] + (IF g[l] = l THEN h[l].len ELSE used[l])
        BY <2>1, <2>2, <3>1, <4>3, <4>4 DEF Target
      <4>8. g[l] = to[m] - 1 /\ h[l].len = b[m].size /\ used[l] = b[m].fprev
        BY <1>4, <1>6, <4>2, <4>6
      <4>9. to[x] = to[m] + NewSize(b, to, m)
        BY <3>1, <3>6, <4>1 DEF Fill
      <4>10. b[m].size \in Nat /\ b[m].fprev \in Nat /\ to[m] \in Nat /\ m \in Nat
        <5>1. b[m].size \in Nat
          <6>1. m \in DOMAIN b
            BY <4>2 DEF U, Used, Inner
          <6> QED
            BY <1>1, <6>1, Offsets
        <5>2. b[m].fprev \in 1..b[m].size
          BY <4>2 DEF Sane, Busy, U
        <5> QED
          BY <1>1, <1>3, <4>2, <5>1, <5>2
      <4> QED
        BY <4>6, <4>7, <4>8, <4>9, <4>10 DEF NewSize
    <3> QED
      BY <3>5, <3>6
  <2> QED
    BY <2>3, <2>4
<1>7. Wrong = {}
  <2> SUFFICES ASSUME Wrong # {} PROVE FALSE
    OBVIOUS
  <2>1. Wrong \in SUBSET Nat
    BY <1>1
  <2>2. PICK x \in Wrong : \A y \in Wrong : x <= y
    BY <2>1, LeastElement
  <2>3. \A y \in U : y < x => g[y - 1] = to[y] - 1
    BY <1>1, <2>1, <2>2
  <2> QED
    BY <1>6, <2>2, <2>3
<1>8. ASSUME NEW x \in U PROVE Slide(h, pin, used)[x - 1] = to[x] - 1
  BY <1>2, <1>4, <1>7
<1> QED
  BY <1>8 DEF U, pin

\* The instance of ApcAlloc slides blocks as ApcHeap does.
LEMMA HeapSlide ==
  ASSUME NEW h, NEW p, NEW u
  PROVE  Heap!Slide(h, p, u) = Slide(h, p, u)
BY DEF Heap!Slide, Slide, Heap!Max, Max

\* And moves them as it does.
LEMMA HeapMoved ==
  ASSUME NEW h, NEW f
  PROVE  Heap!Moved(h, f) = Moved(h, f)
BY DEF Heap!Moved, Moved

\* Defragmentation slides the blocks of the heap around the pinned ones.
LEMMA DefragRefines ==
  ASSUME Inv, NEW pinned \in SUBSET Allocated, Defrag(pinned)
  PROVE  \E pin \in SUBSET DOMAIN AbstractHeap : Heap!Compact(pin)
<1> DEFINE F == FreeBlocks
           U == Used(blk, F, {})
           h == AbstractHeap
           pin == {p - 1 : p \in pinned}
           used == [a \in DOMAIN h |-> h[a].used]
           t == Slide(h, pin, used)
           Shrunk(a) == IF t[a] = a THEN h[a] ELSE [h[a] EXCEPT !.len = h[a].used]
           s == [a \in DOMAIN h |-> Shrunk(a)]
<1>1. PICK gain, to, G : /\ Compacts(blk, F, pinned, blk', gain, to, G)
                         /\ Sound(blk', G, avail', held')
  BY DefragStep
<1>2. PICK k : k = AbstractHeap'
  OBVIOUS
<1>3. PICK V : V = Used(blk', G, {})
  OBVIOUS
<1>4. Seen(blk, U, h) /\ Seen(blk', V, k) /\ Sane(blk, F, {}) /\ pinned \in SUBSET U
  BY <1>1, <1>2, <1>3, HeapNow, HeapNext
<1>5. /\ \A x \in U : /\ to[x] \in V /\ blk'[to[x]].data = blk[x].data
                      /\ blk'[to[x]].fprev = blk[x].fprev
                      /\ blk'[to[x]].size = NewSize(blk, to, x)
                      /\ to[x] = IF x \in pinned THEN x ELSE Fill(blk, F, to, x - 1)
      /\ \A y \in V : \E x \in U : to[x] = y
  BY <1>1, <1>3 DEF Compacts
<1>6. /\ \A x \in U : x \in Nat /\ x - 1 \in DOMAIN h
      /\ \A y \in V : y \in Nat
      /\ DOMAIN h = {x - 1 : x \in U} /\ DOMAIN k = {y - 1 : y \in V}
      /\ k = [a \in DOMAIN k |-> k[a]]
      /\ \A a \in DOMAIN h : a + 1 \in U /\ a \in Nat
  <2>1. /\ \A x \in U : x \in 2..(Cells + 1) /\ x - 1 \in DOMAIN h
        /\ \A y \in V : y \in 2..(Cells + 1)
        /\ \A a \in DOMAIN h : a + 1 \in U /\ a \in 1..Cells
    BY <1>4 DEF Seen
  <2>2. /\ DOMAIN h = {x - 1 : x \in U} /\ DOMAIN k = {y - 1 : y \in V}
        /\ k = [a \in DOMAIN k |-> k[a]]
    BY <1>4 DEF Seen
  <2> QED
    BY <2>1, <2>2, Constants
<1>7. \A x \in U : t[x - 1] = to[x] - 1
  <2>1. \A x \in U : to[x] \in Nat
    BY <1>5, <1>6
  <2> HIDE DEF F, h
  <2> QED
    BY <1>4, <1>5, <2>1, SlideIs
<1>8. \A x, y \in U : to[x] = to[y] => x = y
  <2>1. Clients(blk, U, held)
    BY DEF Inv, Sound
  <2>2. \A x \in U : held[blk[x].data] = x
    BY <2>1 DEF Clients
  <2> HIDE DEF U
  <2> QED
    BY <1>5, <2>2
<1>9. \A x \in U : h[x - 1] = [len |-> blk[x].size, used |-> blk[x].fprev, id |-> blk[x].data]
  BY <1>4 DEF Seen
<1>10. \A y \in V : k[y - 1] = [len |-> blk'[y].size, used |-> blk'[y].fprev, id |-> blk'[y].data]
  BY <1>4, SeenRecord
<1> HIDE DEF F, U, h, t
<1>11. ASSUME NEW x \in U
       PROVE  s[x - 1] = k[to[x] - 1]
  <2>1. k[to[x] - 1] = [len |-> NewSize(blk, to, x), used |-> blk[x].fprev, id |-> blk[x].data]
    BY <1>5, <1>10
  <2>2. s[x - 1] = Shrunk(x - 1)
    BY <1>6
  <2>3. t[x - 1] = x - 1 <=> to[x] = x
    BY <1>5, <1>6, <1>7
  <2>4. h[x - 1] = [len |-> blk[x].size, used |-> blk[x].fprev, id |-> blk[x].data]
    BY <1>9
  <2>5. [h[x - 1] EXCEPT !.len = h[x - 1].used] =
          [len |-> blk[x].fprev, used |-> blk[x].fprev, id |-> blk[x].data]
    BY <2>4
  <2> QED
    BY <2>1, <2>2, <2>3, <2>4, <2>5 DEF NewSize
<1>12. k = Moved(s, t)
  <2>1. DOMAIN s = DOMAIN h
    OBVIOUS
  <2>2. \A a, c \in DOMAIN s : t[a] = t[c] => a = c
    <3> SUFFICES ASSUME NEW a \in DOMAIN h, NEW c \in DOMAIN h, t[a] = t[c] PROVE a = c
      BY <2>1
    <3>1. a + 1 \in U /\ c + 1 \in U /\ a \in Nat /\ c \in Nat
          /\ (a + 1) - 1 = a /\ (c + 1) - 1 = c
      BY <1>6
    <3>2. t[a] = to[a + 1] - 1 /\ t[c] = to[c + 1] - 1
      BY <1>7, <3>1
    <3>3. to[a + 1] \in Nat /\ to[c + 1] \in Nat
      BY <1>5, <1>6, <3>1
    <3>4. to[a + 1] = to[c + 1]
      <4>1. PICK p, q : p = to[a + 1] /\ q = to[c + 1]
        OBVIOUS
      <4>2. p \in Nat /\ q \in Nat /\ p - 1 = q - 1
        BY <3>2, <3>3, <4>1
      <4>3. p = q
        BY <4>2
      <4> QED
        BY <4>1, <4>3
    <3>5. a + 1 = c + 1
      BY <1>8, <3>1, <3>4
    <3> QED
      BY <3>1, <3>5
  <2> HIDE DEF s
  <2>3. /\ DOMAIN Moved(s, t) = {t[a] : a \in DOMAIN s}
        /\ \A a \in DOMAIN s : Moved(s, t)[t[a]] = s[a]
    BY <2>2, MovedBlocks
  <2>4. Moved(s, t) = [a \in DOMAIN Moved(s, t) |-> Moved(s, t)[a]]
    BY DEF Moved
  <2>5. PICK m : m = Moved(s, t)
    OBVIOUS
  <2>6. \A y \in V : \E x \in U : to[x] = y /\ t[x - 1] = y - 1 /\ x - 1 \in DOMAIN s
    BY <1>5, <1>6, <1>7, <2>1
  <2>7. \A a \in DOMAIN s : \E x \in U : a = x - 1 /\ t[a] = to[x] - 1 /\ to[x] \in V
    <3> SUFFICES ASSUME NEW a \in DOMAIN h
                 PROVE  \E x \in U : a = x - 1 /\ t[a] = to[x] - 1 /\ to[x] \in V
      BY <2>1
    <3>1. PICK x \in U : a = x - 1
      BY <1>6
    <3> QED
      BY <1>5, <1>7, <3>1
  <2>8. DOMAIN m = DOMAIN k
    <3>1. \A a \in DOMAIN m : a \in DOMAIN k
      BY <1>6, <2>3, <2>5, <2>7
    <3>2. \A a \in DOMAIN k : a \in DOMAIN m
      BY <1>6, <2>3, <2>5, <2>6
    <3> QED
      BY <3>1, <3>2
  <2>9. ASSUME NEW a \in DOMAIN k PROVE m[a] = k[a]
    <3>1. PICK y \in V : a = y - 1
      BY <1>6
    <3>2. PICK x \in U : to[x] = y /\ t[x - 1] = y - 1 /\ x - 1 \in DOMAIN s
      BY <2>6
    <3>3. m[a] = s[x - 1]
      BY <2>3, <2>5, <3>1, <3>2
    <3> QED
      BY <1>11, <3>1, <3>2, <3>3
  <2> QED
    BY <1>6, <2>4, <2>5, <2>8, <2>9
<1>13. pin \in SUBSET DOMAIN h
  BY <1>4, <1>6
<1>14. Heap!Compact(pin)
  <2>1. Heap!Slide(h, pin, used) = t
    BY HeapSlide DEF t
  <2>2. Heap!Moved(s, t) = Moved(s, t)
    BY HeapMoved
  <2> HIDE DEF pin
  <2> QED
    BY <1>2, <1>12, <2>1, <2>2 DEF Heap!Compact, h
<1> QED
  BY <1>13, <1>14 DEF h

\* A new segment shows the empty heap.
LEMMA EmptyHeap == Init => Heap!Init
<1> SUFFICES ASSUME Init PROVE AbstractHeap = <<>>
  BY DEF Heap!Init
<1>1. Sane(blk, {Start}, {}) /\ Inner(blk) = {Start}
  BY InitSane
<1>2. Used(blk, {Start}, {}) = {}
  BY <1>1 DEF Used
<1>3. Inv /\ FreeBlocks = {Start}
  <2>1. Inv
    BY InitInv
  <2>2. FreeOf(blk) = {Start}
    BY <1>1, FreeIs
  <2> QED
    BY <2>1, <2>2 DEF FreeOf, FreeBlocks, Inner
<1>4. Seen(blk, {}, AbstractHeap)
  BY <1>2, <1>3, HeapNow
<1>5. DOMAIN AbstractHeap = {} /\ AbstractHeap = [a \in DOMAIN AbstractHeap |-> AbstractHeap[a]]
  BY <1>4 DEF Seen
<1> QED
  BY <1>5

\* Every step is one of the heap, or changes nothing in it.
LEMMA StepRefines == Inv /\ [Next]_vars => [Heap!Next]_AbstractHeap
<1> SUFFICES ASSUME Inv, [Next]_vars PROVE Heap!Next \/ AbstractHeap' = AbstractHeap
  OBVIOUS
<1>1. ASSUME NEW i \in Id, Free(i) PROVE Heap!Next
  BY <1>1, FreeRefines DEF Heap!Next
<1>2. ASSUME NEW i \in Id, NEW n \in Sizes, Malloc(i, n) PROVE Heap!Next
  BY <1>2, MallocRefines DEF Heap!Next
<1>3. ASSUME NEW pinned \in SUBSET Allocated, Defrag(pinned) PROVE Heap!Next
  BY <1>3, DefragRefines DEF Heap!Next
<1>4. CASE UNCHANGED vars
  BY <1>4 DEF vars, AbstractHeap, Allocated
<1> QED
  BY <1>1, <1>2, <1>3, <1>4 DEF Next

\* Best fit, splitting, merging, boundary tags and free list are invisible to the
\* cache: each call does to the clients' blocks what the heap of ApcAlloc allows.
THEOREM ImplementsHeapHolds == Spec => ImplementsHeap
<1>1. [][Next]_vars /\ []Inv => [][Heap!Next]_AbstractHeap
  BY StepRefines, PTL
<1> QED
  BY <1>1, EmptyHeap, Invariance, PTL DEF Spec, ImplementsHeap, Heap!Spec

-----------------------------------------------------------------------------
(* What the clients wrote into their blocks.                                  *)

\* The second pass fills the room that the first one computed.
Fills == \A x \in Values : DOMAIN ImageOf(x) = 0..(RoomFor(x) - 1)

\* The words of an image are at base and behind it.
Lies(w, base, image) ==
  \A off \in DOMAIN image : base + off \in DOMAIN w /\ w[base + off] = image[off]

\* The cells of the block at o, and those behind its header.
Span(b, o) == o..(o + b[o].fprev - 1)
Behind(b, o) == Span(b, o) \ {o}

Wrote(b, o, w, x) ==
  x \in Values /\ b[o].fprev = RoomFor(x) + 1 /\ Lies(w, o + 1, ImageOf(x))

\* Each block of U holds the value of its client, and nothing else is written.
Written(b, U, w, v) ==
  /\ DOMAIN w = UNION {Behind(b, o) : o \in U}
  /\ \A o \in U : b[o].data \in DOMAIN v /\ Wrote(b, o, w, v[b[o].data])

\* What one client wrote is apart from what others did.
LEMMA SpansApart ==
  ASSUME NEW b, NEW F, Sane(b, F, {}), NEW o \in Used(b, F, {})
  PROVE  /\ o \in Nat /\ b[o].fprev \in Nat /\ Span(b, o) \subseteq Nat
         /\ Behind(b, o) = (o + 1)..(o + b[o].fprev - 1)
         /\ \A p \in Used(b, F, {}) : \A a \in Span(b, o) : a \in Span(b, p) => p = o
<1>1. Headers(b) /\ Tiles(b) /\ Used(b, F, {}) \subseteq Inner(b)
  BY DEF Sane, Used
<1>2. ASSUME NEW p \in Used(b, F, {})
      PROVE  /\ p \in Nat /\ p > 1 /\ b[p].fprev \in Nat /\ b[p].fprev <= b[p].size /\ b[p].size \in Nat
             /\ Next_S(b, p) = p + b[p].size /\ p \in Inner(b)
  BY <1>1, NextIs, Constants DEF Sane, Busy
<1>3. ASSUME NEW p \in Used(b, F, {}), NEW a \in Span(b, p)
      PROVE  a \in Nat /\ a - 1 \in Nat /\ Covers(b, p, a - 1)
  <2>1. /\ p \in Nat /\ p > 1 /\ b[p].fprev \in Nat /\ b[p].fprev <= b[p].size /\ b[p].size \in Nat
        /\ Next_S(b, p) = p + b[p].size
    BY <1>2
  <2>2. a \in p..(p + b[p].fprev - 1)
    BY DEF Span
  <2> QED
    BY <2>1, <2>2 DEF Covers
<1>4. ASSUME NEW p \in Used(b, F, {}), NEW a \in Span(b, o), a \in Span(b, p) PROVE p = o
  <2>1. p \in Inner(b) /\ o \in Inner(b) /\ a - 1 \in Nat /\ Covers(b, p, a - 1) /\ Covers(b, o, a - 1)
    BY <1>2, <1>3, <1>4
  <2> QED
    BY <1>1, <2>1, CoversOnce
<1>5. Behind(b, o) = (o + 1)..(o + b[o].fprev - 1)
  BY <1>2 DEF Behind, Span
<1> QED
  BY <1>2, <1>3, <1>4, <1>5

\* u is w with an image of n words at base.
Copied(w, u, base, n, image) ==
  /\ DOMAIN u = DOMAIN w \cup base..(base + n - 1) /\ Lies(u, base, image)
  /\ \A a \in DOMAIN w : a \notin base..(base + n - 1) => u[a] = w[a]

\* Copying an image writes its words and no others.
LEMMA CopyToIs ==
  ASSUME NEW w, DOMAIN w \subseteq Nat, NEW base \in Nat, NEW n \in Nat,
         NEW image, DOMAIN image = 0..(n - 1)
  PROVE  Copied(w, CopyTo(w, base, image), base, n, image)
<1>1. {base + off : off \in 0..(n - 1)} = base..(base + n - 1)
  <2>1. ASSUME NEW a \in base..(base + n - 1) PROVE \E off \in 0..(n - 1) : a = base + off
    <3>1. a - base \in 0..(n - 1) /\ a = base + (a - base)
      OBVIOUS
    <3> QED
      BY <3>1
  <2> QED
    BY <2>1
<1>2. DOMAIN CopyTo(w, base, image) = DOMAIN w \cup base..(base + n - 1)
  BY <1>1 DEF CopyTo
<1>3. \A off \in 0..(n - 1) : base + off \in base..(base + n - 1) /\ (base + off) - base = off
  OBVIOUS
<1>4. Lies(CopyTo(w, base, image), base, image)
  BY <1>1, <1>2, <1>3 DEF CopyTo, Lies
<1>5. ASSUME NEW a \in DOMAIN w, a \notin base..(base + n - 1)
      PROVE  CopyTo(w, base, image)[a] = w[a]
  <2>1. a - base \notin 0..(n - 1)
    BY <1>5
  <2> QED
    BY <2>1 DEF CopyTo
<1> QED
  BY <1>2, <1>4, <1>5 DEF Copied

\* An image stays as long as its words do.
LEMMA LiesOn ==
  ASSUME NEW w, NEW base \in Nat, NEW n \in Nat, NEW image, DOMAIN image = 0..(n - 1),
         Lies(w, base, image), NEW u,
         \A a \in base..(base + n - 1) : a \in DOMAIN w => a \in DOMAIN u /\ u[a] = w[a]
  PROVE  Lies(u, base, image)
<1>1. \A off \in 0..(n - 1) : base + off \in base..(base + n - 1)
  OBVIOUS
<1> QED
  BY <1>1 DEF Lies

\* A block that is what it was, and whose words are, holds what it held.
LEMMA WroteOn ==
  ASSUME Fills, NEW b, NEW c, NEW o \in Nat, NEW w, NEW x, Wrote(b, o, w, x),
         c[o].fprev = b[o].fprev, NEW u,
         \A a \in Behind(b, o) : a \in DOMAIN w => a \in DOMAIN u /\ u[a] = w[a]
  PROVE  Wrote(c, o, u, x)
<1>1. x \in Values /\ RoomFor(x) \in Nat /\ b[o].fprev = RoomFor(x) + 1 /\ Lies(w, o + 1, ImageOf(x))
  BY ValuesAssumption DEF Wrote
<1>2. DOMAIN ImageOf(x) = 0..(RoomFor(x) - 1)
  BY <1>1 DEF Fills
<1>3. Behind(b, o) = (o + 1)..((o + 1) + RoomFor(x) - 1)
  BY <1>1 DEF Behind, Span
<1>4. PICK base, n, image : /\ base = o + 1 /\ n = RoomFor(x) /\ image = ImageOf(x)
                            /\ base \in Nat /\ n \in Nat
  BY <1>1
<1>5. Lies(u, base, image)
  BY <1>1, <1>2, <1>3, <1>4, LiesOn
<1> QED
  BY <1>1, <1>4, <1>5 DEF Wrote

\* A store writes into the new block only.
LEMMA StoreWrites ==
  ASSUME Fills, NEW b, NEW F, Sane(b, F, {}), NEW w, NEW v, Written(b, Used(b, F, {}), w, v),
         NEW i \in Id, NEW x \in Values, NEW o \in F, NEW c, NEW G,
         Gave(b, F, c, G, o, RoomFor(x) + 1, i),
         \A p \in Used(b, F, {}) : b[p].data # i
  PROVE  Written(c, Used(c, G, {}), CopyTo(w, Entry(o), ImageOf(x)), With(v, i, x))
<1> DEFINE U == Used(b, F, {})
           u == CopyTo(w, Entry(o), ImageOf(x))
           y == With(v, i, x)
<1>1. /\ Sane(c, G, {}) /\ Used(c, G, {}) = U \cup {o} /\ c[o].fprev = RoomFor(x) + 1 /\ c[o].data = i
      /\ \A p \in U : c[p].fprev = b[p].fprev /\ c[p].data = b[p].data
  BY DEF Gave, Alike
<1>2. o \notin U /\ RoomFor(x) \in Nat /\ DOMAIN ImageOf(x) = 0..(RoomFor(x) - 1) /\ Entry(o) = o + 1
  BY ValuesAssumption, Constants DEF Used, Fills, Entry
<1>3. \A p \in U \cup {o} : p \in Nat /\ c[p].fprev \in Nat /\ Behind(c, p) \subseteq Nat
  BY <1>1, SpansApart DEF Behind
<1>4. \A p \in U : Behind(b, p) = Behind(c, p)
  BY <1>1 DEF Behind, Span
<1>5. Behind(c, o) = (o + 1)..((o + 1) + RoomFor(x) - 1)
  BY <1>1, <1>2, <1>3, SpansApart
<1>6. DOMAIN w = UNION {Behind(b, p) : p \in U} /\ DOMAIN w \subseteq Nat
  <2>1. DOMAIN w = UNION {Behind(b, p) : p \in U}
    BY DEF Written
  <2> QED
    BY <1>3, <1>4, <2>1
<1>7. /\ DOMAIN u = DOMAIN w \cup Behind(c, o) /\ Lies(u, o + 1, ImageOf(x))
      /\ \A a \in DOMAIN w : a \notin Behind(c, o) => u[a] = w[a]
  <2>1. PICK base, n, image :
          /\ base = o + 1 /\ n = RoomFor(x) /\ image = ImageOf(x)
          /\ base \in Nat /\ n \in Nat /\ DOMAIN image = 0..(n - 1)
    BY <1>2, <1>3
  <2>2. u = CopyTo(w, base, image) /\ Behind(c, o) = base..(base + n - 1)
    BY <1>2, <1>5, <2>1
  <2> HIDE DEF u
  <2>3. Copied(w, CopyTo(w, base, image), base, n, image)
    BY <1>6, <2>1, CopyToIs
  <2> QED
    BY <2>1, <2>2, <2>3 DEF Copied
<1>8. /\ DOMAIN y = DOMAIN v \cup {i} /\ y[i] = x
      /\ \A j \in DOMAIN v : j # i => y[j] = v[j]
  BY DEF With
<1> HIDE DEF U, u, y
<1>9. DOMAIN u = UNION {Behind(c, p) : p \in U \cup {o}}
  BY <1>4, <1>6, <1>7
<1>10. ASSUME NEW p \in U PROVE c[p].data \in DOMAIN y /\ Wrote(c, p, u, y[c[p].data])
  <2>1. b[p].data \in DOMAIN v /\ Wrote(b, p, w, v[b[p].data]) /\ c[p].data = b[p].data /\ b[p].data # i
    BY <1>1 DEF Written, U
  <2>2. \A a \in Behind(b, p) : a \notin Behind(c, o)
    BY <1>1, <1>2, <1>4, SpansApart DEF Behind
  <2>3. \A a \in Behind(b, p) : a \in DOMAIN w => a \in DOMAIN u /\ u[a] = w[a]
    BY <1>7, <2>2
  <2>4. Wrote(c, p, u, v[b[p].data])
    BY <1>1, <1>3, <2>1, <2>3, WroteOn
  <2> QED
    BY <1>8, <2>1, <2>4
<1>11. c[o].data \in DOMAIN y /\ Wrote(c, o, u, y[c[o].data])
  BY <1>1, <1>7, <1>8 DEF Wrote
<1>12. Written(c, U \cup {o}, u, y)
  BY <1>9, <1>10, <1>11 DEF Written
<1> QED
  BY <1>1, <1>12 DEF U, u, y

\* A release takes the words of the freed block only.
LEMMA FreeWrites ==
  ASSUME Fills, NEW b, NEW F, Sane(b, F, {}), NEW w, NEW v, Written(b, Used(b, F, {}), w, v),
         NEW i, NEW o \in Used(b, F, {}), b[o].data = i, NEW c, NEW G, Took(b, F, c, G, o),
         \A p \in Used(b, F, {}) : b[p].data = i => p = o,
         NEW u, u = [a \in DOMAIN w \ Span(b, o) |-> w[a]]
  PROVE  Written(c, Used(c, G, {}), u, Drop(v, i))
<1> DEFINE U == Used(b, F, {})
           y == Drop(v, i)
<1>1. /\ Used(c, G, {}) = U \ {o}
      /\ \A p \in U \ {o} : c[p].fprev = b[p].fprev /\ c[p].data = b[p].data
  BY DEF Took, Alike
<1>2. \A p \in U : p \in Nat /\ \A q \in U : \A a \in Span(b, p) : a \in Span(b, q) => q = p
  BY SpansApart
<1>3. \A p \in U \ {o} : Behind(c, p) = Behind(b, p)
  BY <1>1 DEF Behind, Span
<1>4. DOMAIN w = UNION {Behind(b, p) : p \in U}
  BY DEF Written
<1>5. ASSUME NEW p \in U \ {o}, NEW a \in Behind(b, p) PROVE a \notin Span(b, o)
  BY <1>2 DEF Behind
<1>6. DOMAIN w \ Span(b, o) = UNION {Behind(b, p) : p \in U \ {o}}
  BY <1>4, <1>5 DEF Behind
<1>7. DOMAIN y = DOMAIN v \ {i} /\ \A j \in DOMAIN v \ {i} : y[j] = v[j]
  BY DEF Drop
<1> HIDE DEF U, y
<1>8. DOMAIN u = UNION {Behind(c, p) : p \in U \ {o}}
  BY <1>3, <1>6
<1>9. ASSUME NEW p \in U \ {o} PROVE c[p].data \in DOMAIN y /\ Wrote(c, p, u, y[c[p].data])
  <2>1. b[p].data \in DOMAIN v /\ Wrote(b, p, w, v[b[p].data]) /\ c[p].data = b[p].data /\ b[p].data # i
    BY <1>1 DEF Written, U
  <2>2. \A a \in Behind(b, p) : a \in DOMAIN w => a \in DOMAIN u /\ u[a] = w[a]
    BY <1>4, <1>5
  <2>3. Wrote(c, p, u, v[b[p].data])
    BY <1>1, <1>2, <2>1, <2>2, WroteOn
  <2> QED
    BY <1>7, <2>1, <2>3
<1> QED
  BY <1>1, <1>8, <1>9 DEF Written, U, y

\* The inverse of a function that is one to one.
LEMMA AntiFunctionIs ==
  ASSUME NEW f, \A x, y \in DOMAIN f : f[x] = f[y] => x = y
  PROVE  /\ DOMAIN AntiFunction(f) = {f[x] : x \in DOMAIN f}
         /\ \A x \in DOMAIN f : AntiFunction(f)[f[x]] = x
<1>1. DOMAIN AntiFunction(f) = {f[x] : x \in DOMAIN f}
  BY DEF AntiFunction, Inverse, Range
<1>2. ASSUME NEW x \in DOMAIN f PROVE AntiFunction(f)[f[x]] = x
  <2>1. AntiFunction(f)[f[x]] = CHOOSE s \in DOMAIN f : f[x] \in Range(f) => f[s] = f[x]
    BY DEF AntiFunction, Inverse, Range
  <2> DEFINE y == CHOOSE s \in DOMAIN f : f[x] \in Range(f) => f[s] = f[x]
  <2>2. f[x] \in Range(f)
    BY DEF Range
  <2>3. y \in DOMAIN f /\ f[y] = f[x]
    BY <2>2
  <2> QED
    BY <2>1, <2>3
<1> QED
  BY <1>1, <1>2

\* Where the cells behind the header at o are when the header is at q.
Shift(b, o, q) == {a + q - o : a \in Behind(b, o)}

\* u has the words of w, moved with the blocks that they are in.
TakenAlong(b, U, w, to, u) ==
  /\ DOMAIN u = UNION {Shift(b, o, to[o]) : o \in U}
  /\ \A o \in U : \A a \in Behind(b, o) : u[a + to[o] - o] = w[a]

\* The cells behind the block at o in b are those behind the one at q in c.
Follows(b, o, c, q) ==
  /\ Shift(b, o, q) = Behind(c, q)
  /\ \A off \in 0..(b[o].fprev - 2) :
       (o + 1) + off \in Behind(b, o) /\ ((o + 1) + off) + q - o = (q + 1) + off

\* A block that is moved keeps its cells.
LEMMA BehindMoves ==
  ASSUME NEW b, NEW o \in Nat, NEW c, NEW q \in Nat, NEW k \in Nat, b[o].fprev = k, c[q].fprev = k
  PROVE  Follows(b, o, c, q)
<1>1. Behind(b, o) = (o + 1)..(o + k - 1) /\ Behind(c, q) = (q + 1)..(q + k - 1)
  BY DEF Behind, Span
<1>2. ASSUME NEW x \in (q + 1)..(q + k - 1) PROVE \E a \in (o + 1)..(o + k - 1) : x = a + q - o
  <2>1. x - q + o \in (o + 1)..(o + k - 1) /\ x = (x - q + o) + q - o
    OBVIOUS
  <2> QED
    BY <2>1
<1>3. \A a \in (o + 1)..(o + k - 1) : a + q - o \in (q + 1)..(q + k - 1)
  OBVIOUS
<1>4. Shift(b, o, q) = Behind(c, q)
  BY <1>1, <1>2, <1>3 DEF Shift
<1>5. \A off \in 0..(k - 2) : (o + 1) + off \in Behind(b, o) /\ ((o + 1) + off) + q - o = (q + 1) + off
  BY <1>1
<1> QED
  BY <1>4, <1>5 DEF Follows

\* Each value moves with its block.
LEMMA MoveWrites ==
  ASSUME Fills, NEW b, NEW F, Sane(b, F, {}), NEW w, NEW v, Written(b, Used(b, F, {}), w, v),
         NEW pinned, NEW c, NEW gain, NEW to, NEW G, Compacts(b, F, pinned, c, gain, to, G),
         NEW u, TakenAlong(b, Used(b, F, {}), w, to, u)
  PROVE  Written(c, Used(c, G, {}), u, v)
<1> DEFINE U == Used(b, F, {})
           V == Used(c, G, {})
<1>1. /\ Sane(c, G, {}) /\ \A y \in V : \E x \in U : to[x] = y
      /\ \A x \in U : to[x] \in V /\ c[to[x]].data = b[x].data /\ c[to[x]].fprev = b[x].fprev
  BY DEF Compacts
<1>2. /\ \A x \in U : x \in Nat /\ b[x].fprev \in Nat
      /\ \A y \in V : y \in Nat
  BY <1>1, SpansApart
<1>3. DOMAIN w = UNION {Behind(b, x) : x \in U}
  BY DEF Written
<1> HIDE DEF U, V
<1>4. ASSUME NEW x \in U PROVE Follows(b, x, c, to[x])
  <2>1. /\ x \in Nat /\ to[x] \in Nat /\ b[x].fprev \in Nat /\ c[to[x]].fprev = b[x].fprev
    BY <1>1, <1>2
  <2> QED
    BY <2>1, BehindMoves
<1>5. DOMAIN u = UNION {Behind(c, y) : y \in V}
  <2>1. DOMAIN u = UNION {Shift(b, x, to[x]) : x \in U}
    BY DEF TakenAlong, U
  <2>2. \A x \in U : Shift(b, x, to[x]) = Behind(c, to[x])
    BY <1>4 DEF Follows
  <2> QED
    BY <1>1, <2>1, <2>2
<1>6. ASSUME NEW y \in V PROVE c[y].data \in DOMAIN v /\ Wrote(c, y, u, v[c[y].data])
  <2>1. PICK x \in U : to[x] = y
    BY <1>1
  <2>2. PICK z : z = v[b[x].data]
    OBVIOUS
  <2>3. b[x].data \in DOMAIN v /\ Wrote(b, x, w, z) /\ c[y].data = b[x].data /\ c[y].fprev = b[x].fprev
    BY <1>1, <2>1, <2>2 DEF Written, U
  <2>4. z \in Values /\ RoomFor(z) \in Nat /\ b[x].fprev = RoomFor(z) + 1 /\ Lies(w, x + 1, ImageOf(z))
    BY <2>3, ValuesAssumption DEF Wrote
  <2>5. DOMAIN ImageOf(z) = 0..(RoomFor(z) - 1)
    BY <2>4 DEF Fills
  <2>6. ASSUME NEW off \in DOMAIN ImageOf(z)
        PROVE  (y + 1) + off \in DOMAIN u /\ u[(y + 1) + off] = ImageOf(z)[off]
    <3>1. off \in 0..(b[x].fprev - 2)
      BY <2>4, <2>5
    <3>2. (x + 1) + off \in Behind(b, x) /\ ((x + 1) + off) + y - x = (y + 1) + off
      <4>1. Follows(b, x, c, y)
        BY <1>4, <2>1
      <4> QED
        BY <3>1, <4>1 DEF Follows
    <3>3. w[(x + 1) + off] = ImageOf(z)[off]
      BY <2>4 DEF Lies
    <3>4. u[(y + 1) + off] = w[(x + 1) + off]
      BY <2>1, <3>2 DEF TakenAlong, U
    <3>5. (y + 1) + off \in DOMAIN u
      <4>1. (y + 1) + off \in Shift(b, x, to[x])
        BY <2>1, <3>2 DEF Shift
      <4> QED
        BY <4>1 DEF TakenAlong, U
    <3> QED
      BY <3>3, <3>4, <3>5
  <2>7. Wrote(c, y, u, z)
    BY <2>3, <2>4, <2>6 DEF Wrote, Lies
  <2> QED
    BY <2>2, <2>3, <2>7
<1> QED
  BY <1>5, <1>6 DEF Written, V

\* Every value is in the block of its client, to the last word.
ValuesInv == Inv /\ Written(blk, Used(blk, FreeBlocks, {}), word, what)

\* memmove() takes all words of a block along.
LEMMA CarriedIs ==
  ASSUME Inv, NEW v, Written(blk, Used(blk, FreeBlocks, {}), word, v),
         NEW pinned, NEW c, NEW gain, NEW to, NEW G, NEW s, s.to = to,
         Compacts(blk, FreeBlocks, pinned, c, gain, to, G)
  PROVE  TakenAlong(blk, Used(blk, FreeBlocks, {}), word, to, Carried(s))
<1> DEFINE U == Used(blk, FreeBlocks, {})
           V == Used(c, G, {})
           Owner(a) == CHOOSE o \in Allocated : a \in Cell(o)
           shift == [a \in DOMAIN word |-> a + s.to[Owner(a)] - Owner(a)]
<1>1. Sane(blk, FreeBlocks, {}) /\ Allocated = U /\ Clients(blk, U, held)
  BY SoundNow DEF Inv, Sound
<1>2. /\ Sane(c, G, {})
      /\ \A x \in U : to[x] \in V /\ c[to[x]].data = blk[x].data /\ c[to[x]].fprev = blk[x].fprev
  BY DEF Compacts
<1>3. \A x, y \in U : to[x] = to[y] => x = y
  BY <1>1, <1>2 DEF Clients
<1>4. DOMAIN word = UNION {Behind(blk, x) : x \in U}
  BY DEF Written
<1> HIDE DEF U, V
<1>5. \A x \in U : /\ x \in Nat /\ Behind(blk, x) \subseteq Span(blk, x) /\ Span(blk, x) \subseteq Nat
                   /\ \A y \in U : \A a \in Span(blk, x) : a \in Span(blk, y) => y = x
                   /\ blk[x].fprev \in Nat /\ to[x] \in Nat
  BY <1>1, <1>2, SpansApart DEF Behind, U, V
<1>6. ASSUME NEW x \in U, NEW a \in Behind(blk, x) PROVE Owner(a) = x
  <2>1. \A o \in Allocated : Cell(o) = Span(blk, o)
    BY DEF Cell, Span
  <2>2. x \in Allocated /\ a \in Cell(x) /\ \A o \in Allocated : a \in Cell(o) => o = x
    BY <1>1, <1>5, <2>1
  <2> QED
    BY <2>2
<1>7. ASSUME NEW x \in U, NEW a \in Behind(blk, x)
      PROVE  a \in DOMAIN word /\ a \in Nat /\ shift[a] = a + to[x] - x
  BY <1>4, <1>5, <1>6
<1> HIDE DEF Owner
<1>8. ASSUME NEW x \in U, NEW a \in Behind(blk, x) PROVE shift[a] \in Behind(c, to[x])
  <2>1. Follows(blk, x, c, to[x])
    <3>1. x \in Nat /\ to[x] \in Nat /\ blk[x].fprev \in Nat /\ c[to[x]].fprev = blk[x].fprev
      BY <1>2, <1>5
    <3> QED
      BY <3>1, BehindMoves
  <2> QED
    BY <1>7, <2>1 DEF Follows, Shift
<1> HIDE DEF shift
<1>9. ASSUME NEW a \in DOMAIN shift, NEW e \in DOMAIN shift, shift[a] = shift[e] PROVE a = e
  <2>1. PICK x \in U, y \in U : a \in Behind(blk, x) /\ e \in Behind(blk, y)
    BY <1>4 DEF shift
  <2>2. shift[a] \in Behind(c, to[x]) /\ shift[a] \in Behind(c, to[y])
    BY <1>8, <1>9, <2>1
  <2>3. to[x] = to[y]
    BY <1>2, <2>2, SpansApart DEF Behind, V
  <2>4. x = y
    BY <1>3, <2>3
  <2> QED
    BY <1>5, <1>7, <1>9, <2>1, <2>4
<1>10. /\ DOMAIN AntiFunction(shift) = {shift[a] : a \in DOMAIN shift}
       /\ \A a \in DOMAIN shift : AntiFunction(shift)[shift[a]] = a
  BY <1>9, AntiFunctionIs
<1>11. Carried(s) = [y \in DOMAIN AntiFunction(shift) |-> word[AntiFunction(shift)[y]]]
  BY DEF Carried, shift, Owner
<1>12. DOMAIN shift = DOMAIN word
  BY DEF shift
<1>13. DOMAIN Carried(s) = UNION {Shift(blk, x, to[x]) : x \in U}
  <2>1. DOMAIN Carried(s) = {shift[a] : a \in DOMAIN word}
    BY <1>10, <1>11, <1>12
  <2>2. ASSUME NEW a \in DOMAIN word PROVE \E x \in U : shift[a] \in Shift(blk, x, to[x])
    BY <1>4, <1>7 DEF Shift
  <2>3. ASSUME NEW x \in U, NEW e \in Shift(blk, x, to[x]) PROVE \E a \in DOMAIN word : e = shift[a]
    BY <1>7 DEF Shift
  <2> QED
    BY <2>1, <2>2, <2>3
<1>14. ASSUME NEW x \in U, NEW a \in Behind(blk, x) PROVE Carried(s)[a + to[x] - x] = word[a]
  BY <1>7, <1>10, <1>11, <1>12
<1> QED
  BY <1>13, <1>14 DEF TakenAlong, U

\* A new segment holds nothing.
LEMMA NothingWritten == VInit => ValuesInv
<1> SUFFICES ASSUME VInit PROVE ValuesInv
  OBVIOUS
<1>1. Init /\ word = <<>>
  BY DEF VInit
<1>2. Inv /\ Sane(blk, {Start}, {}) /\ Inner(blk) = {Start}
  BY <1>1, InitInv, InitSane
<1>3. Used(blk, FreeBlocks, {}) = {}
  <2>1. FreeOf(blk) = {Start}
    BY <1>2, FreeIs
  <2>2. FreeBlocks = FreeOf(blk)
    BY DEF FreeBlocks, FreeOf, Inner
  <2> QED
    BY <1>2, <2>1, <2>2 DEF Used
<1>4. DOMAIN word = {}
  BY <1>1
<1> QED
  BY <1>2, <1>3, <1>4 DEF ValuesInv, Written

\* Storing a value, freeing one, and defragmentation are steps of the allocator.
LEMMA StepsOfSma == [VNext]_vvars => [Next]_vars
<1> SUFFICES ASSUME [VNext]_vvars PROVE [Next]_vars
  OBVIOUS
<1>1. ASSUME NEW i \in Id, FreeValue(i) PROVE Next
  BY <1>1 DEF FreeValue, Next
<1>2. ASSUME NEW i \in Id, NEW x \in Values, StoreValue(i, x) PROVE Next
  <2>1. RoomFor(x) + Hdr \in Sizes
    BY ValuesAssumption
  <2> QED
    BY <1>2, <2>1 DEF StoreValue, Next
<1>3. ASSUME NEW pinned \in SUBSET Allocated, DefragValues(pinned) PROVE Next
  BY <1>3 DEF DefragValues, Next
<1>4. CASE UNCHANGED vvars
  BY <1>4 DEF vvars
<1> QED
  BY <1>1, <1>2, <1>3, <1>4 DEF VNext

\* apc_persist() keeps the values of the others.
LEMMA StoreKeeps ==
  ASSUME Fills, ValuesInv, NEW i \in Id, NEW x \in Values, StoreValue(i, x)
  PROVE  ValuesInv'
<1>1. /\ Inv /\ Sane(blk, FreeBlocks, {}) /\ Clients(blk, Used(blk, FreeBlocks, {}), held)
      /\ Written(blk, Used(blk, FreeBlocks, {}), word, what)
  BY DEF ValuesInv, Inv, Sound
<1>2. /\ Malloc(i, RoomFor(x) + 1) /\ RoomFor(x) + 1 \in Sizes
      /\ word' = CopyTo(word, Entry(held'[i]), ImageOf(x)) /\ what' = With(what, i, x)
  BY ValuesAssumption, Constants DEF StoreValue
<1>3. PICK o, G : /\ o \in FreeBlocks /\ Gave(blk, FreeBlocks, blk', G, o, RoomFor(x) + 1, i)
                  /\ Sound(blk', G, avail', held')
  BY <1>1, <1>2, MallocStep
<1>4. Inv' /\ FreeBlocks' = G
  BY <1>3, SoundNext
<1>5. held'[i] = o
  BY <1>3 DEF Gave, Sound, Clients
<1>6. ASSUME NEW p \in Used(blk, FreeBlocks, {}) PROVE blk[p].data # i
  <2>1. held[i] = 0 /\ held[blk[p].data] = p
    BY <1>1, <1>2, MallocStep DEF Clients
  <2>2. p \in Inner(blk) /\ Headers(blk)
    BY <1>1 DEF Used, Sane
  <2>3. p # 0
    BY <2>2, Offsets, Constants
  <2> QED
    BY <2>1, <2>3
<1>7. Written(blk', Used(blk', G, {}), word', what')
  BY <1>1, <1>2, <1>3, <1>5, <1>6, StoreWrites
<1> QED
  BY <1>4, <1>7 DEF ValuesInv

\* apc_sma_free() keeps the values of the others.
LEMMA FreeKeeps ==
  ASSUME Fills, ValuesInv, NEW i \in Id, FreeValue(i)
  PROVE  ValuesInv'
<1>1. /\ Inv /\ Sane(blk, FreeBlocks, {}) /\ Clients(blk, Used(blk, FreeBlocks, {}), held)
      /\ Written(blk, Used(blk, FreeBlocks, {}), word, what)
  BY DEF ValuesInv, Inv, Sound
<1>2. PICK o : o = held[i]
  OBVIOUS
<1>3. /\ Free(i) /\ word' = [a \in DOMAIN word \ Span(blk, o) |-> word[a]] /\ what' = Drop(what, i)
  BY <1>2 DEF FreeValue, Cell, Span
<1>4. /\ o \in Used(blk, FreeBlocks, {}) /\ blk[o].data = i
      /\ \E G : Took(blk, FreeBlocks, blk', G, o) /\ Sound(blk', G, avail', held')
  BY <1>1, <1>2, <1>3, FreeStep
<1>5. PICK G : Took(blk, FreeBlocks, blk', G, o) /\ Sound(blk', G, avail', held')
  BY <1>4
<1>6. Inv' /\ FreeBlocks' = G
  BY <1>5, SoundNext
<1>7. \A p \in Used(blk, FreeBlocks, {}) : blk[p].data = i => p = o
  BY <1>1, <1>2 DEF Clients
<1>8. Written(blk', Used(blk', G, {}), word', what')
  BY <1>1, <1>3, <1>4, <1>5, <1>7, FreeWrites
<1> QED
  BY <1>6, <1>8 DEF ValuesInv

\* apc_sma_defrag() keeps all values.
LEMMA DefragKeeps ==
  ASSUME Fills, ValuesInv, NEW pinned, DefragValues(pinned)
  PROVE  ValuesInv'
<1>1. /\ Inv /\ Sane(blk, FreeBlocks, {})
      /\ Written(blk, Used(blk, FreeBlocks, {}), word, what)
  BY DEF ValuesInv, Inv, Sound
<1>2. Defrag(pinned) /\ what' = what /\ word' = Carried(Compacted(blk, pinned))
  BY DEF DefragValues
<1>3. PICK gain, to, G : /\ Compacted(blk, pinned).to = to
                         /\ Compacts(blk, FreeBlocks, pinned, blk', gain, to, G)
                         /\ Sound(blk', G, avail', held')
  BY <1>1, <1>2, DefragStep
<1>4. Inv' /\ FreeBlocks' = G
  BY <1>3, SoundNext
<1>5. TakenAlong(blk, Used(blk, FreeBlocks, {}), word, to, word')
  BY <1>1, <1>2, <1>3, CarriedIs
<1>6. Written(blk', Used(blk', G, {}), word', what')
  BY <1>1, <1>2, <1>3, <1>5, MoveWrites
<1> QED
  BY <1>4, <1>6 DEF ValuesInv

\* Every step keeps the values where their clients look for them.
LEMMA ValuesKept == ASSUME Fills PROVE ValuesInv /\ [VNext]_vvars => ValuesInv'
<1> SUFFICES ASSUME ValuesInv, [VNext]_vvars PROVE ValuesInv'
  OBVIOUS
<1>1. ASSUME NEW i \in Id, FreeValue(i) PROVE ValuesInv'
  BY <1>1, FreeKeeps
<1>2. ASSUME NEW i \in Id, NEW x \in Values, StoreValue(i, x) PROVE ValuesInv'
  BY <1>2, StoreKeeps
<1>3. ASSUME NEW pinned \in SUBSET Allocated, DefragValues(pinned) PROVE ValuesInv'
  BY <1>3, DefragKeeps
<1>4. CASE UNCHANGED vvars
  BY <1>4 DEF vvars, vars, ValuesInv, Inv, Sound, FreeBlocks
<1> QED
  BY <1>1, <1>2, <1>3, <1>4 DEF VNext

\* What apc_unpersist() reads depends on the words of the entry, which point to
\* each other by offsets, and not on where they are.
Relocates ==
  \A mem : \A x \in Values, base \in Nat :
    Lies(mem, base, ImageOf(x)) => ReadBack(mem, base) = ReadBack(ImageOf(x), 0)

\* A value that stays where it was written is read back.
RoundTrip == \A x \in Values : Equal(x, ReadBack(ImageOf(x), 0))

\* The allocator does not look into its blocks: what holds of it, holds of it with
\* apc_persist() writing values into them.
THEOREM ValuesAreTransparent == VSpec => Spec
<1>1. VInit => Init
  BY DEF VInit
<1> QED
  BY <1>1, StepsOfSma, PTL DEF VSpec, Spec

\* However blocks are split, merged and moved, the words in the segment are the
\* cells behind the headers of the allocated blocks, all of them and no others, if
\* each image fills the room that the first pass of apc_persist() computed.
THEOREM SizesAgreeHolds == ASSUME Fills PROVE VSpec => []SizesAgree
<1>1. ValuesInv => SizesAgree
  <2> SUFFICES ASSUME ValuesInv PROVE SizesAgree
    OBVIOUS
  <2>1. Allocated = Used(blk, FreeBlocks, {})
    BY SoundNow DEF ValuesInv, Inv
  <2>2. \A o \in Allocated : Cell(o) \ {o} = Behind(blk, o)
    BY DEF Cell, Behind, Span
  <2>3. DOMAIN word = UNION {Behind(blk, o) : o \in Allocated}
    BY <2>1 DEF ValuesInv, Written
  <2> QED
    BY <2>2, <2>3 DEF SizesAgree
<1> QED
  BY <1>1, NothingWritten, ValuesKept, PTL DEF VSpec

\* However blocks are split, merged and moved, every client of apc_persist() and
\* apc_unpersist() reads its own value back, if reading an image alone gives the
\* value and reading it elsewhere, among others, gives the same.
THEOREM ValuesIntactHolds ==
  ASSUME Fills, RoundTrip, Relocates
  PROVE  VSpec => []ValuesIntact
<1>1. ValuesInv => ValuesIntact
  <2> SUFFICES ASSUME ValuesInv PROVE ValuesIntact
    OBVIOUS
  <2>1. /\ Allocated = Used(blk, FreeBlocks, {}) /\ Clients(blk, Allocated, held)
        /\ Sane(blk, FreeBlocks, {}) /\ Written(blk, Allocated, word, what)
    BY SoundNow DEF ValuesInv, Inv, Sound
  <2>2. \A o \in Allocated : o \in Nat /\ o # 0 /\ blk[o].data \in Id
    <3>1. Headers(blk) /\ Allocated \subseteq Inner(blk)
      BY <2>1 DEF Sane, Used
    <3> QED
      BY <2>1, <3>1, Offsets, Constants DEF Sane, Busy
  <2>3. ASSUME NEW i \in Id, held[i] # 0 PROVE Equal(what[i], ReadBack(word, Entry(held[i])))
    <3>1. held[i] \in Allocated /\ blk[held[i]].data = i
      BY <2>1, <2>3 DEF Clients
    <3>2. what[i] \in Values /\ Lies(word, held[i] + 1, ImageOf(what[i]))
      BY <2>1, <3>1 DEF Written, Wrote
    <3>3. held[i] + 1 \in Nat /\ Entry(held[i]) = held[i] + 1
      BY <2>2, <3>1, Constants DEF Entry
    <3>4. ReadBack(word, Entry(held[i])) = ReadBack(ImageOf(what[i]), 0)
      BY <3>2, <3>3 DEF Relocates
    <3> QED
      BY <3>2, <3>4 DEF RoundTrip
  <2>4. Allocated = {held[i] : i \in {j \in Id : held[j] # 0}}
    <3>1. \A o \in Allocated : blk[o].data \in Id /\ held[blk[o].data] = o /\ o # 0
      BY <2>1, <2>2 DEF Clients
    <3>2. \A i \in Id : held[i] # 0 => held[i] \in Allocated
      BY <2>1 DEF Clients
    <3> QED
      BY <3>1, <3>2
  <2> QED
    BY <2>3, <2>4 DEF ValuesIntact
<1> QED
  BY <1>1, NothingWritten, ValuesKept, PTL DEF VSpec
=============================================================================
