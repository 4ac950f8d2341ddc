-------------------------- MODULE ApcNamedShm_proofs --------------------------
(***************************************************************************)
(* For any number of processes, any set of builds and settings, and        *)
(* wherever processes die: nobody uses a segment that is not complete, an  *)
(* attaching process waits only for a creator that is gone, and workers    *)
(* whose settings are settled read each other's entries.                   *)
(***************************************************************************)
EXTENDS ApcNamedShm, TLAPS

(***************************************************************************)
(* The inductive invariant says what each stage of the setup may rely on:  *)
(* a creator is alone with its segment and has written what its stage      *)
(* says; what is complete was written in order; and an incomplete segment  *)
(* has either its creator at work or nobody who will complete it.          *)
(***************************************************************************)
Locked == {"open", "unlock"} \cup Creating \cup Attaching
Done == {"unlock"} \cup Using
Attached == Creating \cup Attaching \cup Done

MutexHeld == \A p \in Proc : pc[p] \in Locked <=> mutex = p

HandlesHeld ==
  \A p \in Proc :
    /\ pc[p] \in Attached => p \in handles
    /\ p \in handles => pc[p] \in Attached \cup {"dying"}

\* What the creator has written when it is about to take the step pc says.
CreatorAlone ==
  \A p \in Proc : pc[p] \in Creating =>
    /\ handles = {p} /\ value = Empty
    /\ ~seg.init_complete /\ seg.actual = conf[p].size
    /\ pc[p] = "header" => seg.abi = 0
    /\ pc[p] # "header" =>
         seg.abi = conf[p].abi /\ seg.seg_size = conf[p].size /\ size[p] = conf[p].size
    /\ pc[p] \in {"cache", "layout", "name", "complete"} => seg.list
    /\ pc[p] \in {"layout", "name", "complete"} => seg.cache
    /\ pc[p] \in {"name", "complete"} => seg.layout
    /\ pc[p] = "complete" => seg.name = conf[p].serializer

\* A field that is set has those before it set.
WrittenInOrder ==
  seg # NoSeg =>
    /\ seg.abi # 0 => seg.seg_size = seg.actual
    /\ seg.init_complete => seg.list /\ seg.cache /\ seg.layout /\ seg.name # ""

IncompleteIsOrphan ==
  (seg # NoSeg /\ ~seg.init_complete) =>
    seg.orphan \/ \E p \in Proc : pc[p] \in Creating

\* What the attaching processes have checked.
AttachedChecked ==
  \A p \in Proc : pc[p] \in {"await", "match"} =>
    /\ seg.abi = conf[p].abi /\ size[p] = seg.seg_size
    /\ pc[p] = "match" => seg.init_complete

DoneChecked ==
  \A p \in Proc : pc[p] \in Done =>
    /\ seg.list /\ seg.cache /\ seg.layout
    /\ seg.abi = conf[p].abi /\ size[p] = seg.seg_size
    /\ IF seg.init_complete THEN seg.name = conf[p].serializer
       ELSE conf[p].serializer \in LongNames

\* Only its creator can use a segment that was never declared complete.
IncompleteHasOneUser ==
  \A p, q \in Proc :
    (pc[p] \in Done /\ pc[q] \in Done /\ ~seg.init_complete) => p = q

\* What is stored goes with the segment.
ValueInSegment == handles = {} => value = Empty

SetupInv ==
  /\ MutexHeld
  /\ HandlesHeld
  /\ CreatorAlone
  /\ WrittenInOrder
  /\ IncompleteIsOrphan
  /\ AttachedChecked
  /\ DoneChecked
  /\ IncompleteHasOneUser

\* Every worker's serializer is there in the end, and nobody preloads before it.
Settled == \A c \in Configs : c.ext /\ (c.preload => c.serializer = "php")

SerializerFound ==
  \A p \in Proc :
    /\ pc[p] \in {"layout", "name", "complete", "unlock", "preload", "ready"} =>
         serializer[p] = FoundInMinit(p)
    /\ pc[p] = "up" => serializer[p] = conf[p].serializer

\* All users agree on the format of what is stored, and so will newcomers.
OneFormat ==
  value # Empty =>
    /\ seg.init_complete => value = seg.name
    /\ \A p \in Proc : pc[p] \in Done => value = conf[p].serializer

FormatInv == SerializerFound /\ OneFormat

IInv == TypeOK /\ ValueInSegment /\ SetupInv

-----------------------------------------------------------------------------
(* Type correctness.  A write to the segment keeps it a segment only if there
   is one: HandlesHeld has to be known. *)

LEMMA Constants ==
  /\ \E c \in Configs : TRUE
  /\ MinSize \in Nat /\ MaxStarts \in Nat /\ MaxCrashes \in Nat
  /\ NoProc \notin Proc /\ NoSeg \notin Segment
BY ShmAssumption, NoSegAssumption

LEMMA ConfigTypes ==
  ASSUME NEW c \in Configs
  PROVE  /\ c.size \in Sizes /\ c.serializer \in Names
         /\ c.size \in Nat \ {0} /\ c.abi \in Nat \ {0}
         /\ c.ext \in BOOLEAN /\ c.preload \in BOOLEAN /\ c.serializer # ""
BY ShmAssumption DEF Sizes, Names

\* The pages of a new mapping are a segment without header.
LEMMA ZeroedSegment ==
  ASSUME NEW n \in Sizes
  PROVE  Zeroed(n) \in Segment /\ Zeroed(n) # NoSeg
<1>1. Zeroed(n) \in Segment
  BY DEF Zeroed, Segment
<1> QED
  BY <1>1, NoSegAssumption

SameBut(F, s, t) ==
  /\ "actual" \notin F => t.actual = s.actual
  /\ "abi" \notin F => t.abi = s.abi
  /\ "seg_size" \notin F => t.seg_size = s.seg_size
  /\ "list" \notin F => t.list = s.list
  /\ "cache" \notin F => t.cache = s.cache
  /\ "layout" \notin F => t.layout = s.layout
  /\ "name" \notin F => t.name = s.name
  /\ "init_complete" \notin F => t.init_complete = s.init_complete
  /\ "orphan" \notin F => t.orphan = s.orphan

\* Every write of the setup leaves a segment, and the others of its fields alone.
LEMMA SegmentWrites ==
  ASSUME NEW s \in Segment
  PROVE  /\ s # NoSeg
         /\ LET t == [s EXCEPT !.orphan = TRUE]
            IN  t \in Segment /\ t.orphan /\ SameBut({"orphan"}, s, t)
         /\ LET t == [s EXCEPT !.list = TRUE]
            IN  t \in Segment /\ t.list /\ SameBut({"list"}, s, t)
         /\ LET t == [s EXCEPT !.cache = TRUE]
            IN  t \in Segment /\ t.cache /\ SameBut({"cache"}, s, t)
         /\ LET t == [s EXCEPT !.layout = TRUE]
            IN  t \in Segment /\ t.layout /\ SameBut({"layout"}, s, t)
         /\ LET t == [s EXCEPT !.init_complete = TRUE]
            IN  t \in Segment /\ t.init_complete /\ SameBut({"init_complete"}, s, t)
         /\ \A c \in Configs :
              LET t == [s EXCEPT !.name = c.serializer]
              IN  t \in Segment /\ t.name = c.serializer /\ SameBut({"name"}, s, t)
         /\ \A c \in Configs :
              LET t == [s EXCEPT !.abi = c.abi, !.seg_size = c.size]
              IN  /\ t \in Segment /\ t.abi = c.abi /\ t.seg_size = c.size
                  /\ SameBut({"abi", "seg_size"}, s, t)
<1>1. s # NoSeg
  BY NoSegAssumption
<1>2. \A c \in Configs : c.size \in Sizes \cup {0} /\ c.serializer \in Names \cup {""}
  BY ConfigTypes
<1>3. ASSUME NEW c \in Configs
      PROVE  LET t == [s EXCEPT !.abi = c.abi, !.seg_size = c.size]
             IN  /\ t \in Segment /\ t.abi = c.abi /\ t.seg_size = c.size
                 /\ SameBut({"abi", "seg_size"}, s, t)
  BY <1>2 DEF Segment, SameBut
<1>4. ASSUME NEW c \in Configs
      PROVE  LET t == [s EXCEPT !.name = c.serializer]
             IN  t \in Segment /\ t.name = c.serializer /\ SameBut({"name"}, s, t)
  BY <1>2 DEF Segment, SameBut
<1>5. LET t == [s EXCEPT !.orphan = TRUE]
      IN  t \in Segment /\ t.orphan /\ SameBut({"orphan"}, s, t)
  BY DEF Segment, SameBut
<1>6. LET t == [s EXCEPT !.list = TRUE]
      IN  t \in Segment /\ t.list /\ SameBut({"list"}, s, t)
  BY DEF Segment, SameBut
<1>7. LET t == [s EXCEPT !.cache = TRUE]
      IN  t \in Segment /\ t.cache /\ SameBut({"cache"}, s, t)
  BY DEF Segment, SameBut
<1>8. LET t == [s EXCEPT !.layout = TRUE]
      IN  t \in Segment /\ t.layout /\ SameBut({"layout"}, s, t)
  BY DEF Segment, SameBut
<1>9. LET t == [s EXCEPT !.init_complete = TRUE]
      IN  t \in Segment /\ t.init_complete /\ SameBut({"init_complete"}, s, t)
  BY DEF Segment, SameBut
<1> QED
  BY <1>1, <1>3, <1>4, <1>5, <1>6, <1>7, <1>8, <1>9

LEMMA HasSegment ==
  ASSUME TypeOK, HandlesHeld, NEW p \in Proc, pc[p] \in Attached
  PROVE  p \in handles /\ seg \in Segment
BY DEF TypeOK, HandlesHeld

LEMMA TypeInit == Init => TypeOK
<1> SUFFICES ASSUME Init PROVE TypeOK
  OBVIOUS
<1>1. (CHOOSE c \in Configs : TRUE) \in Configs
  BY Constants
<1>2. 0 \in 0..MaxStarts /\ 0 \in 0..MaxCrashes
  BY Constants
<1> QED
  BY <1>1, <1>2 DEF Init, TypeOK

\* The end of a process, of whichever kind.
LEMMA TypeEnds ==
  ASSUME TypeOK, HandlesHeld, NEW p \in Proc, Ends(p), crashes' \in 0..MaxCrashes
  PROVE  TypeOK'
<1>1. seg' \in Segment \cup {NoSeg} /\ (seg' = NoSeg) = (handles' = {})
  <2>1. CASE pc[p] \in Creating
    BY <2>1, HasSegment, SegmentWrites DEF Ends, TypeOK, Attached
  <2>2. CASE pc[p] \notin Creating
    BY <2>2 DEF Ends, TypeOK
  <2> QED
    BY <2>1, <2>2
<1> QED
  BY <1>1 DEF Ends, Forget, TypeOK

LEMMA TypeStep == TypeOK /\ HandlesHeld /\ [Next]_vars => TypeOK'
<1> SUFFICES ASSUME TypeOK, HandlesHeld, [Next]_vars PROVE TypeOK'
  OBVIOUS
<1> USE DEF Step
<1>1. ASSUME NEW p \in Proc, NEW c \in Configs, Start(p, c) PROVE TypeOK'
  <2>1. starts \in 0..MaxStarts /\ MaxStarts \in Nat
    BY Constants DEF TypeOK
  <2>2. starts < MaxStarts /\ starts' = starts + 1
    BY <1>1 DEF Start
  <2>3. starts' \in 0..MaxStarts
    BY <2>1, <2>2
  <2> QED
    BY <1>1, <2>3 DEF Start, TypeOK, Starting
<1>2. ASSUME NEW p \in Proc, Fatal(p) PROVE TypeOK'
  BY <1>2, TypeEnds DEF Fatal, TypeOK
<1>3. ASSUME NEW p \in Proc, Crash(p) PROVE TypeOK'
  <2>1. crashes \in 0..MaxCrashes /\ MaxCrashes \in Nat
    BY Constants DEF TypeOK
  <2>2. crashes < MaxCrashes /\ crashes' = crashes + 1
    BY <1>3 DEF Crash
  <2>3. crashes' \in 0..MaxCrashes
    BY <2>1, <2>2
  <2> QED
    BY <1>3, <2>3, TypeEnds DEF Crash
<1>4. ASSUME NEW p \in Proc, Open(p) PROVE TypeOK'
  <2>1. conf[p].size \in Sizes
    BY ConfigTypes DEF TypeOK
  <2>2. CASE seg = NoSeg
    BY <1>4, <2>1, <2>2, ZeroedSegment DEF Open, TypeOK, Starting, Creating
  <2>3. CASE seg # NoSeg
    BY <1>4, <2>3 DEF Open, TypeOK, Starting, Attaching
  <2> QED
    BY <2>2, <2>3
<1>5. ASSUME NEW p \in Proc,
             InitHeader(p) \/ InitFreeList(p) \/ CreateCache(p) \/ SetLayout(p)
               \/ SetName(p) \/ NameTooLong(p) \/ Complete(p)
      PROVE  TypeOK'
  <2>1. seg \in Segment
    BY <1>5, HasSegment DEF InitHeader, InitFreeList, CreateCache, SetLayout, SetName,
       NameTooLong, Complete, Attached, Creating
  <2>2. conf[p] \in Configs
    BY DEF TypeOK
  <2>3. seg' \in Segment /\ seg' # NoSeg /\ seg # NoSeg
    BY <1>5, <2>1, <2>2, SegmentWrites, NoSegAssumption DEF InitHeader, InitFreeList,
       CreateCache, SetLayout, SetName, NameTooLong, Complete, Writes
  <2>4. size' \in [Proc -> Sizes \cup {0}]
    BY <1>5, <2>2, ConfigTypes DEF InitHeader, InitFreeList, CreateCache, SetLayout,
       SetName, NameTooLong, Complete, Writes, TypeOK
  <2>5. serializer' \in [Proc -> Names \cup {""}]
    BY <1>5 DEF InitHeader, InitFreeList, CreateCache, SetLayout, SetName, NameTooLong,
       Complete, Writes, TypeOK, FoundInMinit, Names
  <2>6. pc' \in [Proc -> Starting \cup Using \cup {"down", "dying"}]
    <3>1. PICK to \in Creating \cup {"unlock"} : pc' = [pc EXCEPT ![p] = to]
      BY <1>5 DEF InitHeader, InitFreeList, CreateCache, SetLayout, SetName, NameTooLong,
         Complete, Creating
    <3> QED
      BY <3>1 DEF TypeOK, Starting
  <2>7. UNCHANGED <<handles, mutex, value, conf, starts, crashes>>
    BY <1>5 DEF InitHeader, InitFreeList, CreateCache, SetLayout, SetName, NameTooLong,
       Complete, Writes
  <2> QED
    BY <2>3, <2>4, <2>5, <2>6, <2>7 DEF TypeOK
<1>6. ASSUME NEW p \in Proc, Attach(p) PROVE TypeOK'
  <2>1. seg \in Segment
    BY <1>6, HasSegment DEF Attach, Attached, Attaching
  <2>2. seg.seg_size > 0 => seg.seg_size \in Sizes
    <3>1. seg.seg_size \in Sizes \cup {0}
      BY <2>1 DEF Segment
    <3>2. ~(0 > 0)
      OBVIOUS
    <3> QED
      BY <3>1, <3>2
  <2>3. seg.actual \in Sizes
    BY <2>1 DEF Segment
  <2>4. size' \in [Proc -> Sizes \cup {0}]
    BY <1>6, <2>2, <2>3 DEF Attach, TypeOK
  <2> QED
    BY <1>6, <2>4 DEF Attach, TypeOK, Starting, Attaching
<1>7. ASSUME NEW p \in Proc, Lock(p) \/ Await(p) \/ AttachCache(p) \/ Unlock(p)
      PROVE  TypeOK'
  BY <1>7 DEF Lock, Await, Same, AttachCache, Unlock, FoundInMinit, Names, TypeOK,
     Starting, Attaching
<1>8. ASSUME NEW p \in Proc, Preload(p) \/ Store(p) \/ Delete(p) PROVE TypeOK'
  BY <1>8 DEF Preload, Store, Delete, Format, Names, TypeOK, Starting, Using
<1>9. ASSUME NEW p \in Proc, RInit(p) PROVE TypeOK'
  <2>1. conf[p].serializer \in Names
    BY ConfigTypes DEF TypeOK
  <2> QED
    BY <1>9, <2>1 DEF RInit, TypeOK, Using
<1>10. ASSUME NEW p \in Proc, Shutdown(p) \/ Reap(p) PROVE TypeOK'
  BY <1>10 DEF Shutdown, Reap, CloseHandles, Forget, TypeOK
<1>11. CASE UNCHANGED vars
  BY <1>11 DEF vars, TypeOK
<1> QED
  BY <1>1, <1>2, <1>3, <1>4, <1>5, <1>6, <1>7, <1>8, <1>9, <1>10, <1>11 DEF Next, Minit,
     LockTimeout, OpenFails, CreateCacheFails, WrongAbi, AwaitTimeout, AttachFails

-----------------------------------------------------------------------------
(* The setup.  One lemma for each group of steps that touch the segment in
   the same way. *)

\* Whoever is creating is alone with its segment; whoever is between Lock and
\* Unlock is alone there.
LEMMA Alone ==
  ASSUME TypeOK, SetupInv, NEW p \in Proc, NEW q \in Proc
  PROVE  /\ (pc[p] \in Creating /\ q \in handles) => p = q
         /\ (pc[p] \in Creating /\ pc[q] \in Attached) => p = q
         /\ (pc[p] \in Locked /\ pc[q] \in Locked) => p = q
BY DEF SetupInv, MutexHeld, HandlesHeld, CreatorAlone

Creates(p) ==
  \/ InitHeader(p) \/ InitFreeList(p) \/ CreateCache(p) \/ SetLayout(p)
  \/ SetName(p) \/ NameTooLong(p) \/ Complete(p)

\* What the steps of the creator have in common.
LEMMA CreatesEffect ==
  ASSUME TypeOK, SetupInv, NEW p \in Proc, Creates(p)
  PROVE  /\ pc[p] \in Creating /\ handles = {p} /\ value = Empty
         /\ \E to \in (Creating \ {"header"}) \cup {"unlock"} : pc' = [pc EXCEPT ![p] = to]
         /\ seg \in Segment /\ seg' \in Segment /\ seg # NoSeg /\ seg' # NoSeg
         /\ UNCHANGED <<handles, mutex, value, conf>>
<1>1. pc[p] \in Creating
  BY DEF Creates, InitHeader, InitFreeList, CreateCache, SetLayout, SetName, NameTooLong,
     Complete, Creating, Step
<1>2. \E to \in (Creating \ {"header"}) \cup {"unlock"} : pc' = [pc EXCEPT ![p] = to]
  BY DEF Creates, InitHeader, InitFreeList, CreateCache, SetLayout, SetName, NameTooLong,
     Complete, Creating, Step
<1>3. seg \in Segment
  BY <1>1, HasSegment DEF Attached, SetupInv
<1>4. seg' \in Segment /\ seg' # NoSeg /\ seg # NoSeg
  <2>1. conf[p] \in Configs
    BY DEF TypeOK
  <2>2. seg' \in Segment
    BY <1>3, <2>1, SegmentWrites DEF Creates, InitHeader, InitFreeList, CreateCache,
       SetLayout, SetName, NameTooLong, Complete, Writes
  <2> QED
    BY <1>3, <2>2, NoSegAssumption
<1>5. UNCHANGED <<handles, mutex, value, conf>>
  BY DEF Creates, InitHeader, InitFreeList, CreateCache, SetLayout, SetName, NameTooLong,
     Complete, Writes
<1> QED
  BY <1>1, <1>2, <1>3, <1>4, <1>5 DEF SetupInv, CreatorAlone

\* The creator writes the fields in the order its stages promise.
LEMMA CreatesInOrder ==
  ASSUME TypeOK, SetupInv, NEW p \in Proc, Creates(p)
  PROVE  CreatorAlone' /\ WrittenInOrder' /\ IncompleteIsOrphan' /\ DoneChecked'
<1> DEFINE Mine == /\ ~seg.init_complete /\ seg.actual = conf[p].size
                   /\ pc[p] = "header" => seg.abi = 0
                   /\ pc[p] # "header" =>
                        seg.abi = conf[p].abi /\ seg.seg_size = conf[p].size
                          /\ size[p] = conf[p].size
                   /\ pc[p] \in {"cache", "layout", "name", "complete"} => seg.list
                   /\ pc[p] \in {"layout", "name", "complete"} => seg.cache
                   /\ pc[p] \in {"name", "complete"} => seg.layout
                   /\ pc[p] = "complete" => seg.name = conf[p].serializer
<1>1. Mine /\ seg \in Segment /\ conf[p] \in Configs
  BY CreatesEffect DEF SetupInv, CreatorAlone, TypeOK
<1>2. \A q \in Proc : pc'[q] \in Creating \cup Done => q = p
  BY CreatesEffect, Alone DEF Attached, TypeOK
<1>3. pc'[p] \in Creating => Mine'
  <2>1. CASE InitHeader(p)
    <3>1. seg' = [seg EXCEPT !.abi = conf[p].abi, !.seg_size = conf[p].size]
      BY <2>1 DEF InitHeader
    <3>2. /\ seg'.abi = conf[p].abi /\ seg'.seg_size = conf[p].size
          /\ SameBut({"abi", "seg_size"}, seg, seg')
      BY <3>1, <1>1, SegmentWrites
    <3> QED
      BY <2>1, <3>2, <1>1 DEF InitHeader, Step, TypeOK, SameBut
  <2>2. CASE InitFreeList(p)
    <3>1. seg'.list /\ SameBut({"list"}, seg, seg')
      BY <2>2, <1>1, SegmentWrites DEF InitFreeList, Writes
    <3> QED
      BY <2>2, <3>1, <1>1 DEF InitFreeList, Writes, Step, TypeOK, SameBut
  <2>3. CASE CreateCache(p)
    <3>1. seg'.cache /\ SameBut({"cache"}, seg, seg')
      BY <2>3, <1>1, SegmentWrites DEF CreateCache
    <3> QED
      BY <2>3, <3>1, <1>1 DEF CreateCache, Step, TypeOK, SameBut
  <2>4. CASE SetLayout(p)
    <3>1. seg'.layout /\ SameBut({"layout"}, seg, seg')
      BY <2>4, <1>1, SegmentWrites DEF SetLayout, Writes
    <3> QED
      BY <2>4, <3>1, <1>1 DEF SetLayout, Writes, Step, TypeOK, SameBut
  <2>5. CASE SetName(p)
    <3>1. seg'.name = conf[p].serializer /\ SameBut({"name"}, seg, seg')
      BY <2>5, <1>1, SegmentWrites DEF SetName, Writes
    <3> QED
      BY <2>5, <3>1, <1>1 DEF SetName, Writes, Step, TypeOK, SameBut
  <2>6. CASE NameTooLong(p) \/ Complete(p)
    BY <2>6 DEF NameTooLong, Complete, Step, TypeOK, Creating
  <2> QED
    BY <2>1, <2>2, <2>3, <2>4, <2>5, <2>6 DEF Creates
<1>4. pc'[p] = "unlock" => /\ seg'.list /\ seg'.cache /\ seg'.layout
                           /\ seg'.abi = conf[p].abi /\ seg'.seg_size = conf[p].size
                           /\ size'[p] = conf[p].size /\ seg'.actual = conf[p].size
                           /\ IF seg'.init_complete THEN seg'.name = conf[p].serializer
                              ELSE conf[p].serializer \in LongNames /\ seg'.orphan
  <2>1. CASE NameTooLong(p)
    <3>1. seg'.orphan /\ SameBut({"orphan"}, seg, seg')
      BY <2>1, <1>1, SegmentWrites DEF NameTooLong, Writes
    <3> QED
      BY <2>1, <3>1, <1>1 DEF NameTooLong, Writes, Step, TypeOK, SameBut
  <2>2. CASE Complete(p)
    <3>1. seg'.init_complete /\ SameBut({"init_complete"}, seg, seg')
      BY <2>2, <1>1, SegmentWrites DEF Complete, Writes
    <3> QED
      BY <2>2, <3>1, <1>1 DEF Complete, Writes, Step, TypeOK, SameBut
  <2>3. CASE ~(NameTooLong(p) \/ Complete(p))
    BY <2>3 DEF Creates, InitHeader, InitFreeList, CreateCache, SetLayout, SetName, Step, TypeOK
  <2> QED
    BY <2>1, <2>2, <2>3
<1>5. pc'[p] \in Creating \cup {"unlock"} /\ pc'[p] # "header"
  <2>1. PICK to \in (Creating \ {"header"}) \cup {"unlock"} : pc' = [pc EXCEPT ![p] = to]
    BY CreatesEffect
  <2> QED
    BY <2>1 DEF TypeOK, Creating
<1>6. CreatorAlone'
  <2>1. handles' = {p} /\ value' = Empty
    BY CreatesEffect
  <2> QED
    BY <1>2, <1>3, <2>1 DEF CreatorAlone
<1>7. seg'.seg_size = seg'.actual
  <2>1. conf' = conf
    BY CreatesEffect
  <2> QED
    BY <1>3, <1>4, <1>5, <2>1
<1>8. WrittenInOrder'
  <2>1. conf[p].serializer # ""
    BY <1>1, ConfigTypes
  <2> QED
    BY <1>3, <1>4, <1>5, <1>7, <2>1 DEF WrittenInOrder
<1>9. IncompleteIsOrphan'
  BY <1>4, <1>5 DEF IncompleteIsOrphan
<1>10. DoneChecked'
  <2>1. conf' = conf
    BY CreatesEffect
  <2> QED
    BY <1>2, <1>4, <1>5, <2>1 DEF DoneChecked, Creating, Done, Using
<1> QED
  BY <1>6, <1>8, <1>9, <1>10

LEMMA CreatesSetup ==
  ASSUME TypeOK, SetupInv, NEW p \in Proc, Creates(p)
  PROVE  SetupInv'
<1>1. PICK to \in (Creating \ {"header"}) \cup {"unlock"} : pc' = [pc EXCEPT ![p] = to]
  BY CreatesEffect
<1>2. \A q \in Proc : pc'[q] \in Attached => q = p
  BY CreatesEffect, Alone DEF Attached, TypeOK
<1>3. MutexHeld'
  BY <1>1, CreatesEffect DEF SetupInv, MutexHeld, TypeOK, Locked, Creating
<1>4. HandlesHeld'
  <2>1. HandlesHeld /\ pc[p] \in Attached /\ pc'[p] \in Attached /\ handles' = handles
    BY <1>1, CreatesEffect DEF SetupInv, TypeOK, Attached, Done
  <2>2. \A q \in Proc \ {p} : pc'[q] = pc[q]
    BY <1>1 DEF TypeOK
  <2> QED
    BY <2>1, <2>2 DEF HandlesHeld
<1>5. AttachedChecked'
  BY <1>1, <1>2 DEF AttachedChecked, TypeOK, Attached, Creating, Attaching
<1>6. IncompleteHasOneUser'
  BY <1>2 DEF IncompleteHasOneUser, Attached
<1> QED
  BY <1>3, <1>4, <1>5, <1>6, CreatesInOrder DEF SetupInv

\* A creator that ends leaves an orphan, and nobody else was in the segment.
LEMMA EndsSetup ==
  ASSUME TypeOK, SetupInv, NEW p \in Proc, Ends(p), pc[p] \notin {"down", "dying"}
  PROVE  SetupInv'
<1> USE DEF SetupInv
<1>1. /\ pc' = [pc EXCEPT ![p] = "dying"] /\ UNCHANGED <<handles, value, conf>>
      /\ mutex' = IF mutex = p THEN NoProc ELSE mutex
      /\ size' = [size EXCEPT ![p] = 0]
  BY DEF Ends, Forget
<1>2. /\ \A q \in Proc \ {p} : pc'[q] = pc[q] /\ size'[q] = size[q]
      /\ pc'[p] = "dying"
  BY <1>1 DEF TypeOK
<1>3. /\ pc'[p] \notin Locked \cup Attached
      /\ pc'[p] \notin Creating \cup Attaching \cup Done
  BY <1>2 DEF Locked, Attached, Creating, Attaching, Done, Using
<1>4. MutexHeld'
  BY <1>1, <1>2, <1>3, Constants DEF MutexHeld, TypeOK
<1>5. HandlesHeld'
  BY <1>1, <1>2, <1>3 DEF HandlesHeld
<1>6. CASE pc[p] \in Creating
  <2>1. /\ seg \in Segment /\ seg' \in Segment /\ seg'.orphan /\ SameBut({"orphan"}, seg, seg')
    BY <1>6, HasSegment, SegmentWrites DEF Ends, Attached
  <2>2. \A q \in Proc : pc'[q] \notin Creating \cup Attaching \cup Done
    BY <1>6, <1>2, <1>3, Alone DEF Attached
  <2>3. WrittenInOrder'
    BY <2>1, SegmentWrites DEF WrittenInOrder, SameBut
  <2>4. IncompleteIsOrphan'
    BY <2>1 DEF IncompleteIsOrphan
  <2> QED
    BY <1>4, <1>5, <2>2, <2>3, <2>4 DEF CreatorAlone, AttachedChecked, DoneChecked,
       IncompleteHasOneUser, Attaching
<1>7. CASE pc[p] \notin Creating
  <2>1. seg' = seg
    BY <1>7 DEF Ends
  <2>2. CreatorAlone'
    BY <1>1, <1>2, <1>3, <2>1 DEF CreatorAlone
  <2>3. WrittenInOrder' /\ IncompleteIsOrphan'
    BY <1>7, <1>2, <2>1 DEF WrittenInOrder, IncompleteIsOrphan
  <2>4. AttachedChecked'
    BY <1>1, <1>2, <1>3, <2>1 DEF AttachedChecked, Attaching
  <2>5. DoneChecked' /\ IncompleteHasOneUser'
    BY <1>1, <1>2, <1>3, <2>1 DEF DoneChecked, IncompleteHasOneUser
  <2> QED
    BY <1>4, <1>5, <2>2, <2>3, <2>4, <2>5
<1> QED
  BY <1>6, <1>7

\* A new segment belongs to its creator only; an existing one was entered under
\* the mutex, so its creator is not at work.
LEMMA OpenSetup ==
  ASSUME TypeOK, ValueInSegment, SetupInv, NEW p \in Proc, Open(p)
  PROVE  SetupInv'
<1> USE DEF SetupInv
<1>1. PICK to \in {"header", "attach"} :
        pc' = [pc EXCEPT ![p] = to] /\ (to = "header" <=> seg = NoSeg)
  BY DEF Open, Step
<1>2. /\ \A q \in Proc \ {p} : pc'[q] = pc[q]
      /\ pc'[p] = to /\ pc[p] = "open" /\ handles' = handles \cup {p}
      /\ UNCHANGED <<mutex, value, conf, size>>
  BY <1>1 DEF Open, Step, TypeOK
<1>3. pc[p] \in Locked /\ pc'[p] \in Locked /\ pc'[p] \in Attached
  BY <1>2 DEF Locked, Attached, Creating, Attaching
<1>4. \A q \in Proc : pc[q] \notin Creating
  BY <1>2, <1>3, Alone DEF Creating, Locked
<1>5. MutexHeld'
  BY <1>2, <1>3 DEF MutexHeld
<1>6. HandlesHeld'
  BY <1>2, <1>3 DEF HandlesHeld
<1>7. CASE seg = NoSeg
  <2>1. seg' = Zeroed(conf[p].size) /\ handles' = {p} /\ to = "header"
    BY <1>1, <1>2, <1>7 DEF Open, TypeOK
  <2>2. \A q \in Proc \ {p} : pc'[q] \notin Attached
    BY <1>2, <1>7 DEF HandlesHeld, TypeOK
  <2>3. value' = Empty
    BY <1>2, <1>7 DEF ValueInSegment, TypeOK
  <2>4. CreatorAlone'
    BY <1>2, <2>1, <2>2, <2>3 DEF CreatorAlone, Attached, Zeroed
  <2>5. WrittenInOrder' /\ IncompleteIsOrphan'
    BY <1>2, <2>1 DEF WrittenInOrder, IncompleteIsOrphan, Zeroed, Creating
  <2>6. AttachedChecked' /\ DoneChecked' /\ IncompleteHasOneUser'
    BY <1>2, <2>1, <2>2 DEF AttachedChecked, DoneChecked, IncompleteHasOneUser, Attached,
       Attaching, Done, Using
  <2> QED
    BY <1>5, <1>6, <2>4, <2>5, <2>6
<1>8. CASE seg # NoSeg
  <2>1. seg' = seg /\ to = "attach"
    BY <1>1, <1>8 DEF Open
  <2>2. CreatorAlone' /\ WrittenInOrder' /\ IncompleteIsOrphan'
    BY <1>2, <1>4, <2>1 DEF CreatorAlone, WrittenInOrder, IncompleteIsOrphan, Creating
  <2>3. AttachedChecked' /\ DoneChecked' /\ IncompleteHasOneUser'
    BY <1>2, <2>1 DEF AttachedChecked, DoneChecked, IncompleteHasOneUser, Done, Using
  <2> QED
    BY <1>5, <1>6, <2>2, <2>3
<1> QED
  BY <1>7, <1>8

\* An attaching process takes its size from a header that is written, and goes
\* on only once the segment is complete.
LEMMA AttachesSetup ==
  ASSUME TypeOK, SetupInv, NEW p \in Proc, Attach(p) \/ Await(p) \/ AttachCache(p)
  PROVE  SetupInv'
<1> USE DEF SetupInv
<1>1. PICK to \in {"await", "match", "unlock"} : pc' = [pc EXCEPT ![p] = to]
  BY DEF Attach, Await, AttachCache, Step
<1>2. /\ \A q \in Proc \ {p} : pc'[q] = pc[q]
      /\ pc'[p] = to /\ pc[p] \in Attaching
      /\ UNCHANGED <<seg, handles, mutex, value, conf>>
      /\ \A q \in Proc \ {p} : size'[q] = size[q]
  BY <1>1 DEF Attach, Await, AttachCache, Same, Step, TypeOK, Attaching
<1>3. pc[p] \in Locked \cap Attached /\ pc'[p] \in Locked \cap Attached
  BY <1>2 DEF Locked, Attached, Creating, Attaching, Done
<1>4. \A q \in Proc : pc[q] \notin Creating /\ pc'[q] \notin Creating
  BY <1>2, <1>3, Alone DEF Creating, Locked, Attaching
<1>5. seg \in Segment /\ seg # NoSeg /\ conf[p] \in Configs
  BY <1>3, HasSegment, NoSegAssumption DEF TypeOK
<1>6. pc'[p] # "await" => seg.init_complete
  BY <1>1 DEF Attach, Await, AttachCache, Step, TypeOK, AttachedChecked
<1>7. seg.abi = conf[p].abi /\ size'[p] = seg.seg_size
  <2>1. CASE Attach(p)
    <3>1. seg.abi = conf[p].abi
      BY <2>1 DEF Attach
    <3>2. seg.seg_size = seg.actual
      BY <3>1, <1>5, ConfigTypes DEF WrittenInOrder
    <3> QED
      BY <2>1, <3>1, <3>2 DEF Attach, TypeOK
  <2>2. CASE Await(p) \/ AttachCache(p)
    BY <2>2 DEF Await, AttachCache, Same, Step, AttachedChecked
  <2> QED
    BY <2>1, <2>2
<1>8. to = "unlock" => /\ seg.list /\ seg.cache /\ seg.layout /\ seg.init_complete
                       /\ seg.name = conf[p].serializer
  <2>1. to = "unlock" => Agrees(p)
    BY <1>1 DEF Attach, Await, AttachCache, Step, TypeOK
  <2> QED
    BY <1>2, <1>5, <1>6, <2>1 DEF WrittenInOrder, Agrees
<1>9. MutexHeld' /\ HandlesHeld'
  BY <1>2, <1>3 DEF MutexHeld, HandlesHeld
<1>10. CreatorAlone' /\ WrittenInOrder' /\ IncompleteIsOrphan'
  BY <1>2, <1>4 DEF CreatorAlone, WrittenInOrder, IncompleteIsOrphan
<1>11. AttachedChecked'
  BY <1>2, <1>6, <1>7 DEF AttachedChecked
<1>12. DoneChecked'
  BY <1>2, <1>7, <1>8 DEF DoneChecked, Done, Using
<1>13. IncompleteHasOneUser'
  BY <1>2, <1>8 DEF IncompleteHasOneUser, Done, Using
<1> QED
  BY <1>9, <1>10, <1>11, <1>12, <1>13

\* The segment goes only with its last process.
LEMMA CloseSetup ==
  ASSUME TypeOK, SetupInv, NEW p \in Proc, Shutdown(p) \/ Reap(p)
  PROVE  SetupInv'
<1> USE DEF SetupInv
<1>1. /\ \A q \in Proc \ {p} : pc'[q] = pc[q] /\ size'[q] = size[q]
      /\ pc'[p] = "down" /\ pc[p] \in {"ready", "up", "dying"}
      /\ UNCHANGED <<mutex, conf>> /\ CloseHandles(p)
  BY DEF Shutdown, Reap, Forget, Step, TypeOK
<1>2. /\ pc'[p] \notin Locked \cup Attached
      /\ pc'[p] \notin Creating \cup Attaching \cup Done /\ pc[p] \notin Creating \cup Locked
  BY <1>1 DEF Locked, Attached, Creating, Attaching, Done, Using
<1>3. MutexHeld' /\ HandlesHeld'
  BY <1>1, <1>2 DEF MutexHeld, HandlesHeld, CloseHandles
<1>4. CASE handles' = {}
  <2>1. seg' = NoSeg
    BY <1>1, <1>4 DEF CloseHandles
  <2>2. \A q \in Proc : pc'[q] \notin Creating \cup Attaching \cup Done
    BY <1>3, <1>4 DEF HandlesHeld, Attached
  <2> QED
    BY <1>3, <2>1, <2>2 DEF CreatorAlone, WrittenInOrder, IncompleteIsOrphan,
       AttachedChecked, DoneChecked, IncompleteHasOneUser, Attaching
<1>5. CASE handles' # {}
  <2>1. seg' = seg /\ value' = value
    BY <1>1, <1>5 DEF CloseHandles
  <2>2. CreatorAlone'
    <3> SUFFICES ASSUME NEW q \in Proc, pc'[q] \in Creating PROVE CreatorAlone!(q)'
      BY DEF CreatorAlone
    <3>1. q # p /\ pc[q] \in Creating /\ size'[q] = size[q] /\ pc'[q] = pc[q]
      BY <1>1, <1>2
    <3>2. handles' = {q}
      BY <3>1, <1>1, <1>5 DEF CreatorAlone, CloseHandles
    <3> QED
      BY <1>1, <2>1, <3>1, <3>2 DEF CreatorAlone
  <2>3. WrittenInOrder' /\ IncompleteIsOrphan'
    BY <1>1, <1>2, <2>1 DEF WrittenInOrder, IncompleteIsOrphan
  <2>4. AttachedChecked'
    BY <1>1, <1>2, <2>1 DEF AttachedChecked, Attaching
  <2>5. DoneChecked' /\ IncompleteHasOneUser'
    BY <1>1, <1>2, <2>1 DEF DoneChecked, IncompleteHasOneUser
  <2> QED
    BY <1>3, <2>2, <2>3, <2>4, <2>5
<1> QED
  BY <1>4, <1>5

\* The steps that neither touch the segment nor what the others rely on.
LEMMA RestSetup ==
  ASSUME TypeOK, SetupInv, NEW p \in Proc,
         \/ \E c \in Configs : Start(p, c)
         \/ Lock(p) \/ Unlock(p) \/ Preload(p) \/ RInit(p) \/ Store(p) \/ Delete(p)
  PROVE  SetupInv'
<1> USE DEF SetupInv
<1>1. /\ \A q \in Proc \ {p} : pc'[q] = pc[q] /\ conf'[q] = conf[q]
      /\ UNCHANGED <<seg, handles, size>>
  BY DEF Start, Lock, Unlock, Preload, RInit, Store, Delete, Step, TypeOK
<1>2. \/ pc[p] \in Done /\ pc'[p] \in Done /\ conf'[p] = conf[p]
      \/ /\ pc[p] \notin Creating \cup Attaching \cup Done \cup {"dying"}
         /\ pc'[p] \notin Creating \cup Attaching \cup Done
  BY DEF Start, Lock, Unlock, Preload, RInit, Store, Delete, Step, TypeOK, Creating,
     Attaching, Done, Using
<1>3. MutexHeld'
  <2>1. CASE Lock(p) \/ Unlock(p)
    <3>1. pc[p] \in Locked <=> Unlock(p)
      BY <2>1 DEF Lock, Unlock, Step, Locked, Creating, Attaching
    <3>2. pc'[p] \in Locked <=> Lock(p)
      BY <2>1 DEF Lock, Unlock, Step, TypeOK, Locked, Creating, Attaching
    <3>3. /\ Lock(p) => mutex = NoProc /\ mutex' = p
          /\ Unlock(p) => mutex' = NoProc
      BY DEF Lock, Unlock
    <3> QED
      BY <2>1, <3>1, <3>2, <3>3, <1>1, Constants DEF MutexHeld
  <2>2. CASE ~(Lock(p) \/ Unlock(p))
    <3>1. mutex' = mutex /\ pc[p] \notin Locked /\ pc'[p] \notin Locked
      BY <2>2 DEF Start, Preload, RInit, Store, Delete, Step, TypeOK, Locked, Creating,
         Attaching
    <3> QED
      BY <3>1, <1>1 DEF MutexHeld
  <2> QED
    BY <2>1, <2>2
<1>4. HandlesHeld'
  BY <1>1, <1>2 DEF HandlesHeld, Attached
<1>5. value' # value => pc[p] \in Done
  BY DEF Start, Lock, Unlock, Preload, RInit, Store, Delete, Step, Done, Using
<1>6. \A q \in Proc : pc'[q] \in Creating \cup Attaching =>
        q # p /\ pc'[q] = pc[q] /\ conf'[q] = conf[q]
  BY <1>1, <1>2 DEF Creating, Attaching, Done, Using
<1>7. CreatorAlone'
  <2>1. ASSUME NEW q \in Proc, pc'[q] \in Creating PROVE value' = value
    BY <2>1, <1>5, <1>6, Alone DEF Attached
  <2> QED
    BY <1>1, <1>6, <2>1 DEF CreatorAlone
<1>8. WrittenInOrder' /\ IncompleteIsOrphan'
  BY <1>1, <1>2 DEF WrittenInOrder, IncompleteIsOrphan, Creating, Done, Using
<1>9. AttachedChecked'
  BY <1>1, <1>6 DEF AttachedChecked, Attaching
<1>10. DoneChecked' /\ IncompleteHasOneUser'
  BY <1>1, <1>2 DEF DoneChecked, IncompleteHasOneUser
<1> QED
  BY <1>3, <1>4, <1>7, <1>8, <1>9, <1>10

LEMMA SetupStep == IInv /\ [Next]_vars => SetupInv'
<1> SUFFICES ASSUME TypeOK, ValueInSegment, SetupInv, [Next]_vars PROVE SetupInv'
  BY DEF IInv
<1>1. ASSUME NEW p \in Proc, Fatal(p), pc[p] \notin {"down", "dying"} PROVE SetupInv'
  BY <1>1, EndsSetup DEF Fatal
<1>2. ASSUME NEW p \in Proc, Crash(p) PROVE SetupInv'
  BY <1>2, EndsSetup DEF Crash
<1>3. CASE UNCHANGED vars
  BY <1>3 DEF vars, SetupInv, MutexHeld, HandlesHeld, CreatorAlone, WrittenInOrder,
     IncompleteIsOrphan, AttachedChecked, DoneChecked, IncompleteHasOneUser
<1> QED
  BY <1>1, <1>2, <1>3, CreatesSetup, OpenSetup, AttachesSetup, CloseSetup, RestSetup
     DEF Next, Minit, Creates, LockTimeout, OpenFails, CreateCacheFails, WrongAbi,
     AwaitTimeout, AttachFails

LEMMA ValueStep ==
  ASSUME TypeOK, HandlesHeld, ValueInSegment, [Next]_vars
  PROVE  ValueInSegment'
<1> USE DEF ValueInSegment
<1>1. ASSUME NEW p \in Proc, Ends(p) \/ Creates(p) PROVE ValueInSegment'
  BY <1>1 DEF Ends, Creates, InitHeader, InitFreeList, CreateCache, SetLayout, SetName,
     NameTooLong, Complete, Writes
<1>2. ASSUME NEW p \in Proc,
             \/ \E c \in Configs : Start(p, c)
             \/ Lock(p) \/ Open(p) \/ Attach(p) \/ Await(p) \/ AttachCache(p) \/ Unlock(p)
             \/ RInit(p)
      PROVE  ValueInSegment'
  BY <1>2 DEF Start, Lock, Open, Attach, Await, Same, AttachCache, Unlock, RInit
<1>3. ASSUME NEW p \in Proc, Preload(p) \/ Store(p) \/ Delete(p) PROVE ValueInSegment'
  BY <1>3 DEF Preload, Store, Delete, Step, HandlesHeld, Attached, Done, Using
<1>4. ASSUME NEW p \in Proc, Shutdown(p) \/ Reap(p) PROVE ValueInSegment'
  BY <1>4 DEF Shutdown, Reap, CloseHandles
<1>5. CASE UNCHANGED vars
  BY <1>5 DEF vars
<1> QED
  BY <1>1, <1>2, <1>3, <1>4, <1>5 DEF Next, Minit, Creates, LockTimeout,
     OpenFails, CreateCacheFails, WrongAbi, AwaitTimeout, AttachFails, Fatal, Crash

LEMMA SetupInit == Init => ValueInSegment /\ SetupInv
BY Constants DEF Init, ValueInSegment, SetupInv, MutexHeld, HandlesHeld, CreatorAlone,
   WrittenInOrder, IncompleteIsOrphan, AttachedChecked, DoneChecked, IncompleteHasOneUser,
   Locked, Attached, Creating, Attaching, Done, Using

THEOREM Inductive == Spec => []IInv
<1>1. Init => IInv
  BY TypeInit, SetupInit DEF IInv
<1>2. IInv /\ [Next]_vars => IInv'
  BY TypeStep, SetupStep, ValueStep DEF IInv, SetupInv
<1> QED
  BY <1>1, <1>2, PTL DEF Spec

\* Every variable has its type, and a segment exists exactly as long as a process
\* has a handle of it, for any processes and settings.
THEOREM TypeCorrect == Spec => []TypeOK
<1>1. IInv => TypeOK
  BY DEF IInv
<1> QED
  BY <1>1, Inductive, PTL

\* No process preloads or serves requests in a segment whose setup is not
\* finished (MINIT of php_apc.c, apc_sma_attach()).
THEOREM NobodyUsesUnfinishedHolds == Spec => []NobodyUsesUnfinished
<1>1. IInv => NobodyUsesUnfinished
  <2> SUFFICES ASSUME IInv, NEW p \in Proc, pc[p] \in Using
               PROVE  NobodyUsesUnfinished!(p)
    BY DEF NobodyUsesUnfinished
  <2>1. p \in handles /\ seg \in Segment
    BY HasSegment DEF IInv, SetupInv, Attached, Done
  <2> QED
    BY <2>1, NoSegAssumption DEF IInv, SetupInv, DoneChecked, Done
<1> QED
  BY <1>1, Inductive, PTL

\* A process that waits for init_complete with the init mutex held waits for a
\* creator that is gone, never for one that is still at work: the wait of
\* php_apc.c either ends at once or times out.
THEOREM WaitsOnlyForDeadHolds == Spec => []WaitsOnlyForDead
<1>1. IInv => WaitsOnlyForDead
  <2> SUFFICES ASSUME IInv, NEW p \in Proc, pc[p] = "await", ~seg.init_complete
               PROVE  seg.orphan
    BY DEF WaitsOnlyForDead
  <2>1. seg # NoSeg
    BY HasSegment, NoSegAssumption DEF IInv, SetupInv, Attached, Attaching
  <2>2. \A q \in Proc : pc[q] \notin Creating
    BY Alone DEF IInv, Attached, Attaching, Creating
  <2> QED
    BY <2>1, <2>2 DEF IInv, SetupInv, IncompleteIsOrphan
<1> QED
  BY <1>1, Inductive, PTL

-----------------------------------------------------------------------------
(* The format of what is stored *)

LEMMA SerializerStep == Settled /\ TypeOK /\ FormatInv /\ [Next]_vars => SerializerFound'
<1> SUFFICES ASSUME Settled, TypeOK, FormatInv, [Next]_vars PROVE SerializerFound'
  OBVIOUS
<1> USE DEF FormatInv, SerializerFound, FoundInMinit, Step
<1>1. ASSUME NEW p \in Proc, Ends(p) PROVE SerializerFound'
  BY <1>1 DEF Ends, Forget, TypeOK
<1>2. ASSUME NEW p \in Proc, \E c \in Configs : Start(p, c) PROVE SerializerFound'
  BY <1>2 DEF Start, TypeOK
<1>3. ASSUME NEW p \in Proc, CreateCache(p) \/ AttachCache(p) PROVE SerializerFound'
  BY <1>3 DEF CreateCache, AttachCache, TypeOK
<1>4. ASSUME NEW p \in Proc,
             \/ InitHeader(p) \/ InitFreeList(p) \/ SetLayout(p) \/ SetName(p)
             \/ NameTooLong(p) \/ Complete(p)
             \/ Lock(p) \/ Open(p) \/ Attach(p) \/ Await(p) \/ Unlock(p)
      PROVE  SerializerFound'
  <2>1. UNCHANGED <<conf, serializer>> /\ \A q \in Proc \ {p} : pc'[q] = pc[q]
    BY <1>4 DEF InitHeader, InitFreeList, SetLayout, SetName, NameTooLong, Complete, Writes,
       Lock, Open, Attach, Await, Same, Unlock, TypeOK
  <2>2. pc'[p] \in {"layout", "name", "complete", "unlock", "preload", "ready"} =>
          pc[p] \in {"layout", "name", "complete", "unlock"}
    BY <1>4 DEF InitHeader, InitFreeList, SetLayout, SetName, NameTooLong, Complete, Lock,
       Open, Attach, Await, Unlock, TypeOK
  <2>3. pc'[p] # "up"
    BY <1>4 DEF InitHeader, InitFreeList, SetLayout, SetName, NameTooLong, Complete, Lock,
       Open, Attach, Await, Unlock, TypeOK
  <2> QED
    BY <2>1, <2>2, <2>3
<1>5. ASSUME NEW p \in Proc, Preload(p) \/ Store(p) \/ Delete(p) PROVE SerializerFound'
  BY <1>5 DEF Preload, Store, Delete, TypeOK
<1>6. ASSUME NEW p \in Proc, RInit(p) PROVE SerializerFound'
  <2>1. conf[p].ext
    BY DEF Settled, TypeOK
  <2> QED
    BY <1>6, <2>1 DEF RInit, TypeOK
<1>7. ASSUME NEW p \in Proc, Shutdown(p) \/ Reap(p) PROVE SerializerFound'
  BY <1>7 DEF Shutdown, Reap, Forget, TypeOK
<1>8. CASE UNCHANGED vars
  BY <1>8 DEF vars
<1> QED
  BY <1>1, <1>2, <1>3, <1>4, <1>5, <1>6, <1>7, <1>8 DEF Next, Minit, Creates, LockTimeout,
     OpenFails, CreateCacheFails, WrongAbi, AwaitTimeout, AttachFails, Fatal, Crash

\* All users have the serializer that the complete segment names.
LEMMA UsersAgree ==
  ASSUME SetupInv, NEW p \in Proc, NEW q \in Proc, pc[p] \in Done, pc[q] \in Done
  PROVE  /\ conf[p].serializer = conf[q].serializer
         /\ seg.init_complete => seg.name = conf[p].serializer
BY DEF SetupInv, DoneChecked, IncompleteHasOneUser

LEMMA FormatStep ==
  ASSUME Settled, TypeOK, ValueInSegment, SetupInv, FormatInv, [Next]_vars
  PROVE  OneFormat'
<1> USE DEF FormatInv
<1>1. ASSUME NEW p \in Proc, Ends(p) PROVE OneFormat'
  <2>1. CASE pc[p] \in Creating
    BY <1>1, <2>1 DEF Ends, SetupInv, CreatorAlone, OneFormat
  <2>2. CASE pc[p] \notin Creating
    BY <1>1, <2>2 DEF Ends, OneFormat, TypeOK, Done, Using
  <2> QED
    BY <2>1, <2>2
<1>2. ASSUME NEW p \in Proc, Creates(p) PROVE OneFormat'
  BY <1>2, CreatesEffect DEF OneFormat
<1>3. ASSUME NEW p \in Proc, Open(p) PROVE OneFormat'
  <2>1. /\ pc'[p] \notin Done /\ \A q \in Proc \ {p} : pc'[q] = pc[q]
        /\ UNCHANGED <<value, conf>>
    BY <1>3 DEF Open, Step, TypeOK, Done, Using
  <2>2. value # Empty => seg' = seg
    BY <1>3 DEF Open, TypeOK, ValueInSegment
  <2> QED
    BY <2>1, <2>2 DEF OneFormat
<1>4. ASSUME NEW p \in Proc, AttachCache(p) PROVE OneFormat'
  <2>1. /\ seg \in Segment /\ pc[p] = "match" /\ Agrees(p)
        /\ pc' = [pc EXCEPT ![p] = "unlock"] /\ UNCHANGED <<seg, value, conf>>
    BY <1>4, HasSegment DEF AttachCache, Step, Attached, Attaching, SetupInv
  <2>2. seg.init_complete /\ seg.name = conf[p].serializer
    BY <2>1, NoSegAssumption DEF SetupInv, AttachedChecked, WrittenInOrder, Agrees
  <2> QED
    BY <2>1, <2>2 DEF OneFormat, TypeOK, Done
<1>5. ASSUME NEW p \in Proc, Preload(p) \/ Store(p) \/ Delete(p) PROVE OneFormat'
  <2>1. /\ pc[p] \in Done /\ pc'[p] \in Done /\ \A q \in Proc \ {p} : pc'[q] = pc[q]
        /\ UNCHANGED <<seg, conf>>
    BY <1>5 DEF Preload, Store, Delete, Step, TypeOK, Done, Using
  <2>2. seg # NoSeg
    BY <2>1, HasSegment, NoSegAssumption DEF Attached, SetupInv
  <2>3. value' \in {value, Empty, conf[p].serializer}
    <3>1. CASE Preload(p)
      <4>1. conf[p].preload => conf[p].serializer = "php"
        BY DEF Settled, TypeOK
      <4>2. serializer[p] = FoundInMinit(p)
        BY <3>1 DEF Preload, Step, SerializerFound
      <4> QED
        BY <3>1, <4>1, <4>2 DEF Preload, Format, FoundInMinit
    <3>2. CASE Store(p)
      <4>1. serializer[p] = conf[p].serializer /\ conf[p].serializer # ""
        BY <3>2, ConfigTypes DEF Store, SerializerFound, TypeOK
      <4> QED
        BY <3>2, <4>1 DEF Store, Format
    <3> QED
      BY <1>5, <3>1, <3>2 DEF Delete
  <2> QED
    BY <2>1, <2>2, <2>3, UsersAgree DEF OneFormat
<1>6. ASSUME NEW p \in Proc,
             \/ \E c \in Configs : Start(p, c)
             \/ Lock(p) \/ Attach(p) \/ Await(p) \/ Unlock(p) \/ RInit(p)
      PROVE  OneFormat'
  BY <1>6 DEF Start, Lock, Attach, Await, Same, Unlock, RInit, Step, OneFormat, TypeOK,
     Done, Using
<1>7. ASSUME NEW p \in Proc, Shutdown(p) \/ Reap(p) PROVE OneFormat'
  BY <1>7 DEF Shutdown, Reap, CloseHandles, Step, OneFormat, TypeOK, Done, Using
<1>8. CASE UNCHANGED vars
  BY <1>8 DEF vars, OneFormat
<1> QED
  BY <1>1, <1>2, <1>3, <1>4, <1>5, <1>6, <1>7, <1>8 DEF Next, Minit, Creates, LockTimeout,
     OpenFails, CreateCacheFails, WrongAbi, AwaitTimeout, AttachFails, Fatal, Crash

\* Where every worker's serializer is available in the end and those that preload
\* use the one of PHP, every process that serves requests can read every entry
\* (README of the extension, "Serializer validation").
THEOREM EntryReadableHolds == Settled => (Spec => []EntryReadable)
<1> SUFFICES ASSUME Settled PROVE Spec => []EntryReadable
  OBVIOUS
<1>1. Init => IInv /\ FormatInv
  BY TypeInit, SetupInit DEF IInv, Init, FormatInv, SerializerFound, OneFormat
<1>2. IInv /\ FormatInv /\ [Next]_vars => (IInv /\ FormatInv)'
  BY TypeStep, SetupStep, ValueStep, SerializerStep, FormatStep DEF IInv, SetupInv, FormatInv
<1>3. IInv /\ FormatInv => EntryReadable
  <2> SUFFICES ASSUME IInv, FormatInv, NEW p \in Proc, pc[p] = "up", value # Empty
               PROVE  value = Format(p)
    BY DEF EntryReadable
  <2>1. serializer[p] = conf[p].serializer /\ conf[p].serializer # ""
    BY ConfigTypes DEF IInv, TypeOK, FormatInv, SerializerFound
  <2> QED
    BY <2>1 DEF Format, FormatInv, OneFormat, Done, Using
<1> QED
  BY <1>1, <1>2, <1>3, PTL DEF Spec

=============================================================================
