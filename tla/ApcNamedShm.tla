----------------------------- MODULE ApcNamedShm -----------------------------
(***************************************************************************)
(* Startup of the worker processes that share a named segment (php_apc.c,  *)
(* apc_windows_shm.c, apc_sma.c, apc_cache.c, apc.c).  The first one       *)
(* creates and initialises the segment, the others attach to it, one after *)
(* the other under a named mutex; each may preload data, serves requests,  *)
(* ends or is killed at any point.  Windows frees the mutex of a process   *)
(* that ends, closes its handles later, and destroys the segment with its  *)
(* last handle.                                                            *)
(***************************************************************************)
EXTENDS Naturals, FiniteSets

CONSTANTS
  Proc,       \* process slots; a slot may run several processes in turn
  Configs,    \* what a process may be started with
  LongNames,  \* serializer names too long for the header's buffer
  MinSize,    \* a smaller segment has no room for the cache structures
  MaxStarts,  \* bound on the processes started
  MaxCrashes, \* bound on the processes killed
  NoProc, NoSeg, Empty

\* abi: APC_SHM_ABI_VERSION of the build.  serializer: apc.serializer, of which
\* ext says whether an extension provides it.  preload: is preload_path set?
ASSUME ShmAssumption ==
  /\ Configs # {}
  /\ \A c \in Configs : /\ c.abi \in Nat \ {0} /\ c.size \in Nat \ {0}
                        /\ c.ext \in BOOLEAN /\ c.preload \in BOOLEAN
                        /\ c.serializer # ""
  /\ MinSize \in Nat /\ MaxStarts \in Nat /\ MaxCrashes \in Nat
  /\ NoProc \notin Proc

VARIABLES
  seg,      \* the segment: its size and the header in it, or NoSeg
  handles,  \* processes with an open handle of it
  mutex,    \* owner of the init mutex
  value,    \* what the key of the preloaded file holds, or Empty
  pc, conf, \* where each process is, and what it was started with
  size,     \* sma->size of each process
  serializer, \* cache->serializer of each process; "" is NULL
  starts, crashes

vars == <<seg, handles, mutex, value, pc, conf, size, serializer, starts, crashes>>

Names == {c.serializer : c \in Configs} \cup {"php"}
Sizes == {c.size : c \in Configs}

\* orphan is a history field: its creator will not complete it.
Segment == [actual : Sizes, abi : {0} \cup {c.abi : c \in Configs},
            seg_size : Sizes \cup {0}, list : BOOLEAN, cache : BOOLEAN,
            layout : BOOLEAN, name : Names \cup {""}, init_complete : BOOLEAN,
            orphan : BOOLEAN]

ASSUME NoSegAssumption == NoSeg \notin Segment

\* CreateFileMapping gives zeroed pages.
Zeroed(n) == [actual |-> n, abi |-> 0, seg_size |-> 0, list |-> FALSE,
              cache |-> FALSE, layout |-> FALSE, name |-> "",
              init_complete |-> FALSE, orphan |-> FALSE]

Creating == {"header", "list", "cache", "layout", "name", "complete"}
Attaching == {"attach", "await", "match"}
Starting == {"lock", "open", "unlock", "preload"} \cup Creating \cup Attaching
Using == {"preload", "ready", "up"}

TypeOK ==
  /\ seg \in Segment \cup {NoSeg} /\ handles \subseteq Proc
  /\ (seg = NoSeg) = (handles = {})
  /\ mutex \in Proc \cup {NoProc}
  /\ value \in Names \cup {Empty}
  /\ pc \in [Proc -> Starting \cup Using \cup {"down", "dying"}]
  /\ conf \in [Proc -> Configs]
  /\ size \in [Proc -> Sizes \cup {0}] /\ serializer \in [Proc -> Names \cup {""}]
  /\ starts \in 0..MaxStarts /\ crashes \in 0..MaxCrashes

Init ==
  /\ seg = NoSeg /\ handles = {} /\ mutex = NoProc /\ value = Empty
  /\ pc = [p \in Proc |-> "down"]
  /\ conf = [p \in Proc |-> CHOOSE c \in Configs : TRUE]
  /\ size = [p \in Proc |-> 0] /\ serializer = [p \in Proc |-> ""]
  /\ starts = 0 /\ crashes = 0

-----------------------------------------------------------------------------
(* Control *)

Step(p, from, to) == pc[p] = from /\ pc' = [pc EXCEPT ![p] = to]

\* Locals of the process descriptor go with the process.
Forget(p) ==
  /\ size' = [size EXCEPT ![p] = 0] /\ serializer' = [serializer EXCEPT ![p] = ""]

\* The process ends, by a fatal error or killed.  The mutex is free before the
\* handles are closed.
Ends(p) ==
  /\ pc' = [pc EXCEPT ![p] = "dying"]
  /\ mutex' = IF mutex = p THEN NoProc ELSE mutex
  /\ seg' = IF pc[p] \in Creating THEN [seg EXCEPT !.orphan = TRUE] ELSE seg
  /\ Forget(p)
  /\ UNCHANGED <<handles, value, conf, starts>>

Fatal(p) == Ends(p) /\ UNCHANGED crashes

\* With the last handle Windows destroys the segment and what is in it.
CloseHandles(p) ==
  /\ handles' = handles \ {p}
  /\ seg' = IF handles' = {} THEN NoSeg ELSE seg
  /\ value' = IF handles' = {} THEN Empty ELSE value

Writes(p, s) ==
  /\ seg' = s
  /\ UNCHANGED <<handles, mutex, value, conf, size, serializer, starts, crashes>>

-----------------------------------------------------------------------------
(* MINIT: the mutex and the mapping *)

Start(p, c) ==
  /\ Step(p, "down", "lock")
  /\ starts < MaxStarts /\ starts' = starts + 1
  /\ conf' = [conf EXCEPT ![p] = c]
  /\ UNCHANGED <<seg, handles, mutex, value, size, serializer, crashes>>

\* Mutant: no mutex around the setup.
LockNot(p) ==
  /\ Step(p, "lock", "open")
  /\ mutex' = p
  /\ UNCHANGED <<seg, handles, value, conf, size, serializer, starts, crashes>>

\* WAIT_OBJECT_0 or WAIT_ABANDONED
Lock(p) ==
  /\ Step(p, "lock", "open")
  /\ mutex = NoProc /\ mutex' = p
  /\ UNCHANGED <<seg, handles, value, conf, size, serializer, starts, crashes>>

\* Another process kept the mutex for 30 seconds.
LockTimeout(p) == pc[p] = "lock" /\ mutex # NoProc /\ Fatal(p)

\* CreateFileMapping or MapViewOfFile failed.
OpenFails(p) == pc[p] = "open" /\ Fatal(p)

\* Mutant: the handle is closed as soon as the view is mapped.
OpenClosesHandle(p) ==
  /\ IF seg = NoSeg
     THEN seg' = Zeroed(conf[p].size) /\ Step(p, "open", "header")
     ELSE UNCHANGED seg /\ Step(p, "open", "attach")
  /\ UNCHANGED <<handles, mutex, value, conf, size, serializer, starts, crashes>>

Open(p) ==
  /\ IF seg = NoSeg
     THEN seg' = Zeroed(conf[p].size) /\ Step(p, "open", "header")
     ELSE UNCHANGED seg /\ Step(p, "open", "attach")
  /\ handles' = handles \cup {p}
  /\ UNCHANGED <<mutex, value, conf, size, serializer, starts, crashes>>

-----------------------------------------------------------------------------
(* The creator *)

\* apc_sma_init_from_addr(): the header, then the list of free blocks
InitHeader(p) ==
  /\ Step(p, "header", "list")
  /\ seg' = [seg EXCEPT !.abi = conf[p].abi, !.seg_size = conf[p].size]
  /\ size' = [size EXCEPT ![p] = conf[p].size]
  /\ UNCHANGED <<handles, mutex, value, conf, serializer, starts, crashes>>

InitFreeList(p) == Step(p, "list", "cache") /\ Writes(p, [seg EXCEPT !.list = TRUE])

\* A serializer is found only once its extension has registered it, and that
\* is after MINIT of this extension, whose constant it needs.
FoundInMinit(p) == IF conf[p].serializer = "php" THEN "php" ELSE ""

CreateCache(p) ==
  /\ Step(p, "cache", "layout") /\ conf[p].size >= MinSize
  /\ seg' = [seg EXCEPT !.cache = TRUE]
  /\ serializer' = [serializer EXCEPT ![p] = FoundInMinit(p)]
  /\ UNCHANGED <<handles, mutex, value, conf, size, starts, crashes>>

CreateCacheFails(p) == pc[p] = "cache" /\ conf[p].size < MinSize /\ Fatal(p)

\* apc_sma_set_cache_info(): offset and nslots, the name, and init_complete.
SetLayout(p) == Step(p, "layout", "name") /\ Writes(p, [seg EXCEPT !.layout = TRUE])

SetName(p) ==
  /\ Step(p, "name", "complete") /\ conf[p].serializer \notin LongNames
  /\ Writes(p, [seg EXCEPT !.name = conf[p].serializer])

\* The name does not fit: the function returns early, and init_complete stays 0.
NameTooLong(p) ==
  /\ Step(p, "name", "unlock") /\ conf[p].serializer \in LongNames
  /\ Writes(p, [seg EXCEPT !.orphan = TRUE])

Complete(p) ==
  /\ Step(p, "complete", "unlock")
  /\ Writes(p, [seg EXCEPT !.init_complete = TRUE])

-----------------------------------------------------------------------------
(* The others *)

\* apc_sma_attach(): the version is looked at before anything else; the size is
\* that of the creator, or of the mapping if the header does not say.
Attach(p) ==
  /\ Step(p, "attach", "await") /\ seg.abi = conf[p].abi
  /\ size' = [size EXCEPT ![p] = IF seg.seg_size > 0 /\ seg.seg_size <= seg.actual
                                 THEN seg.seg_size ELSE seg.actual]
  /\ UNCHANGED <<seg, handles, mutex, value, conf, serializer, starts, crashes>>

WrongAbi(p) == pc[p] = "attach" /\ seg.abi # conf[p].abi /\ Fatal(p)

Same == UNCHANGED <<seg, handles, mutex, value, conf, size, serializer, starts, crashes>>

\* Mutant: the flag is not waited for.
AwaitNot(p) == Step(p, "await", "match") /\ Same

Await(p) == Step(p, "await", "match") /\ seg.init_complete /\ Same

\* Mutant: the wait has no limit.
AwaitForever(p) == FALSE /\ UNCHANGED vars

\* 30 seconds, with the mutex held.
AwaitTimeout(p) == pc[p] = "await" /\ ~seg.init_complete /\ Fatal(p)

\* Mutant: any serializer goes.
AgreesAlways(p) == TRUE

Agrees(p) == seg.name = "" \/ seg.name = conf[p].serializer

\* apc_cache_attach() refuses a segment without layout.
AttachCache(p) ==
  /\ Step(p, "match", "unlock") /\ Agrees(p) /\ seg.layout
  /\ serializer' = [serializer EXCEPT ![p] = FoundInMinit(p)]
  /\ UNCHANGED <<seg, handles, mutex, value, conf, size, starts, crashes>>

AttachFails(p) == pc[p] = "match" /\ ~(Agrees(p) /\ seg.layout) /\ Fatal(p)

-----------------------------------------------------------------------------
(* Every process: the rest of MINIT, requests, the end *)

Unlock(p) ==
  /\ Step(p, "unlock", "preload")
  /\ mutex' = NoProc
  /\ UNCHANGED <<seg, handles, value, conf, size, serializer, starts, crashes>>

\* What objects become when this process stores them: without a serializer it
\* is the one of PHP.
Format(p) == IF serializer[p] = "" THEN "php" ELSE serializer[p]

\* Each process preloads, but an exclusive insertion replaces nothing.
Preload(p) ==
  /\ Step(p, "preload", "ready")
  /\ value' = IF conf[p].preload /\ value = Empty THEN Format(p) ELSE value
  /\ UNCHANGED <<seg, handles, mutex, conf, size, serializer, starts, crashes>>

\* The first request: by now every extension has registered its serializer.
RInit(p) ==
  /\ Step(p, "ready", "up")
  /\ serializer' = [serializer EXCEPT ![p] =
       IF @ = "" /\ conf[p].ext THEN conf[p].serializer ELSE @]
  /\ UNCHANGED <<seg, handles, mutex, value, conf, size, starts, crashes>>

Store(p) ==
  /\ pc[p] = "up"
  /\ value' = Format(p)
  /\ UNCHANGED <<seg, handles, mutex, pc, conf, size, serializer, starts, crashes>>

Delete(p) ==
  /\ pc[p] = "up"
  /\ value' = Empty
  /\ UNCHANGED <<seg, handles, mutex, pc, conf, size, serializer, starts, crashes>>

\* MSHUTDOWN: apc_sma_detach() closes the handle.
Shutdown(p) ==
  /\ pc[p] \in {"ready", "up"} /\ pc' = [pc EXCEPT ![p] = "down"]
  /\ CloseHandles(p) /\ Forget(p)
  /\ UNCHANGED <<mutex, conf, starts, crashes>>

Crash(p) ==
  /\ pc[p] \notin {"down", "dying"}
  /\ crashes < MaxCrashes /\ crashes' = crashes + 1
  /\ Ends(p)

Reap(p) ==
  /\ Step(p, "dying", "down")
  /\ CloseHandles(p)
  /\ UNCHANGED <<mutex, conf, size, serializer, starts, crashes>>

Minit(p) ==
  \/ Lock(p) \/ LockTimeout(p) \/ Open(p) \/ OpenFails(p)
  \/ InitHeader(p) \/ InitFreeList(p) \/ CreateCache(p) \/ CreateCacheFails(p)
  \/ SetLayout(p) \/ SetName(p) \/ NameTooLong(p) \/ Complete(p)
  \/ Attach(p) \/ WrongAbi(p) \/ Await(p) \/ AwaitTimeout(p)
  \/ AttachCache(p) \/ AttachFails(p) \/ Unlock(p) \/ Preload(p)

Next ==
  \E p \in Proc :
    \/ \E c \in Configs : Start(p, c)
    \/ Minit(p) \/ RInit(p) \/ Store(p) \/ Delete(p)
    \/ Shutdown(p) \/ Crash(p) \/ Reap(p)

Spec == Init /\ [][Next]_vars

\* MINIT goes on by itself, and Windows cleans up after a dead process.
FairSpec == Spec /\ \A p \in Proc : WF_vars(Minit(p)) /\ WF_vars(Reap(p))

-----------------------------------------------------------------------------
(* Properties *)

\* Whoever preloads or serves does so in a segment that is complete, of its own
\* build's layout, and within the bounds its creator set, wherever earlier
\* processes died.  (A creator with too long a name uses what it has not
\* declared complete.)
NobodyUsesUnfinished ==
  \A p \in Proc : pc[p] \in Using =>
    /\ seg # NoSeg /\ p \in handles
    /\ seg.list /\ seg.cache /\ seg.layout
    /\ seg.abi = conf[p].abi /\ size[p] = seg.seg_size
    /\ seg.init_complete \/ conf[p].serializer \in LongNames

\* An attaching process that finds the segment incomplete waits in vain: its
\* creator died or gave up, and is not at work (the comment in MINIT: "This
\* should be near-instant since we hold the init mutex").
WaitsOnlyForDead ==
  \A p \in Proc : (pc[p] = "await" /\ ~seg.init_complete) => seg.orphan

\* Whatever is stored can be read by every process that serves requests: the
\* segment's processes agree on the serializer (README, "Serializer
\* validation": "prevents silent data corruption between workers using
\* different serializers").
EntryReadable ==
  \A p \in Proc : (pc[p] = "up" /\ value # Empty) => value = Format(p)

\* MINIT comes to an end in every process, whatever the others do or where they
\* die: it serves, or it fails for a reason.
StartupEnds ==
  \A p \in Proc : pc[p] \in Starting ~> pc[p] \notin Starting
=============================================================================
