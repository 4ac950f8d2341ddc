# A formal model of APCu-SHM

APCu keeps PHP values in a shared memory segment that many processes use at
once.  This fork adds a segment that unrelated Windows processes share by name,
and a lock that lives in the segment and survives the death of its holder.  The
modules here model the parts where processes meet: the lock, the allocator and
the values in its blocks, the cache, the iterator, and the startup on a named
segment.  TLC checks them on small instances; the safety of the lock, of the allocator, of
the cache, of the iterator and of startup is proved for segments of every size and every number of
threads, processes, keys and crashes, and so is that lock, allocator and cache
implement their abstract specifications.

## The system

| Part | Source | State | Operations |
|---|---|---|---|
| Readers/writer lock (Windows) | `apc_lock.c:28-278`, `apc_lock.h` | `readers`, `writer`, `writer_pid` in the segment | `rlock`, `runlock`, `wlock`, `wunlock`, revocation of a dead writer |
| Other locks | `apc_lock.c:280-530`, `apc_mutex.c` | one system lock | pthread, spin and fcntl wrappers |
| Allocator | `apc_sma.c` | block headers with boundary tags, free list, `avail`, a mutex | malloc, free, availability checks, defragmentation; attachment to a named segment |
| User cache | `apc_cache.c`, `apc_cache.h` | hash slots, gc list, counters, `lastkey`; per entry `ref_count` and times | store, add, fetch, exists, delete, clear, update/inc/cas, entry, expunge, info, preload |
| Persistence | `apc_persist.c` | none of its own | size, copy into the segment, copy out, serialise |
| Iterator | `apc_iterator.c`, `apc_stack.c` | position and one chunk of copied items per iterator | rewind, valid, next, totals, delete |
| PHP functions and startup | `php_apc.c` | `APCG(entry_level)`, settings | the `apcu_*` functions; MINIT creates or attaches |
| Named segment | `apc_windows_shm.c`, `apc_sma.c:577-729` | init mutex, file mapping, `init_complete` | create, attach, detach |
| Rest | `apc_windows_security.c`, `apc_mmap.c`, `apc_shm.c`, `apc_signal.c`, `apc.c`, `apc.php` | - | system calls, registry of serialisers, control panel |

How they interact.  A PHP function calls the cache, which persists the value
through `apc_sma_malloc()`.  That call takes the allocator's mutex only.  If no
block fits, the allocator calls the cache back (`apc_cache_default_expunge`),
which takes the cache lock, removes expired entries, and either wipes the cache
or calls `apc_sma_defrag()`, which takes the mutex again and calls back
`apc_cache_wlocked_move_entry()` for every block it wants to move.  Pointers to
entries are kept outside every lock in two cases only: a new entry between its
allocation and its insertion, and a fetched one between `find_incref` and
`release`.  `ref_count` protects both.  `apcu_entry()` runs user code under the
write lock; its `entry_level` makes every lock operation of the same thread a
no-op until it returns.

What is hard here, and where each hazard bites, is listed in `PROJECT.json`
under `hazards`: atomic operations that interleave, processes that die between
any two of them, pointers that must survive removal, gc and defragmentation,
decisions made before a lock was taken, an allocation that fails, cleans up and
retries, and boundary tags that must stay exact through any history.

## Modules

| Module | Models |
|---|---|
| `ApcRWLock` | abstract: a readers/writer lock whose dead writers are revoked |
| `ApcLock` | the lock of `apc_lock.c`, one step per atomic operation; implements `ApcRWLock` |
| `ApcLock_proofs` | its theorems |
| `ApcHeap` | operators: a segment as blocks at addresses, free runs, sliding down |
| `ApcAlloc` | abstract: an allocator over `ApcHeap` |
| `ApcSma` | headers, free list, best fit, split, merge, defragmentation; implements `ApcAlloc` |
| `ApcPersist` | operators: how a value is measured, copied into an entry and read back |
| `ApcValues` | stored values in the blocks of `ApcSma`, which move; their layout is a parameter |
| `ApcTable` | abstract: a table on which requests take effect one at a time |
| `ApcCache` | the cache over `ApcHeap`; implements `ApcTable` |
| `ApcIterator` | an iterator over a changing table and a changing gc list |
| `ApcNamedShm` | startup, use and end of the processes of a named segment |
| `ApcInduction` | lemmas: first and last elements, sums over finite sets |
| `ApcHeap_proofs`, `ApcAlloc_proofs` | what the operators of the heap keep |
| `ApcSma_proofs` | the allocator's invariants, that its headers implement the heap, and that values in its blocks stay whole |
| `ApcCache_proofs` | the cache's invariants, and that it implements the table |
| `ApcIterator_proofs` | the iterator's invariants |
| `ApcNamedShm_proofs` | the safety of startup |
| `MCApcLock`, `MCApcValues`, `MCApcPersist`, `MCApcCache`, `MCApcIterator`, `MCApcNamedShm` | instances for TLC |

The layers compose by refinement.  `ApcLock` shows that lock operations
behave like atomic acquisitions, so `ApcCache` makes a critical section one
step.  `ApcSma` shows that the allocator is a heap of blocks, so `ApcCache` uses
the operators of `ApcHeap` for it.  `ApcPersist` shows that a fetch gives back
what was stored, and `ApcValues` that this survives the move of a block, so the
values of `ApcCache` are tokens.  `ApcCache` shows that the slots hold each key
at most once (`ListsSound`), so `ApcIterator` works on a table.

### ApcLock

`readers`, `writer` and `writer_pid` are the three words.  `pc[t]` is the place
of thread `t` in the C functions, `expected[t]` the pid it is about to compare
(`holder_pid` or `timeout_pid`), and `timeoutPid[t]` the local `timeout_pid`
(`NoTimer` while `start_tick` is 0).  Each interlocked operation, read of a
shared word and liveness query is an action.  Spins that look at nothing are
left out, and a timeout may have expired at any check.  `Crash(p)` stops the
threads of a process wherever they are; `ReusePid(p)` starts a new process with
the pid of a dead one when the constant `PidReuse` allows it.

`ProcessAlive(pid)` is the set of answers that `apc_lock_process_alive()` may
give.  It answers 0 for "dead/unknown", and unknown is any failure of
`OpenProcess` (`apc_lock.c:83-86`): a process of another account that may not
be queried, or a shortage of resources.  `OpenMayFail` says whether that can
happen to a live process.  And a process that ended with exit code 259, which is
`STILL_ACTIVE`, counts as running (`apc_lock.c:88`) as long as somebody has a
handle of it; `MayExit259` says whether one may end so.  With `OpenMayFail` the
lock protects nobody: the first waiter that looks may revoke a live writer.  So
`~OpenMayFail` is assumed, like `~PidReuse`, by every claim about exclusion and
who may be revoked, and, without the latter, by the liveness properties but
`SomebodyGetsIn`; `~MayExit259` by
`DeadHolderRevoked` alone; `lock_safety` allows such exits.

### ApcSma

`blk` maps offsets to headers (`size`, `prev_size`, `fnext`, `fprev`, and the
contents as one token), with the two 0-sized sentinels of
`sma_init_free_list()`.  Only offsets where a header really is are in its
domain, so following a wrong tag is an error and not a default.  `held[i]` is
the pointer of client `i`, to the header.  The allocator runs under its mutex, so an operation
is one step; `Defrag(pinned)` lets the move callback refuse any set of blocks.
Sizes count cells and a header takes one.  `ApcAlloc` deliberately says where
blocks may go, how long they may be and how far compaction slides them, and
nothing about lists and tags.

### ApcPersist and ApcValues

A PHP value is a graph of strings, references, arrays, objects and resources;
arrays have holes and keys, nodes may be shared, and references close cycles.
`Calc` is the first pass of `apc_persist()`, which adds up the space, and
`Image` the second one, which fills it; each remembers the nodes it has met,
and the image holds offsets, never addresses.  Objects, and arrays when the
cache has a serializer, become one serialized string; an object further down
makes the first pass fail and the whole value is serialized, a resource makes
it refuse.  `Unpersist` follows the offsets with a table of its own.  `Same`
says when the graph that comes out is the one that went in: a one-to-one map
of the nodes keeps contents, keys, holes and what is shared.  A structure takes
one cell, an array one more for each slot it uses.  What a reader finds where
nobody wrote, or where a word of another kind is, is `Garbage`, which equals
nothing, so an offset that is wrong by one shows.

`ApcValues` puts images into the blocks of `ApcSma`.  How a value is measured, laid
out, read and compared is a parameter of it (`RoomFor`, `ImageOf`, `ReadBack`, `Equal`);
`MCApcValues_blocks.cfg` gives it `SizeOf`, `Image`, `Unpersist` and `Same` of
`ApcPersist`.  So the allocator and its moves can be proved about without the
recursion over graphs.  `word` is the contents of
the segment behind the headers of allocated blocks; what free space contains is
nobody's and left out.  `DefragValues` moves the words of a block with it and
changes none, as `memmove()` does.  `what` is a history variable: the value each
client stored.

### ApcCache

`mem` maps addresses to entries, `slots` and `gc` are the lists (sequences of
addresses, and a set), `mem_size`, `nentries` and `ncleanups` the header's
counters.  `owner` is the process that holds the write lock across several
steps (an expunge, or `apcu_entry()`), `level` its `entry_level`.  The other
critical sections are single steps guarded by `CanLock`.  Steps follow the
places where the code is under no lock or under the allocator's mutex only:

- store and add: `Call`, `Malloc` (with the pinning of `apc_persist_sma_init_entry`),
  `InsertEntry` or `InsertUnlocked` (the write lock timed out), then `Release`
  or `Discard`;
- a failed allocation: `MallocRetries`, `Snapshot` (reads `ncleanups` and the
  clock with no lock), `SkipExpunge`, `ExpungeUnlocked` or `Sweep`,
  `CheckAvail`, `Compact`, `CheckContiguous`, then `Malloc` again;
- fetch: `Fetch` takes a reference, `Release` drops it by an atomic decrement
  under no lock;
- `apcu_inc()`: `Update`, or `UpdateMisses` and one exclusive store of 0;
- `apcu_entry()`: `EntryHit`, or `EntryMiss`, any operations of the callback,
  and `CallbackReturns` or `CallbackThrows`.

Insertion translates the scan of `apc_cache_wlocked_insert()`: expired entries
before the key go, the entry with the key is replaced, a new one goes last.
`Crash` kills a process between two steps; the lock it held is free again, as
`ApcLock` shows, and its references stay.  `missed` is a history variable: did
another expunge end since this process took its snapshot.  `HeaderCells` is the
part of the segment that the cache header took, which the size check of
`apc_sma_malloc()` does not know about.

`ApcTable` is what users rely on.  Its `req` says what each process is about to
do; a process may give a request up (a miss, an allocation that fails, a
crash), but the table changes only by a request, by expiry, or by a wipe.

### ApcIterator

`slot_idx`, `stack`, `stack_idx` and `totals` are the fields of the iterator;
`pc` and `call` say which method waits for a fetch, whose time `t` was read
before the lock.  A fetch is one step, as the whole of it runs under the read
lock: it copies whole slots until the chunk is full.  `apcu_delete()` with an
iterator fetches chunks and deletes item by item, each under a write lock of
its own; when that lock times out the result is ignored (`DeleteItemUnlocked`).
Everything else a process can do to the lists happens between two steps:
`Store` with the removals of the scan, `Vanish`, `Collect`, `Tick`.  `pass`,
`through`, `visited`, `since` and `calm` are history variables about the pass
under way.

The gc list is modelled for an iterator constructed over it.  `FetchDeleted`
skips one entry more than it should and adds to the items it has.  `Careful`
says that the script calls `next()` on items only, as every loop does.  Without
that `InBounds` is false: two calls past the end make `current()` pass its test,
and the assertion of `apc_stack_get()` fails.

### ApcNamedShm

A process slot is started with a configuration (ABI version, serializer and
whether its extension is there, size, preload), locks the named mutex, opens
the mapping, and then goes through the assignments of the creator
(`InitHeader` to `Complete`) or the checks of an attaching process (`Attach` to
`AttachCache`), one action per write or check that others could see half done.
It releases the mutex, preloads, and serves (`Store`, `Delete`) until
`Shutdown`.  `Crash` kills it at any of these points, and a fatal error ends it
in the same way: Windows frees the mutex at once and closes the handles later
(`Reap`); the segment lives as long as a handle is open.  `value` is the format
of the one entry that the preloaded file contains; `orphan` is a history field
that marks a segment whose creator gave up.

## What is checked

| Run | Question | Instance |
|---|---|---|
| `lock_safety` | exclusion, counting, revocation, refinement | 3 threads in 3 processes, 2 crashes, exit code 259 possible |
| `lock_live` | progress, no starved writer, revocation happens | 2 threads, 1 crash, pids may be reused |
| `lock_orphan` | violated: a flag left up without a pid | 3 threads, 1 crash |
| `lock_reuse` | violated: a live writer revoked after pid reuse | 3 threads, 1 crash |
| `sma_blocks` | tags, list, compaction, refinement; values in moving blocks | 13 cells, 4 clients, 4 values of 2 to 9 cells, smallest rest 3, search limit 1 |
| `cache_refs` | references, lists, counters, blocks, one expunge per shortage | 2 processes, 3 operations each, 2 keys in one slot, 6 cells, write lock may time out |
| `cache_time` | linearisable table, no increment overwritten, no entry collected under a prompt holder | 2 processes, 3 operations each, 1 key, 6 cells, ttl 1, gc_ttl 1, clock to 2, 1 crash |
| `cache_alone` | one expunge suffices; sequential behaviour | 1 process, 3 operations of all eight kinds, smart 2, cache ttl 1 |
| `cache_live` | every operation ends if finitely many begin, the lock is held exactly where it should be | 2 processes, 3 direct and `apcu_entry()` stores each, 1 key, 6 cells, 1 crash |
| `iterator` | exact passes, complete deletion, exact totals, loops end | 3 keys in 2 slots, chunk 1, 1 store, 1 rewind or deletion, ttl 1, clock to 2, gc list of 1 |
| `startup` | no use of an unfinished or foreign segment, startup ends | 3 process slots, 3 starts, 1 crash, 5 configurations |
| `startup_late` | violated: preloaded objects in another format | 3 process slots, 2 starts, workers all alike |

Every run of the cache also evaluates `EveryValueRoundTrips` of `MCApcPersist`:
each PHP value of two or three counted nodes (22,808 graphs, with and without a
serializer) comes back as it was stored, fills the computed space exactly, and is
read between two entries that look alike as it is alone (`ReadsAmongOthers`).
Three nodes give an array that shares a string, contains itself through a
reference, nests an empty array, has a hole before a key, or hides an object.

Bounds.  Three threads give a writer, a waiter that revokes and a third party
that profits or suffers; two crashes let a revoker die too.  With 6 cells,
entries of 2 and 3 cells and two keys, two processes reach an allocation that
fails for lack of room, one that fails for fragmentation alone, a
defragmentation around a pinned entry and one that lets an entry move, and a
full wipe.  Both keys in one slot make every list operation meet other
entries; slots do not interact otherwise.  `cache_time` and `cache_live` spend
their states on the clock and the crashes instead and have one key: replacing
its value takes both halves of the segment, so an old value that somebody, alive
or dead, still holds leaves no room for the next.  `cache_alone` checks the
same refinement with two keys and every operation.  `MaxOps`, `MaxTime` and
`MaxCrashes` bound the operations, the clock and the crashes.  Thirteen cells
and four clients let a block have free and allocated neighbours on either side
and leave unused rests behind, and hold the cyclic and the mixed value in turn.
A search limit of 1 instead of 3 makes the limit bite on lists of that length.
Two slots, one with two keys, and chunks of one item make the iterator stop
between slots and never within one; `MaxStores` and `MaxCalls` bound the
stores and the calls, `MaxGc` the gc list, but removals, expiry and the script's
other calls are free.  One pass and one store suffice to change an entry the
pass has passed, is at, or has still to reach.  Three starts give a creator
that dies, a second process that finds what it left, and a third that comes
when the second has a handle or has closed it; one crash, and the fatal errors
that follow from it, reach every point of the setup.  The five configurations
are the plain one with one thing changed: its size, the ABI version, or the
serializer (and then without preload, for `startup_late`'s reason).  Symmetry over processes or clients,
in the lock over threads together with their processes, is used for safety only.

Deadlock is not checked: the bounds end every behaviour, and idle threads need
not call anything.  A lock that is never given back shows in the liveness
properties.

Fairness.  `ApcLock!FairSpec` and `ApcCache!FairSpec` assume that a live thread
that has begun an operation keeps running (weak fairness of its own steps, the
return of callbacks included).  Nobody must begin one, the drain timeout need
never expire, the clock need not advance and nobody must crash.  The operating
system's scheduler gives that much: `apc_lock_spin_wait()` yields.  Progress of
one particular waiter is not claimed, as a CAS lock does not promise it, and a
skipped expunge does not count as the one retry of an allocation
(`apc_sma.c:388-389`): `EveryOpEnds` therefore has the condition `CallsStop`, that
only finitely many operations begin, which `MaxOps` makes true in `cache_live`.
`SomebodyGetsIn` and `WriterDrainsReaders` hold while nobody dies, since a dead
reader blocks writers by design.  `PromptSpec` assumes for `cache_time` that a
live process lets go of a removed entry within `apc.gc_ttl` seconds; the setting
exists to make that so.  `ApcIterator!FairSpec` assumes that a method once
called goes on, and that the script is a loop: it asks `valid()` again and
again (strong fairness, as other calls come between) and calls `next()` on what
it finds.  `ApcNamedShm!FairSpec` assumes that MINIT keeps running in a live
process, its waits of 30 seconds included, and that Windows closes the handles
of a dead one; nothing makes a process start, serve, die or shut down.

## What the code does differently from what it says

- **An orphaned flag** (`lock_orphan`): pid and flag are two words.  A process
  killed between setting one and the other leaves `writer = 1`,
  `writer_pid = 0`, which nothing ever clears, while `README.md:122` promises
  that a killed writer does not deadlock the others.
- **Pid reuse** (`lock_reuse`): the compare-and-swap on a pid cannot tell a dead
  writer from a new process with its number.
- **Unknown is taken for dead**: a waiter that cannot open the process of a live
  writer revokes it, while `README.md:57` and `74` say that only dead writers are
  revoked and slow ones waited for.  It has no run of its own: `lock_reuse` with
  `OpenMayFail = TRUE`, `PidReuse = FALSE` and no crash ends in nine states
  with a live writer that has lost its lock.
- **Preloaded objects in another format** (`startup_late`): MINIT preloads
  before the serializer's extension can have registered it, so objects are
  stored in PHP's format, and the first request makes the cache read them with
  the configured serializer.

Met while modelling, and without a run, as no text of the repository says
otherwise or the consequence is small:

- `apcu_clear_cache()` resets `ncleanups`, so an expunge that waited behind
  another one and a clear may run again.
- `max_alloc_size` does not subtract the cache header, so a request just above
  what is left wipes the whole cache and fails.
- An iterator over `APC_LIST_DELETED` never shows the newest entry, and a
  `foreach` over it does not end once it has an item: the fetch adds to the
  stack without emptying it and sets the index back.
- `apcu_delete($iterator)` reports success when a deletion gave up on the lock.
- A serializer name that does not fit the header makes
  `apc_sma_set_cache_info()` return before `init_complete`: its creator serves,
  every other process waits 30 seconds and fails.
- A process that attaches to an orphaned segment releases the mutex before its
  own handle, so processes queued behind it keep the segment alive and fail one
  after the other.
- Where the serializer's extension is missing in one worker, the names still
  agree and that worker stores in PHP's format.  `Rollout` leaves it out.

## What is proved

The constants stay open in every theorem: any number of threads, processes,
keys, cells, operations and crashes, any clock.  TLC checked each inductive
invariant on the instances of the runs before it was proved.

### The lock (`ApcLock_proofs`)

Assuming `~PidReuse`: `TypeCorrect` and `ReadersExact`, from an invariant of
their own (`CountInv`).  Assuming `~OpenMayFail` too: `Exclusion`,
`LiveWriterKeepsLock` and `Refinement`, `Spec => ImplementsRWLock`.  Both
assumptions are about the system and needed: without the first `lock_reuse`
refutes the claims, without the second the trace described above.  None is
made on `MayExit259`.

None of the invariants is inductive alone.  Exclusion needs to know who may
lower the flag while `writer_pid` names nobody.  `IInv` follows one token: a
thread has it from its successful swap (of the flag, or of a dead writer's
pid) until it stores `writer = 0`.  The token is hidden while the pid does not
show it, and published while it does; there is at most one; it implies that the
flag is up; a live thread that published it still has it; and a reader in its
section past the double check excludes a writer past its drain loop.  The
reader count is a statement on cardinalities (`CountKept`, `CountEntered`,
`CountLeft`).  The refinement maps the write holder to a thread in `writing`
whose pid is still in the word, so that revocation takes effect at the swap.

### The segment as a heap (`ApcHeap_proofs`, `ApcAlloc_proofs`)

`FittingIsFree`, `WithHeap`, `WithoutHeap` and `SlideHeap` say that an allocation,
a free and a defragmentation of disjoint blocks leave disjoint blocks.  The last
one is the hard one: `Slide` is recursive in the address, and a block that moves
may end up where another one was.  `SlideFacts` shows that a block never goes up,
that a pinned one stays, and that between two blocks the one below still ends
before the other begins.  `AllocDisjoint` is the invariant of `ApcAlloc` that
follows.

### The allocator (`ApcSma_proofs`)

All that `sma_blocks` checks.  Of the headers: `TypeCorrect`, `BoundaryTagsHold`,
`FreeListExactHolds`, `FailsOnlyIfFullHolds`, `DefragCompactsHolds`, and
`ImplementsHeapHolds`: `Spec => ImplementsHeap`.  The assumptions are
`SmaAssumption`: a request and `MinBlock` are longer than a header.  Of the values in
the blocks: `SizesAgreeHolds` and `ValuesIntactHolds`, and `ValuesAreTransparent`
(`VSpec => Spec`), by which the former hold of the run's specification too.

The tags are not inductive without the list, nor the list without the tags: a
merge unlinks the block before it because a tag says so, and the tag is right
because whoever freed that block wrote it.  Nor does either say anything in the
middle of an operation, when a block is neither in the list nor allocated.  So
the invariant is `Sane(b, F, H)`, of the headers `b`, the free blocks `F` in the
list and the blocks `H` in limbo.  `Tiles` says that blocks end where the next
header is, `Linked` that the list, followed either way, has a rank that falls (so it
cannot have a cycle, and reaches every block of `F`), `Tags` that whatever comes
after a block knows whether it is free, except after a block of `H`, and `Busy` what
allocated blocks look like.  Each primitive (`Unlink`, `LinkAtStart`, a merge, a split, a
tag, a move) takes `Sane` headers to `Sane` headers with blocks moved between
`F`, `H` and the rest; `AllocateSane` and `DeallocateSane` are chains of them that
begin and end with `H = {}`.  `Inv` adds that `avail` is the total of `F`, and that
clients and allocated blocks correspond one to one.

- *The list* (`FreeListIs`): as the rank falls, the walk of `find_block()` ends, meets
  every free block, and none twice.  `FailsOnlyIfFullHolds` then says that the limit of
  the best fit only limits the choice, and that the test of `avail` refuses nothing
  that fits.
- *Defragmentation* (`Stage`): with the loop at the header `o`, what is below is
  compacted, what is above is untouched, and in between there is at most one hole, which
  ends at the next header.  `Fill` is where the blocks below end; a block that
  moves goes there, and `Placed` keeps the map from old to new places.
  `CompactedSane` sums it up, and with nothing pinned the hole takes in every free block.
- *The refinement* shows the allocated blocks as a heap (`View`).  `GapsAre` and
  `GapLenIs`: the free blocks are the maximal runs of free cells, which needs that no
  two of them are neighbours.  `SlideIs`: the loop over headers puts every block where
  the recursion over addresses (`Slide`) does.
- *The values* (`ValuesInv`): the words of each allocated block are the image of the value
  that its client stored, and there are no other words.  It is a statement on blocks
  and not on pointers, since a move changes all pointers at once.  `SpansApart`: the
  requested cells of two blocks have none in common, so a store and a free change
  the words of one block only (`StoreWrites`, `FreeWrites`).  For a move,
  `Carried` looks up for each word the block that it is in, and inverts the map of
  addresses that this gives; `CarriedIs` shows that the block is unique and the map
  one to one, as it takes blocks to blocks that are apart, and `MoveWrites` that
  each image arrives whole.  The layout enters by three hypotheses.  `Fills`: the
  second pass fills the room that the first one computed.  `RoundTrip`: an image by itself
  is read back as its value.  `Relocates`: what is read from an image does not depend
  on where it is and what surrounds it, which is what its offsets are for.
  TLC evaluates the first two, and the third between two neighbours, for
  every small graph (`EveryValueRoundTrips`); for all graphs they are not proved, as the
  recursion of `ApcPersist` is out of the prover's reach.

### The cache (`ApcCache_proofs`)

Every safety invariant of the cache runs: `TypeCorrect`,
`HeldEntryIntactHolds`, `ListsSoundHolds`, `NoLeakHolds`, `BlocksDisjointHolds`,
`AccountingHolds`, `RefCountExactHolds`, `LockExactHolds`,
`OneExpungePerShortageHolds`, `AloneAlwaysStoresHolds`; and `Refinement`,
`ImplementsTable` of `cache_time`.

*Control* (`LocalsOK`, `Control`) says who holds the write lock at which step, and
at which steps a process has a pointer.  It needs nothing of the data.

*Data* (`DataInv`) is the invariant that carries the rest.  `Sound` says that the
entries are blocks that do not overlap, and that every list holds each entry
once, with keys of its slot, none of them twice and none on the gc list.  That
alone does not survive a step: an entry to be linked might be on a list
already, and a removal, the gc or a move might take away what a process is about
to use.  So `Loose`, the entries on no list, are exactly those that a process has
allocated and not inserted (`Owned`), one process each; and every entry that a
process points to is `Pinned`: there, with a positive count, and not overdue on
the gc list.  `RefCovers` ties the count to the number of its holders.

The critical sections are proved once each, on records, without the processes:
`RemovesKeeps`, `GcKeeps`, `ExpungeKeeps`, `RedirectsKeeps` (defragmentation) and
`InsertKeeps` say that whatever set `H` of entries is pinned stays there with its
keys and counts, and what the lists are afterwards.  `DataStep` then has one step
per action.

- *Dead processes.*  A killed process never gives its reference back, and what it
  held is freed when `apc.gc_ttl` has passed; so is what a live one holds for too
  long.  Hence two cases: with `GcTtl = 0` everything is proved of `Spec`; with
  any `GcTtl` of `PromptSpec`, in which live processes let go of removed entries
  in time.  `RefCountExact` needs the first, as with a `GcTtl` the address a dead
  process remembers may be another entry's later.
- *Accounting* has to show that the guarded subtraction `Minus` never skips one,
  which is where lengths above the header (`CacheAssumption`) matter, and that the
  wipe, which resets `nentries` only, leaves `mem_size` at 0 by subtraction.
- *One expunge per shortage* assumes that nobody calls `apcu_clear_cache()`
  (`"clear" \notin Ops`), which resets `ncleanups`; see above.
- *The refinement* shows the table through the linked entries (`View`).  It needs
  one more invariant, `Fresh`: between allocation and insertion an entry shows what
  its request says, whatever others sweep, move or free.  Insertion is `Put` or
  `Refuse`, and the expired entries its scan meets are among the stale ones.

- *One process alone* stores whatever is not longer than the segment, if its write
  lock does not time out (`~WLockMayFail`; there is nobody to wait for).  The proof needs no
  setting of `apc.smart`, `apc.gc_ttl` or a ttl.  `Alone`: the gc list is
  empty, since only an entry that somebody else holds would go there, and no entry
  but the one that the process itself holds is referenced.  So nothing outlasts
  `apc.gc_ttl` (`SafeAlone` gets the data invariant for any value of it), and a wipe leaves an empty segment
  (`AloneWipes`), which has room (`EmptyFits`).  An expunge that does not wipe has found a
  free run of `Need` cells, and `NeedCovers` says that this is not less than the
  request, whatever `apc.smart` makes of it.
  `Roomy` carries the room from the expunge to the second try, across which no other
  process can take it.

### Startup (`ApcNamedShm_proofs`)

`TypeCorrect`, `NobodyUsesUnfinishedHolds` and `WaitsOnlyForDeadHolds`, from
`Inductive`: the process between the mutex and its release holds the mutex
(`MutexHeld`), a creator is alone with its segment (`CreatorAlone`), what the
segment contains is what its place in MINIT says (`WrittenInOrder`), and a segment
that nobody is completing any more is marked as an orphan
(`IncompleteIsOrphan`).  Whoever uses it has passed the checks (`AttachedChecked`,
`DoneChecked`), and a segment that is not complete has one user at most.  `EntryReadableHolds` assumes
`Settled`: every serializer's extension is there, and whoever preloads uses PHP's
own format; `startup_late` shows that the second half is needed.

### The iterator (`ApcIterator_proofs`)

`TypeCorrect`, `InBoundsHolds` (for a script that calls `next()` on items only),
`PassExactHolds` and `DeleteLeavesOnlyNewerHolds`: all safety of the run
`iterator`, for any keys, slots, chunk size and stores in between.

What makes a pass exact is where its keys are, so the invariant (`Walk`) says it of
slots: what was visited and what is left on the stack lies below `slot_idx`, the
two have nothing in common, and no key below `slot_idx` is missing that was live
all the time.  A fetch extends this by whole slots (`FetchWalks`); the clock it
read before it waited for the lock can be late, and `LiveEarlier` shows that it
errs on the safe side.  An empty chunk means that all slots are passed
(`ChunkEnds`).  `DeleteInv` is its counterpart for deletion: an entry from before
lies at or above `slot_idx`, or is still on the stack.  `CalmInv` relates the two
loops over the slots, pass and totals, as long as nothing changes.  What the other
processes do enters as one relation (`Meanwhile`).

### How recursion over data is proved

The prover has no induction over data.  `ApcInduction` states what takes its place
as facts about sets: a set of naturals that is not empty has a least element, a
finite set of sets a smallest one, so a recursive function that went wrong
somewhere has a first place where it did.  `StepByStep` and `OneByOne` are that
argument once and for all.  They give what `Drop` and `Matching` do to a list, what
`Slide` does to blocks, and what a sum over a finite set is (`Summed`, `SumsAny`), as
`MapThenSumSet` is a fold whose order of elements is nobody's business.

### What is model-checked only

- Liveness (`EveryOpEnds`, `StartupEnds`, `SomebodyGetsIn`, `WalksEnd` and the rest):
  fairness is out of the prover's reach.
- What `ApcPersist` computes: its operators are RECURSIVE, which the prover does not
  accept, and follow graphs with cycles, which needs induction over data.

## Not modelled

- Statistics (`nhits`, `ninserts`, `stime`, `mtime`) and the functions that
  report them: read by nobody who decides anything.
- Slam defence: off by default and inexact by its own comment.
- Nested `apcu_entry()` calls; `apc_cache_update()`, which no function of this
  version calls; cas, the same critical section as inc without the insertion.
- Crashes inside a critical section of cache or allocator, and the data they
  leave half changed.
- The builds with a recursive mutex, where `ref_count` is incremented without
  an atomic operation.
- User code that unserialising runs under the read lock, failures of a
  serializer, and a bailout in the middle of a copy.
- What an item of the iterator shows (its format), and arrays of keys, for
  which the functions call the cache once per key.
- Startup without a name, which is one process creating and others inheriting,
  the validation of names, and security descriptors.

`PROJECT.json` says so per component.

## Plan

1. Done: `ApcLock` with proofs, `ApcSma`, `ApcCache`, and their abstract
   specifications.
2. Done: `ApcPersist` and `ApcValues`, `ApcIterator`, `ApcNamedShm`.
3. Done: proofs about lock, heap, allocator, cache, startup and iterator, with
   the refinements of lock, allocator and cache, and values in moving blocks: every
  safety invariant that a passing run checks is the property of a theorem.
4. `ApcRefRace`: the counter at machine level in recursive-mutex builds.
5. Crash points inside critical sections: what a revoked lock leaves behind.
