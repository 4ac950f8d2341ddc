------------------------------- MODULE ApcLock -------------------------------
(***************************************************************************)
(* The Windows readers/writer lock of apc_lock.c: three words in the       *)
(* shared segment (readers, writer, writer_pid) that threads of several    *)
(* processes change with Interlocked operations.  Every atomic operation,  *)
(* every read of a shared word and every process_alive() query is a step   *)
(* of its own.  A process may die between any two steps: its threads stop  *)
(* where they are and what they did to the three words stays.              *)
(*                                                                         *)
(* The spin loops are abstracted: a spin that neither acquires nor looks   *)
(* at the holder changes nothing, and the 30 s wall-clock timeout may      *)
(* expire at any check.  apc_lock_process_alive() answers what the system  *)
(* lets it see, which is not always whether the process lives (README).    *)
(***************************************************************************)
EXTENDS Naturals, FiniteSets

CONSTANTS
  Thread,      \* threads that use the lock
  Process,     \* process identifiers
  PidOf,       \* PidOf[t]: the process of thread t
  NoPid,       \* writer_pid = 0
  NoTimer,     \* start_tick = 0: the wall-clock timeout is not running
  PidReuse,    \* whether the system may give a dead process's pid away again
  OpenMayFail, \* whether OpenProcess may fail on a live process
  MayExit259,  \* whether a process may die with exit code STILL_ACTIVE
  MaxCrashes   \* bound on how many processes may die

ASSUME ThreadAssumption == IsFiniteSet(Thread)
ASSUME PidOfAssumption == PidOf \in [Thread -> Process]
ASSUME NoPidAssumption == NoPid \notin Process
ASSUME NoTimerAssumption == NoTimer \notin Process \cup {NoPid}
ASSUME SystemAssumption ==
  PidReuse \in BOOLEAN /\ OpenMayFail \in BOOLEAN /\ MayExit259 \in BOOLEAN
ASSUME BoundAssumption == MaxCrashes \in Nat

VARIABLES
  readers,     \* lock->readers
  writer,      \* lock->writer
  writer_pid,  \* lock->writer_pid
  pc,          \* where each thread is in rlock, wlock or wunlock
  expected,    \* the pid each thread will compare writer_pid with
  timeoutPid,  \* local timeout_pid, or NoTimer while start_tick is 0
  alive,       \* alive[p]: process p is running
  crashes      \* processes that died so far

lock == <<readers, writer, writer_pid>>
locals == <<expected, timeoutPid>>
vars == <<readers, writer, writer_pid, pc, expected, timeoutPid, alive, crashes>>

Pid == Process \cup {NoPid}

ReaderPC == {"r_wait", "r_read", "r_check", "r_reset", "r_cas", "r_clear",
             "r_inc", "r_dbl", "r_back", "reading"}
WriterPC == {"w_try", "w_pid", "w_drain", "writing", "w_unlock", "w_abort",
             "w_giveup", "w_read", "w_check", "w_timer", "w_cas", "w_clear",
             "w_tcas", "w_reset"}

TypeOK ==
  /\ readers \in Nat
  /\ writer \in {0, 1}
  /\ writer_pid \in Pid
  /\ pc \in [Thread -> {"idle"} \cup ReaderPC \cup WriterPC]
  /\ expected \in [Thread -> Pid]
  /\ timeoutPid \in [Thread -> Pid \cup {NoTimer}]
  /\ alive \in [Process -> BOOLEAN]
  /\ crashes \in 0..MaxCrashes

Init ==
  /\ readers = 0
  /\ writer = 0
  /\ writer_pid = NoPid
  /\ pc = [t \in Thread |-> "idle"]
  /\ expected = [t \in Thread |-> NoPid]
  /\ timeoutPid = [t \in Thread |-> NoTimer]
  /\ alive = [p \in Process |-> TRUE]
  /\ crashes = 0

Live(t) == alive[PidOf[t]]

\* Mutant: a dead holder is never noticed.
ProcessAliveAlways(pid) == {TRUE}

\* What apc_lock_process_alive() may answer: "0 if dead/unknown", where unknown
\* is any failure of OpenProcess; exit code 259 is taken for a running process.
ProcessAlive(pid) ==
  IF pid = NoPid THEN {FALSE}
  ELSE {up \in BOOLEAN : IF up THEN alive[pid] \/ MayExit259
                               ELSE ~alive[pid] \/ OpenMayFail}

\* pid != 0 && !apc_lock_process_alive(pid), and the opposite
FoundDead(pid) == pid # NoPid /\ FALSE \in ProcessAlive(pid)
NotFoundDead(pid) == pid = NoPid \/ TRUE \in ProcessAlive(pid)

At(t, l) == Live(t) /\ pc[t] = l
Goto(t, l) == pc' = [pc EXCEPT ![t] = l]
System == <<alive, crashes>>

\* The locals die with the call, and expected with the check it is made for.
ForgetExpected(t) == expected' = [expected EXCEPT ![t] = NoPid]
ForgetLocals(t) ==
  /\ ForgetExpected(t)
  /\ timeoutPid' = [timeoutPid EXCEPT ![t] = NoTimer]

-----------------------------------------------------------------------------
(* Read side *)

RLock(t) ==
  /\ At(t, "idle")
  /\ Goto(t, "r_wait")
  /\ UNCHANGED <<lock, locals, System>>

\* while (lock->writer)
RWait(t) ==
  /\ At(t, "r_wait")
  /\ Goto(t, IF writer = 0 THEN "r_inc" ELSE "r_read")
  /\ UNCHANGED <<lock, locals, System>>

ReadHolder(t, from, to) ==
  /\ At(t, from)
  /\ expected' = [expected EXCEPT ![t] = writer_pid]
  /\ Goto(t, to)
  /\ UNCHANGED <<lock, timeoutPid, System>>

RRead(t) == ReadHolder(t, "r_read", "r_check")

\* A holder found dead is revoked at once; otherwise the timeout starts, runs,
\* or has expired, and then either its own holder is found dead or it starts
\* again.
RCheck(t) ==
  /\ At(t, "r_check")
  /\ \/ /\ FoundDead(expected[t])
        /\ Goto(t, "r_cas") /\ UNCHANGED locals
     \/ /\ NotFoundDead(expected[t]) /\ timeoutPid[t] = NoTimer
        /\ timeoutPid' = [timeoutPid EXCEPT ![t] = expected[t]]
        /\ Goto(t, "r_wait") /\ ForgetExpected(t)
     \/ /\ NotFoundDead(expected[t]) /\ timeoutPid[t] # NoTimer
        /\ Goto(t, "r_wait")
        /\ ForgetExpected(t) /\ UNCHANGED timeoutPid
     \/ /\ NotFoundDead(expected[t]) /\ timeoutPid[t] # NoTimer
        /\ \/ /\ FoundDead(timeoutPid[t])
              /\ expected' = [expected EXCEPT ![t] = timeoutPid[t]]
              /\ Goto(t, "r_cas")
           \/ /\ NotFoundDead(timeoutPid[t])
              /\ Goto(t, "r_reset") /\ ForgetExpected(t)
        /\ UNCHANGED timeoutPid
  /\ UNCHANGED <<lock, System>>

\* The holder is alive: the timeout starts again for whoever holds now.
ResetTimer(t, from, to) ==
  /\ At(t, from)
  /\ timeoutPid' = [timeoutPid EXCEPT ![t] = writer_pid]
  /\ Goto(t, to)
  /\ UNCHANGED <<lock, expected, System>>

RReset(t) == ResetTimer(t, "r_reset", "r_wait")

\* Mutant: the pid is cleared without comparing it.
CasHolderBlindly(t, from, cleared, changed) ==
  /\ At(t, from)
  /\ writer_pid' = NoPid /\ Goto(t, cleared) /\ ForgetExpected(t)
  /\ UNCHANGED <<readers, writer, timeoutPid, System>>

\* The compare-and-swap of apc_lock_try_clear_writer().
CasHolder(t, from, cleared, changed) ==
  /\ At(t, from)
  /\ IF writer_pid = expected[t]
     THEN writer_pid' = NoPid /\ Goto(t, cleared) /\ ForgetExpected(t)
     ELSE Goto(t, changed) /\ UNCHANGED <<writer_pid, expected>>
  /\ UNCHANGED <<readers, writer, timeoutPid, System>>

\* The reader leaves the wait loop whether it cleared the writer or not.
RCas(t) == CasHolder(t, "r_cas", "r_clear", "r_inc")

RClear(t) ==
  /\ At(t, "r_clear")
  /\ writer' = 0
  /\ Goto(t, "r_inc")
  /\ UNCHANGED <<readers, writer_pid, locals, System>>

\* Mutant: a reader enters without counting itself.
RIncForgotten(t) ==
  /\ At(t, "r_inc")
  /\ Goto(t, "r_dbl")
  /\ UNCHANGED <<lock, locals, System>>

RInc(t) ==
  /\ At(t, "r_inc")
  /\ readers' = readers + 1
  /\ Goto(t, "r_dbl")
  /\ UNCHANGED <<writer, writer_pid, locals, System>>

\* Mutant: no double check.
RDoubleMissing(t) ==
  /\ At(t, "r_dbl")
  /\ Goto(t, "reading") /\ ForgetLocals(t)
  /\ UNCHANGED <<lock, System>>

\* The double check: back off if a writer took the flag meanwhile.
RDouble(t) ==
  /\ At(t, "r_dbl")
  /\ IF writer = 0
     THEN Goto(t, "reading") /\ ForgetLocals(t)
     ELSE Goto(t, "r_back") /\ UNCHANGED locals
  /\ UNCHANGED <<lock, System>>

DropReader(t, from, to) ==
  /\ At(t, from)
  /\ readers' = readers - 1
  /\ Goto(t, to)
  /\ UNCHANGED <<writer, writer_pid, locals, System>>

\* Mutant: after backing off, count in again without looking at the flag.
RBackEager(t) == DropReader(t, "r_back", "r_inc")

RBack(t) == DropReader(t, "r_back", "r_wait")
RUnlock(t) == DropReader(t, "reading", "idle")

-----------------------------------------------------------------------------
(* Write side *)

WLock(t) ==
  /\ At(t, "idle")
  /\ Goto(t, "w_try")
  /\ UNCHANGED <<lock, locals, System>>

\* InterlockedCompareExchange(&lock->writer, 1, 0)
WTry(t) ==
  /\ At(t, "w_try")
  /\ IF writer = 0
     THEN writer' = 1 /\ Goto(t, "w_pid") /\ ForgetLocals(t)
     ELSE Goto(t, "w_read") /\ UNCHANGED <<writer, locals>>
  /\ UNCHANGED <<readers, writer_pid, System>>

WPid(t) ==
  /\ At(t, "w_pid")
  /\ writer_pid' = PidOf[t]
  /\ Goto(t, "w_drain")
  /\ UNCHANGED <<readers, writer, locals, System>>

\* Mutant: the writer enters without waiting for the readers.
WDrainEager(t) ==
  /\ At(t, "w_drain")
  /\ Goto(t, "writing")
  /\ UNCHANGED <<lock, locals, System>>

\* while (lock->readers): enter when none is left ...
WDrain(t) ==
  /\ At(t, "w_drain") /\ readers = 0
  /\ Goto(t, "writing")
  /\ UNCHANGED <<lock, locals, System>>

\* ... or give up at the wall-clock timeout.
WDrainTimeout(t) ==
  /\ At(t, "w_drain") /\ readers # 0
  /\ Goto(t, "w_abort")
  /\ UNCHANGED <<lock, locals, System>>

ClearPid(t, from, to) ==
  /\ At(t, from)
  /\ writer_pid' = NoPid
  /\ Goto(t, to)
  /\ UNCHANGED <<readers, writer, locals, System>>

ClearWriter(t, from, to) ==
  /\ At(t, from)
  /\ writer' = 0
  /\ Goto(t, to)
  /\ UNCHANGED <<readers, writer_pid, locals, System>>

\* Mutant: the timeout force-resets the readers, as an earlier lock did.
WAbortResets(t) ==
  /\ At(t, "w_abort")
  /\ readers' = 0 /\ writer_pid' = NoPid
  /\ Goto(t, "w_giveup")
  /\ UNCHANGED <<writer, locals, System>>

\* The drain timeout expired: wlock() releases the flag and returns 0.
WAbort(t)  == ClearPid(t, "w_abort", "w_giveup")
WGiveUp(t) == ClearWriter(t, "w_giveup", "idle")

WRead(t) == ReadHolder(t, "w_read", "w_check")

WCheck(t) ==
  /\ At(t, "w_check")
  /\ \/ FoundDead(expected[t]) /\ expected[t] # PidOf[t] /\ Goto(t, "w_cas")
     \/ /\ NotFoundDead(expected[t]) \/ expected[t] = PidOf[t]
        /\ Goto(t, "w_timer")
  /\ UNCHANGED <<lock, locals, System>>

WCas(t) == CasHolder(t, "w_cas", "w_clear", "w_timer")

\* The timeout starts, has not expired yet, or has expired.
WTimer(t) ==
  /\ At(t, "w_timer")
  /\ \/ /\ timeoutPid[t] = NoTimer
        /\ timeoutPid' = [timeoutPid EXCEPT ![t] = expected[t]]
        /\ Goto(t, "w_try") /\ ForgetExpected(t)
     \/ /\ timeoutPid[t] # NoTimer
        /\ Goto(t, "w_try")
        /\ ForgetExpected(t) /\ UNCHANGED timeoutPid
     \/ /\ timeoutPid[t] # NoTimer
        /\ \/ /\ FoundDead(timeoutPid[t])
              /\ expected' = [expected EXCEPT ![t] = timeoutPid[t]]
              /\ Goto(t, "w_tcas")
           \/ /\ NotFoundDead(timeoutPid[t])
              /\ Goto(t, "w_reset") /\ ForgetExpected(t)
        /\ UNCHANGED timeoutPid
  /\ UNCHANGED <<lock, System>>

WTimerCas(t) == CasHolder(t, "w_tcas", "w_clear", "w_reset")
WReset(t) == ResetTimer(t, "w_reset", "w_try")

\* The holder was revoked: spins, start_tick and timeout_pid start afresh.
WClear(t) ==
  /\ At(t, "w_clear")
  /\ writer' = 0
  /\ ForgetLocals(t)
  /\ Goto(t, "w_try")
  /\ UNCHANGED <<readers, writer_pid, System>>

\* Mutant: wunlock clears the pid but not the flag.
WReleaseForgotten(t) ==
  /\ At(t, "w_unlock")
  /\ Goto(t, "idle")
  /\ UNCHANGED <<lock, locals, System>>

WUnlock(t)  == ClearPid(t, "writing", "w_unlock")
WRelease(t) == ClearWriter(t, "w_unlock", "idle")

-----------------------------------------------------------------------------
(* Processes *)

Crash(p) ==
  /\ alive[p] /\ crashes < MaxCrashes
  /\ alive' = [alive EXCEPT ![p] = FALSE]
  /\ crashes' = crashes + 1
  /\ UNCHANGED <<lock, locals, pc>>

\* A new process is given the pid of a dead one; it starts outside the lock.
ReusePid(p) ==
  /\ PidReuse /\ ~alive[p]
  /\ alive' = [alive EXCEPT ![p] = TRUE]
  /\ pc' = [t \in Thread |-> IF PidOf[t] = p THEN "idle" ELSE pc[t]]
  /\ UNCHANGED <<lock, locals, crashes>>

\* What a thread does on its own once it has asked for the lock: spin, check,
\* acquire, and leave a critical section.
Step(t) ==
  \/ RWait(t) \/ RRead(t) \/ RCheck(t) \/ RReset(t) \/ RCas(t) \/ RClear(t)
  \/ RInc(t) \/ RDouble(t) \/ RBack(t) \/ RUnlock(t)
  \/ WTry(t) \/ WPid(t) \/ WDrain(t) \/ WAbort(t) \/ WGiveUp(t) \/ WRead(t)
  \/ WCheck(t) \/ WCas(t) \/ WTimer(t) \/ WTimerCas(t) \/ WReset(t)
  \/ WClear(t) \/ WUnlock(t) \/ WRelease(t)

Next ==
  \/ \E t \in Thread : RLock(t) \/ WLock(t) \/ WDrainTimeout(t) \/ Step(t)
  \/ \E p \in Process : Crash(p) \/ ReusePid(p)

Spec == Init /\ [][Next]_vars

\* A live thread keeps running, and every critical section is left.  The drain
\* timeout need not ever expire: no property may count on it.
Fairness == \A t \in Thread : WF_vars(Step(t))

FairSpec == Spec /\ Fairness

-----------------------------------------------------------------------------
(* Safety *)

Reading(t) == At(t, "reading")
Writing(t) == At(t, "writing")

\* A live writer shares its critical section with nobody, whatever crashed
\* writers were revoked before and however the revocation was raced -- if no
\* pid is reused and OpenProcess finds every live process.
MutualExclusion ==
  \A t, u \in Thread :
    Writing(t) /\ t # u => ~Writing(u) /\ ~Reading(u)

\* Inside wlock's critical section, the steps that enter it included, the flag
\* is up and names the holder: only a dead writer's lock is ever revoked, as
\* README.md:74 says ("lock timeout only revokes dead writers").  That takes
\* ~PidReuse and ~OpenMayFail; with either, a live writer may lose the lock.
OnlyDeadWritersRevoked ==
  \A t \in Thread :
    Live(t) /\ pc[t] \in {"w_drain", "writing", "w_abort"}
      => writer = 1 /\ writer_pid = PidOf[t]

\* readers counts the threads between an increment and its decrement, those
\* that died there included: no timeout and no revocation ever resets it.
Counted(t) == pc[t] \in {"r_dbl", "r_back", "reading"}
ReadersCounted == readers = Cardinality({t \in Thread : Counted(t)})

\* A flag nobody alive will lower carries the pid that lets others lower it
\* (README: a process killed mid-write does not deadlock the others).
Lowers(t) == pc[t] \in {"w_pid", "w_drain", "writing", "w_unlock", "w_abort",
                        "w_giveup", "r_clear", "w_clear"}
OrphanFlagRevocable ==
  writer = 1 /\ (\A t \in Thread : Lowers(t) => ~Live(t)) => writer_pid # NoPid

-----------------------------------------------------------------------------
(* Liveness *)

Waiting(t) == Live(t) /\ pc[t] \in (ReaderPC \cup WriterPC)
          \ {"reading", "writing", "w_unlock", "w_abort", "w_giveup"}
NoCrashes == \A p \in Process : alive[p]

\* While nobody dies the lock is not lost: when some thread wants it, some
\* thread gets it or a writer gives up at the drain timeout.
SomebodyGetsIn ==
  []NoCrashes =>
    ((\E t \in Thread : Waiting(t)) ~>
     (\E t \in Thread : Reading(t) \/ Writing(t) \/ At(t, "w_abort")))

\* While nobody dies, readers that keep coming cannot keep a writer waiting for
\* ever once it has raised the flag: they drain, unless the timeout comes first.
WriterDrainsReaders ==
  []NoCrashes =>
    \A t \in Thread : pc[t] = "w_drain" ~> pc[t] \in {"writing", "w_abort"}

\* A writer that died after publishing its pid does not hold the lock for good
\* as long as a live thread is waiting for it (and ~MayExit259: a dead process
\* that counts as running is waited for).
DeadHolderRevoked ==
  \A t \in Thread, p \in Process :
    (Waiting(t) /\ writer_pid = p /\ ~alive[p])
      ~> (writer_pid # p \/ alive[p] \/ ~Live(t))

-----------------------------------------------------------------------------
(* Refinement: the abstract lock, where revocation takes effect when the   *)
(* pid of the dead holder is swapped out.                                  *)
Abstract == INSTANCE ApcRWLock WITH
  readHolders  <- {t \in Thread : pc[t] = "reading"},
  writeHolders <- {t \in Thread : pc[t] = "writing" /\ writer_pid = PidOf[t]},
  running      <- alive

ImplementsRWLock == Abstract!Spec
=============================================================================
