----------------------------- MODULE QueueDepth -----------------------------
(***************************************************************************)
(* Threads that keep requests in flight on one scratch file: a point of    *)
(* the queue-depth sweep (_random_read_iops_qd in workloads.py) or a job   *)
(* (the worker of iobench.run_job), each with a DirectReader.  The caller  *)
(* stops them, waits a bounded time for each, flushes what a job wrote,    *)
(* adds up what they counted and closes the file's descriptor.             *)
(*                                                                         *)
(* Offsets are pages.  A positional read names its offset; the others      *)
(* move the position of a descriptor and read from there in two steps.     *)
(***************************************************************************)
EXTENDS Integers, FiniteSetsExt

CONSTANTS
    Threads,
    SweepBatch, \* reads of the sweep between two looks at the stop event
    MaxOps      \* bound: operations per thread

ASSUME QueueAssumption ==
    /\ IsFiniteSet(Threads) /\ "fd" \notin Threads
    /\ SweepBatch \in Nat \ {0} /\ MaxOps \in Nat

VARIABLES
    pread,      \* the platform has os.pread, all but Windows; never changes
    job,        \* a job of iobench, with writes, or the sweep; never changes
    at,         \* where each thread is
    via,        \* the descriptor of its reader: its own, or the shared one
    method,     \* how its reader reads
    owned,      \* descriptors opened for the thread and not closed
    starved,    \* threads whose reader got no memory for its buffer
    kind,       \* "read" or "write": the operation under way
    want,       \* the offset it asked for
    ops,        \* operations begun
    batch,      \* operations left before the next look at `stop`
    local,      \* operations counted by the thread, not published
    moved,      \* operations that really moved data at the offset asked for
    counts,     \* what the caller can see
    pos,        \* position of each descriptor
    strayed,    \* an operation went to an offset nobody asked for
    late,       \* an operation began on the shared descriptor after its close
    stop,       \* the event
    main,       \* where the caller is
    waiting,    \* threads the caller has still to join
    timedOut,   \* a join gave up
    total       \* the sum the result is computed from

circumstances == <<pread, job>>
threadVars == <<circumstances, at, via, method, owned, starved, kind, want, ops, batch, local, moved, counts>>
fileVars == <<pos, strayed, late>>
mainVars == <<circumstances, stop, main, waiting, timedOut, total>>
vars == <<threadVars, fileVars, mainVars>>

\* One stands for all of them where nothing depends on a position.
Offsets == IF pread THEN {0} ELSE {0, 1}
Shared == "fd"
Descriptors == Threads \cup {Shared}
Batch == IF job THEN 1 ELSE SweepBatch
Kinds == IF job THEN {"read", "write"} ELSE {"read"}

TypeOK ==
    /\ pread \in BOOLEAN /\ job \in BOOLEAN
    /\ at \in [Threads -> {"open", "probe", "reopen", "look", "op", "seek", "io", "close", "over"}]
    /\ via \in [Threads -> Descriptors]
    /\ method \in [Threads -> {"buffered", "direct"}]
    /\ owned \in [Threads -> 0 .. 2] /\ starved \subseteq Threads
    /\ kind \in [Threads -> {"read", "write"}] /\ want \in [Threads -> Offsets]
    /\ ops \in [Threads -> 0 .. MaxOps] /\ batch \in [Threads -> 0 .. SweepBatch]
    /\ local \in [Threads -> 0 .. MaxOps] /\ moved \in [Threads -> 0 .. MaxOps]
    /\ counts \in [Threads -> 0 .. MaxOps]
    /\ pos \in [Descriptors -> Offsets]
    /\ strayed \in BOOLEAN /\ late \in BOOLEAN /\ stop \in BOOLEAN /\ timedOut \in BOOLEAN
    /\ main \in {"wait", "join", "sync", "sum", "close", "done"}
    /\ waiting \subseteq Threads
    /\ total \in 0 .. MaxOps * Cardinality(Threads)

Init ==
    /\ pread \in BOOLEAN /\ job \in BOOLEAN
    /\ at = [t \in Threads |-> "open"]
    /\ via = [t \in Threads |-> Shared]
    /\ method = [t \in Threads |-> "buffered"]
    /\ owned = [t \in Threads |-> 0] /\ starved = {}
    /\ kind = [t \in Threads |-> "read"] /\ want = owned
    /\ ops = owned /\ batch = owned /\ local = owned /\ moved = owned /\ counts = owned
    /\ pos = [d \in Descriptors |-> 0]
    /\ strayed = FALSE /\ late = FALSE
    /\ stop = FALSE /\ main = "wait" /\ waiting = Threads /\ timedOut = FALSE /\ total = 0

-----------------------------------------------------------------------------
(* DirectReader.__init__: open, probe, commit or fall back.                *)

Goto(t, l) == at' = [at EXCEPT ![t] = l]
Owns(t, n) == owned' = [owned EXCEPT ![t] = @ + n]
Buffered == IF pread THEN "look" ELSE "reopen"

SharedReader(t) == Shared
Reader(t) == t

Open(t) ==
    /\ at[t] = "open"
    /\ \/ Goto(t, "probe") /\ Owns(t, 1)
       \/ Goto(t, Buffered) /\ UNCHANGED owned
    /\ UNCHANGED <<via, method, starved, kind, want, ops, batch, local, moved, counts, fileVars, mainVars>>

LeftOpen(t) == UNCHANGED owned
DropProbe(t) == Owns(t, -1)

\* The buffer is made between the open and the try.  Where it is an mmap, its
\* error ends the thread; on Windows it is caught, but the handle was not kept.
Starve(t) ==
    /\ starved' = starved \cup {t}
    /\ Goto(t, IF pread THEN "over" ELSE Buffered)
    /\ UNCHANGED <<owned, via, method>>

Probe(t) ==
    /\ at[t] = "probe"
    /\ \/ /\ via' = [via EXCEPT ![t] = Reader(t)]
          /\ method' = [method EXCEPT ![t] = "direct"]
          /\ Goto(t, "look")
          /\ UNCHANGED <<owned, starved>>
       \/ DropProbe(t) /\ Goto(t, Buffered) /\ UNCHANGED <<via, method, starved>>
       \/ Starve(t)
    /\ UNCHANGED <<kind, want, ops, batch, local, moved, counts, fileVars, mainVars>>

\* open_reader: on failure the shared descriptor is used after all.
Reopen(t) ==
    /\ at[t] = "reopen"
    /\ \/ Owns(t, 1) /\ via' = [via EXCEPT ![t] = Reader(t)]
       \/ UNCHANGED <<owned, via>>
    /\ Goto(t, "look")
    /\ UNCHANGED <<method, starved, kind, want, ops, batch, local, moved, counts, fileVars, mainVars>>

-----------------------------------------------------------------------------
(* The loop: while not stop.is_set().                                      *)

Look(t) ==
    /\ at[t] = "look"
    /\ stop \/ ops[t] + Batch <= MaxOps
    /\ IF stop THEN Goto(t, "close") /\ UNCHANGED batch
               ELSE Goto(t, "op") /\ batch' = [batch EXCEPT ![t] = Batch]
    /\ UNCHANGED <<via, method, owned, starved, kind, want, ops, local, moved, counts, fileVars, mainVars>>

\* Writes go through the shared descriptor.
Target(t) == IF kind[t] = "write" THEN Shared ELSE via[t]

Ask(t) ==
    /\ at[t] = "op"
    /\ \E k \in Kinds, o \in Offsets :
          /\ kind' = [kind EXCEPT ![t] = k]
          /\ want' = [want EXCEPT ![t] = o]
          /\ late' = (late \/ (main = "done" /\ (k = "write" \/ via[t] = Shared)))
    /\ ops' = [ops EXCEPT ![t] = @ + 1]
    /\ Goto(t, IF pread THEN "io" ELSE "seek")
    /\ UNCHANGED <<via, method, owned, starved, batch, local, moved, counts, pos, strayed, mainVars>>

Seek(t) ==
    /\ at[t] = "seek"
    /\ pos' = [pos EXCEPT ![Target(t)] = want[t]]
    /\ Goto(t, "io")
    /\ UNCHANGED <<via, method, owned, starved, kind, want, ops, batch, local, moved, counts, strayed, late, mainVars>>

Reached(t) == IF pread THEN want[t] ELSE pos[Target(t)]
Advance(t) == IF pread THEN pos ELSE [pos EXCEPT ![Target(t)] = 1 - @]

\* The sweep counts a batch at its end, a job counts each operation.
AtItsStart(t) == batch[t] = Batch
AtItsEnd(t) == batch[t] = 1

Count(t) ==
    IF job THEN counts' = [counts EXCEPT ![t] = @ + 1] /\ UNCHANGED local
           ELSE /\ local' = [local EXCEPT ![t] = @ + IF AtItsEnd(t) THEN Batch ELSE 0]
                /\ UNCHANGED counts

\* kind and offset are locals of one round of the loop.
Forget(t) == kind' = [kind EXCEPT ![t] = "read"] /\ want' = [want EXCEPT ![t] = 0]

Proceed(t) ==
    /\ Count(t)
    /\ Forget(t)
    /\ batch' = [batch EXCEPT ![t] = @ - 1]
    /\ Goto(t, IF batch[t] = 1 THEN "look" ELSE "op")

Io(t) ==
    /\ at[t] = "io"
    /\ Proceed(t)
    /\ moved' = [moved EXCEPT ![t] = @ + 1]
    /\ strayed' = (strayed \/ Reached(t) # want[t])
    /\ pos' = Advance(t)
    /\ UNCHANGED <<via, method, owned, starved, ops, late, mainVars>>

FailedCounted(t) == counts' = [counts EXCEPT ![t] = @ + 1]
CountFailed(t) == UNCHANGED counts

\* OSError leaves the loop.
Raise(t) ==
    /\ at[t] = "io"
    /\ CountFailed(t)
    /\ Forget(t)
    /\ Goto(t, "close")
    /\ UNCHANGED <<via, method, owned, starved, ops, batch, local, moved, fileVars, mainVars>>

\* _read_windows returns 0 where the others raise, and nobody looks at it.
ReadsNothing(t) ==
    /\ at[t] = "io"
    /\ ~pread /\ method[t] = "direct" /\ kind[t] = "read"
    /\ Proceed(t)
    /\ UNCHANGED <<via, method, owned, starved, ops, moved, fileVars, mainVars>>

\* finally: handle.close(); the sweep's count is published after it.
Close(t) ==
    /\ at[t] = "close"
    /\ Owns(t, IF via[t] = Shared THEN 0 ELSE -1)
    /\ IF job THEN UNCHANGED counts ELSE counts' = [counts EXCEPT ![t] = local[t]]
    /\ Goto(t, "over")
    /\ UNCHANGED <<via, method, starved, kind, want, ops, batch, local, moved, fileVars, mainVars>>

Thread(t) ==
    \/ Open(t) \/ Probe(t) \/ Reopen(t) \/ Look(t) \/ Ask(t) \/ Seek(t) \/ Io(t) \/ Raise(t)
    \/ ReadsNothing(t) \/ Close(t)

-----------------------------------------------------------------------------
(* The caller.                                                             *)

Stop ==
    /\ main = "wait"
    /\ stop' = TRUE
    /\ main' = "join"
    /\ UNCHANGED <<threadVars, fileVars, waiting, timedOut, total>>

\* A join waits so long and no longer: the device may keep a request.
NeverGivesUp == FALSE
GivesUp == TRUE

Join ==
    /\ main = "join"
    /\ \E t \in waiting :
          /\ at[t] = "over" \/ GivesUp
          /\ timedOut' = (timedOut \/ at[t] # "over")
          /\ waiting' = waiting \ {t}
    /\ UNCHANGED <<threadVars, fileVars, stop, main, total>>

NotWaited == TRUE
Waited == waiting = {}

Joined ==
    /\ main = "join"
    /\ Waited
    /\ main' = IF job THEN "sync" ELSE "sum"
    /\ UNCHANGED <<threadVars, fileVars, stop, waiting, timedOut, total>>

\* os.fsync of a job that writes has no timeout; an OSError skips the sum.
Sync ==
    /\ main = "sync"
    /\ main' \in {"sum", "close"}
    /\ UNCHANGED <<threadVars, fileVars, stop, waiting, timedOut, total>>

Sum ==
    /\ main = "sum"
    /\ total' = MapThenSumSet(LAMBDA t : counts[t], Threads)
    /\ main' = "close"
    /\ UNCHANGED <<threadVars, fileVars, stop, waiting, timedOut>>

\* bench_disk and run_job close the shared descriptor.
CloseShared ==
    /\ main = "close"
    /\ main' = "done"
    /\ UNCHANGED <<threadVars, fileVars, stop, waiting, timedOut, total>>

Caller == Stop \/ Join \/ Joined \/ Sum \/ CloseShared

Over == main = "done" /\ (\A t \in Threads : at[t] = "over") /\ UNCHANGED vars

Next == (\E t \in Threads : Thread(t)) \/ Caller \/ Sync \/ Over

Spec == Init /\ [][Next]_vars

\* The caller's waits are bounded, so that it does not depend on the threads'
\* progress; what the device does with fsync is not owed.
FairSpec == Spec /\ WF_vars(Caller)

-----------------------------------------------------------------------------
\* A handle whose buffer could not be had is in nobody's hands.
Lost(t) == IF t \in starved THEN 1 ELSE 0

(* A read through a descriptor of its thread's own, or a positional one,   *)
(* reads where it was meant to, whatever the other threads do: what goes   *)
(* elsewhere is a write of a job, or a read of a thread that could not     *)
(* open a descriptor (workloads.py 583-591, 617-630).                      *)
OwnDescriptorsLand ==
    [][strayed' # strayed =>
          /\ ~pread
          /\ \E t \in Threads : /\ at[t] = "io" /\ at'[t] # "io"
                                /\ (job /\ kind[t] = "write") \/ owned[t] = Lost(t)]_vars

(* A descriptor is closed after its last use and not later than its        *)
(* thread. Nothing is started on the shared one after the caller closed it *)
(* (the number may belong to another file by then), unless a join gave up  *)
(* on a thread (workloads.py 519, iobench.py 355); a thread that is over   *)
(* has none open but the one for whose buffer there was no memory          *)
(* (workloads.py 711-789, 813-834).                                        *)
DescriptorsEndInOrder ==
    /\ late => timedOut
    /\ \A t \in Threads : at[t] = "over" => owned[t] = Lost(t)

(* The rate is computed from operations that took place, whichever threads *)
(* failed in mid-batch or were given up on; on platforms where a read that *)
(* fails raises (workloads.py 968-997, iobench.py 295).                    *)
NeverOverstated ==
    pread /\ main \in {"close", "done"} => total <= MapThenSumSet(LAMBDA t : moved[t], Threads)

(* The measurement ends although a device keeps a read or a write for ever *)
(* (workloads.py 995, iobench.py 289); only a job that writes may be kept  *)
(* by the fsync after it (iobench.py 293).                                 *)
CallerEnds == <>(main = "done") \/ <>[](job /\ main = "sync")

-----------------------------------------------------------------------------
(* workloads.py 618: the descriptor of a thread is "safe for one thread to *)
(* read through", so the sweep reads at the offsets it chose.              *)
SweepLandsWhereAsked == ~job => ~strayed

(* workloads.py 610: a write has the "same exclusivity rule" as a read, so *)
(* a job's operations go to the offsets they were meant for.               *)
JobLandsWhereAsked == job => ~strayed
=============================================================================
