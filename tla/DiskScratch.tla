---------------------------- MODULE DiskScratch ----------------------------
(***************************************************************************)
(* The scratch files of the storage tests, of several runs of pcbench that *)
(* share a directory: bench_disk (workloads.py) creates a temporary file   *)
(* per repeat, after removing the files killed runs left behind; run_job   *)
(* (iobench.py) uses one file named after its process.  storage.run gives  *)
(* bench_disk a subdirectory of its own making, shared by concurrent runs. *)
(*                                                                         *)
(* The filesystem is that of POSIX: a file can be removed while it is open *)
(* and takes space until it is closed.  No other program writes.           *)
(***************************************************************************)
EXTENDS Limits, FiniteSetsExt

CONSTANTS
    Runs,
    Pids,       \* process ids: that of a run that is over may come back
    RepeatCounts, Requested,    \* what --repeats may be, and --disk-mb
    JobLeast,   \* a job needs sixteen of its blocks
    Capacity,   \* bound: the free space of the filesystem at most
    MaxJobWrites    \* bound: MB a job writes after its file is filled

ASSUME DiskAssumption ==
    /\ IsFiniteSet(Runs) /\ IsFiniteSet(Pids) /\ Pids # {}
    /\ RepeatCounts \subseteq Nat \ {0} /\ IsFiniteSet(RepeatCounts) /\ RepeatCounts # {}
    /\ Requested \in Nat /\ JobLeast \in Nat
    /\ Capacity \in Nat /\ MaxJobWrites \in Nat

VARIABLES
    workdir,    \* the tests are storage.run's, in a directory made for them
    repeats,    \* the repeats each run was asked for
    pid,        \* the process id of each run
    pc,         \* where each run is
    plan,       \* the size each run chose for its file
    left,       \* MB of that file still to write
    rep,        \* repeats begun
    todo,       \* stale files the run's cleaner has still to remove
    held,       \* the file the run has open: a set of at most one
    result,     \* what the disk test returned
    wear,       \* MB the disk test wrote
    jobWear,    \* MB the job wrote
    entries,    \* the files in the directory
    size,       \* MB of each file
    old,        \* files last written over a minute ago
    dir,        \* the directory exists
    room        \* what the filesystem could hold before any run

runVars == <<pid, plan, left, rep, todo, held, result, wear, jobWear>>
fileVars == <<entries, size, old, dir, room, workdir, repeats>>
vars == <<pc, runVars, fileVars>>

Temp(r, i) == <<"pcbench_*.bin", r, i>>
Temps == {Temp(r, i) : r \in Runs, i \in 1 .. Max(RepeatCounts)}
OneJobFile(r) == <<".pcbench_io", 0>>
JobFile(r) == <<".pcbench_io", pid[r]>>
Files == Temps \cup {<<".pcbench_io", p>> : p \in Pids \cup {0}}

Used == MapThenSumSet(LAMBDA f : size[f], entries \cup UNION {held[r] : r \in Runs})
Free == room - Used
Live(r) == pc[r] \notin {"idle", "ended", "killed"}

TypeOK ==
    /\ workdir \in BOOLEAN /\ repeats \in [Runs -> RepeatCounts] /\ pid \in [Runs -> Pids]
    /\ pc \in [Runs -> {"idle", "stat", "glob", "clean", "create", "write", "read", "close",
                        "rmdir", "job", "fill", "run", "jobclose", "ended", "killed"}]
    /\ plan \in [Runs -> Nat] /\ left \in [Runs -> Int] /\ rep \in [Runs -> 0 .. Max(RepeatCounts)]
    /\ todo \in [Runs -> SUBSET Temps]
    /\ held \in [Runs -> SUBSET Files] /\ \A r \in Runs : Cardinality(held[r]) <= 1
    /\ result \in [Runs -> {"none", "ok", "skipped", "interrupted"}]
    /\ wear \in [Runs -> Nat] /\ jobWear \in [Runs -> Nat]
    /\ entries \subseteq Files /\ old \subseteq Temps
    /\ size \in [Files -> Nat]
    /\ dir \in BOOLEAN /\ room \in Nat /\ Free >= 0

Init ==
    /\ workdir \in BOOLEAN /\ repeats \in [Runs -> RepeatCounts]
    /\ pid = [r \in Runs |-> CHOOSE p \in Pids : TRUE]
    /\ pc = [r \in Runs |-> "idle"]
    /\ plan = [r \in Runs |-> 0] /\ left = plan /\ rep = plan
    /\ todo = [r \in Runs |-> {}] /\ held = todo
    /\ result = [r \in Runs |-> "none"]
    /\ wear = plan /\ jobWear = plan
    /\ entries = {} /\ old = {}
    /\ size = [f \in Files |-> 0]
    /\ dir = ~workdir
    /\ room \in 0 .. Capacity

-----------------------------------------------------------------------------
Goto(r, l) == pc' = [pc EXCEPT ![r] = l]
AfterTest == IF workdir THEN "rmdir" ELSE "job"
Return(r, how) == result' = [result EXCEPT ![r] = how]

\* A process id is free again once its process is gone; makedirs(exist_ok).
Start(r) ==
    /\ pc[r] = "idle"
    /\ \E p \in Pids \ {pid[q] : q \in {q \in Runs : Live(q)}} : pid' = [pid EXCEPT ![r] = p]
    /\ dir' = TRUE
    /\ Goto(r, "stat")
    /\ UNCHANGED <<plan, left, rep, todo, held, result, wear, jobWear, entries, size, old, room, workdir, repeats>>

\* The size is decided on what is free at this moment.
Stat(r) ==
    /\ pc[r] = "stat"
    /\ LET total == FileTotal(safe_disk_mb(Requested, Free, repeats[r]))
       IN  IF dir /\ Fits(total, Free)
           THEN /\ plan' = [plan EXCEPT ![r] = total]
                /\ Goto(r, "glob")
                /\ UNCHANGED result
           ELSE /\ Return(r, "skipped")
                /\ Goto(r, AfterTest)
                /\ UNCHANGED plan
    /\ UNCHANGED <<pid, left, rep, todo, held, wear, jobWear, fileVars>>

AnyAge == entries \cap Temps
Stale == entries \cap old

Glob(r) ==
    /\ pc[r] = "glob"
    /\ todo' = [todo EXCEPT ![r] = Stale]
    /\ Goto(r, "clean")
    /\ UNCHANGED <<pid, plan, left, rep, held, result, wear, jobWear, fileVars>>

Clean(r) ==
    /\ pc[r] = "clean"
    /\ \/ \E f \in todo[r] :
             /\ entries' = entries \ {f}
             /\ todo' = [todo EXCEPT ![r] = @ \ {f}]
             /\ UNCHANGED pc
       \/ todo[r] = {} /\ Goto(r, "create") /\ UNCHANGED <<entries, todo>>
    /\ UNCHANGED <<pid, plan, left, rep, held, result, wear, jobWear, size, old, dir, room, workdir, repeats>>

\* mkstemp is outside the try block: it raises when the directory is gone.
Create(r) ==
    /\ pc[r] = "create"
    /\ IF dir
       THEN LET f == Temp(r, rep[r] + 1)
            IN  /\ entries' = entries \cup {f}
                /\ held' = [held EXCEPT ![r] = {f}]
                /\ rep' = [rep EXCEPT ![r] = @ + 1]
                /\ left' = [left EXCEPT ![r] = plan[r]]
                /\ Goto(r, "write")
                /\ UNCHANGED result
       ELSE /\ Return(r, "skipped")
            /\ Goto(r, AfterTest)
            /\ UNCHANGED <<entries, held, rep, left>>
    /\ UNCHANGED <<pid, plan, todo, wear, jobWear, size, old, dir, room, workdir, repeats>>

\* The length os.write returns is not looked at: a write that comes short
\* raises nothing, the next one finds no space at all.
Moved == AtMost(Free, DISK_BLOCK_MB)

Write(r) ==
    /\ pc[r] = "write"
    /\ left[r] > 0
    /\ Free > 0
    /\ size' = [f \in Files |-> size[f] + IF f \in held[r] THEN Moved ELSE 0]
    /\ wear' = [wear EXCEPT ![r] = @ + Moved]
    /\ left' = [left EXCEPT ![r] = @ - DISK_BLOCK_MB]
    /\ UNCHANGED <<pid, pc, plan, rep, todo, held, result, jobWear, entries, old, dir, room, workdir, repeats>>

Fsync(r) ==
    /\ pc[r] = "write"
    /\ left[r] <= 0
    /\ Goto(r, "read")
    /\ UNCHANGED <<runVars, fileVars>>

\* The sequential read, the random reads and the queue-depth sweep.
Read(r) ==
    /\ pc[r] = "read"
    /\ Goto(r, "close")
    /\ UNCHANGED <<runVars, fileVars>>

\* OSError: the device fails, or (always, then) no space is left.
Fail(r) ==
    /\ pc[r] \in {"write", "read"}
    /\ Return(r, "skipped")
    /\ Goto(r, "close")
    /\ UNCHANGED <<pid, plan, left, rep, todo, held, wear, jobWear, fileVars>>

\* Ctrl-C runs the finally blocks and ends the run.
KeyboardInterrupt(r) ==
    /\ pc[r] \in {"write", "read", "fill", "run"}
    /\ Return(r, "interrupted")
    /\ Goto(r, IF pc[r] \in {"write", "read"} THEN "close" ELSE "jobclose")
    /\ UNCHANGED <<pid, plan, left, rep, todo, held, wear, jobWear, fileVars>>

\* finally: os.close, os.remove; what is already gone is no error.
DroppedOnSuccess(r) == IF result[r] = "none" THEN held[r] ELSE {}
Dropped(r) == held[r]

RepeatsLeftButOne(r) == rep[r] < repeats[r] - 1
RepeatsLeft(r) == rep[r] < repeats[r]

Close(r) ==
    /\ pc[r] = "close"
    /\ entries' = entries \ Dropped(r)
    /\ held' = [held EXCEPT ![r] = {}]
    /\ IF result[r] = "none" /\ RepeatsLeft(r)
       THEN Goto(r, "create") /\ UNCHANGED result
       ELSE /\ Goto(r, IF result[r] = "interrupted" /\ ~workdir THEN "ended" ELSE AfterTest)
            /\ IF result[r] = "none" THEN Return(r, "ok") ELSE UNCHANGED result
    /\ UNCHANGED <<pid, plan, left, rep, todo, wear, jobWear, size, old, dir, room, workdir, repeats>>

\* os.rmdir fails, silently, on a directory that is not empty.
Rmdir(r) ==
    /\ pc[r] = "rmdir"
    /\ dir' = (dir /\ entries # {})
    /\ Goto(r, "ended")
    /\ UNCHANGED <<runVars, entries, size, old, room, workdir, repeats>>

-----------------------------------------------------------------------------
(* iobench.run_job.                                                        *)

JobSize == AtMost(Requested, safe_disk_mb(Requested, Free, 1))

\* O_CREAT without O_EXCL: a file of that name is taken over as it is, and
\* written again only when it is too short.
JobOpen(r) ==
    /\ pc[r] = "job"
    /\ IF JobSize < JobLeast
       THEN Goto(r, "ended") /\ UNCHANGED <<plan, left, held, entries, size>>
       ELSE LET f == JobFile(r)
                present == IF f \in entries THEN size[f] ELSE 0
            IN  /\ plan' = [plan EXCEPT ![r] = JobSize]
                /\ left' = [left EXCEPT ![r] = IF present < JobSize THEN JobSize ELSE 0]
                /\ entries' = entries \cup {f}
                /\ size' = [size EXCEPT ![f] = present]
                /\ held' = [held EXCEPT ![r] = {f}]
                /\ Goto(r, "fill")
    /\ UNCHANGED <<pid, rep, todo, result, wear, jobWear, old, dir, room, workdir, repeats>>

\* One MB at a time, from the start of the file.
JobFill(r) ==
    /\ pc[r] = "fill"
    /\ IF left[r] = 0
       THEN Goto(r, "run") /\ UNCHANGED <<left, size, jobWear>>
       ELSE LET f == JobFile(r)
                end == plan[r] - left[r] + 1
            IN  /\ end > size[f] => Free > 0
                /\ size' = [size EXCEPT ![f] = AtLeast(end, @)]
                /\ left' = [left EXCEPT ![r] = @ - 1]
                /\ jobWear' = [jobWear EXCEPT ![r] = @ + 1]
                /\ UNCHANGED pc
    /\ UNCHANGED <<pid, plan, rep, todo, held, result, wear, entries, old, dir, room, workdir, repeats>>

\* Writing jobs overwrite the file until their time is up.
JobWrite(r) ==
    /\ pc[r] = "run"
    /\ jobWear[r] < plan[r] + MaxJobWrites
    /\ jobWear' = [jobWear EXCEPT ![r] = @ + 1]
    /\ UNCHANGED <<pid, pc, plan, left, rep, todo, held, result, wear, fileVars>>

\* The time is up, or OSError at any point after the open.
JobStop(r) ==
    /\ pc[r] \in {"fill", "run"}
    /\ Goto(r, "jobclose")
    /\ UNCHANGED <<runVars, fileVars>>

JobClose(r) ==
    /\ pc[r] = "jobclose"
    /\ entries' = entries \ held[r]
    /\ held' = [held EXCEPT ![r] = {}]
    /\ Goto(r, "ended")
    /\ UNCHANGED <<pid, plan, left, rep, todo, result, wear, jobWear, size, old, dir, room, workdir, repeats>>

-----------------------------------------------------------------------------
\* SIGKILL, a power cut: the descriptors are closed, the files stay.
Kill(r) ==
    /\ Live(r)
    /\ held' = [held EXCEPT ![r] = {}]
    /\ Goto(r, "killed")
    /\ UNCHANGED <<pid, plan, left, rep, todo, result, wear, jobWear, fileVars>>

\* A minute since the last write; assumed not to pass while a test writes.
Minute(f) ==
    /\ f \in entries \ old
    /\ \A r \in Runs : f \in held[r] => pc[r] \in {"read", "close"}
    /\ old' = old \cup {f}
    /\ UNCHANGED <<pc, runVars, entries, size, dir, room, workdir, repeats>>

AllOver == (\A r \in Runs : pc[r] \in {"ended", "killed"}) /\ UNCHANGED vars

BenchDisk(r) ==
    \/ Stat(r) \/ Glob(r) \/ Clean(r) \/ Create(r) \/ Write(r) \/ Fsync(r) \/ Read(r)
    \/ Fail(r) \/ Close(r)
RunJob(r) == JobOpen(r) \/ JobFill(r) \/ JobWrite(r) \/ JobStop(r) \/ JobClose(r)

Next ==
    \/ \E r \in Runs :
          Start(r) \/ BenchDisk(r) \/ Rmdir(r) \/ RunJob(r) \/ KeyboardInterrupt(r) \/ Kill(r)
    \/ \E f \in Temps : Minute(f)
    \/ AllOver

Spec == Init /\ [][Next]_vars

-----------------------------------------------------------------------------
(* A run that ended, in whatever way its tests ended, left nothing in the  *)
(* directory: every path goes through the finally blocks of workloads.py   *)
(* 519-524 and iobench.py 352-361. The directory that storage.run makes    *)
(* does not outlive the runs that use it, in whatever order they finish,   *)
(* unless one was killed.                                                  *)
NothingIsLeftBehind ==
    /\ \A r \in Runs : pc[r] = "ended" =>
        /\ \A i \in 1 .. repeats[r] : Temp(r, i) \notin entries
        /\ JobFile(r) \in entries =>
              \E q \in Runs \ {r} : pid[q] = pid[r] /\ (Live(q) \/ pc[q] = "killed")
    /\ workdir /\ dir /\ (\A r \in Runs : pc[r] \in {"idle", "ended"}) => \E r \in Runs : pc[r] = "idle"

(* A file goes away because the run that has it open is done with it, or   *)
(* because nothing was written to it for a minute: a test that is writing  *)
(* never loses its file to another run (workloads.py 557-573).             *)
OnlyOwnOrStaleRemoved ==
    \A f \in entries \ entries' :
        \/ f \in old
        \/ \E r \in Runs : f \in held[r] /\ f \notin held'[r]

(* A job keeps the file it opened by name until it closes it, although a   *)
(* later process can have the name of a killed one (iobench.py 226).       *)
JobFileIsPrivate ==
    \A r \in Runs : pc[r] \in {"fill", "run", "jobclose"} =>
        /\ JobFile(r) \in entries
        /\ \A q \in Runs \ {r} : held[q] \cap held[r] = {}

(* The files of a run are its own: the two together, of runs that share a  *)
(* directory (workloads.py 557-573, iobench.py 226).                       *)
FilesAreTheirOwners == [][OnlyOwnOrStaleRemoved /\ JobFileIsPrivate']_vars

(* A run alone on its filesystem has half its file's size free at every    *)
(* moment of the test, through all repeats, errors and retries of the      *)
(* cleaner: the headroom of limits.py 93-100 is still there at the end.    *)
HeadroomKept ==
    \A r \in Runs :
        pc[r] \in {"create", "write", "read", "close"} /\ (\A q \in Runs \ {r} : pc[q] = "idle")
            => 2 * Free >= plan[r]

(* A result is computed from the size of the file, so a test that reports  *)
(* one has really written all of every repeat; of a run alone.             *)
OkWroteEverything ==
    \A r \in Runs : result[r] = "ok" /\ (\A q \in Runs \ {r} : pc[q] = "idle")
        /\ pc[r] \in {"rmdir", "job"} => wear[r] = repeats[r] * plan[r]

-----------------------------------------------------------------------------
(* What the program and its documents say, and the code does not do.       *)

(* workloads.py 561: stale files are older than a minute, "so a concurrent *)
(* run is never disturbed".                                                *)
ConcurrentRunUndisturbed ==
    \A r \in Runs : pc[r] \in {"write", "read"} => held[r] \subseteq entries

(* limits.py 93: "headroom so the filesystem never runs to full".          *)
FilesystemNeverFull == (\E r \in Runs : Live(r) /\ held[r] # {}) => Free > 0

(* docs/safety.md 66: "cumulative writes per run are capped at 16 GB".     *)
RunUnderCap == \A r \in Runs : wear[r] + jobWear[r] <= DISK_MAX_TOTAL_WRITE_MB

(* docs/safety.md 93: the only files removed are those "the tool just      *)
(* created via `mkstemp`" and orphans "matching `pcbench_*.bin`".          *)
OnlyTempsRemoved == [][entries \ entries' \subseteq Temps]_vars
=============================================================================
