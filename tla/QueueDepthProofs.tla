-------------------------- MODULE QueueDepthProofs --------------------------
(***************************************************************************)
(* Theorems about QueueDepth, for any set of threads, any batch and any    *)
(* number of operations.                                                   *)
(***************************************************************************)
EXTENDS QueueDepth, Sums, TLAPS

Places == {"open", "probe", "reopen", "look", "op", "seek", "io", "close", "over"}

\* The types the proofs need; what is counted is bounded by TypeOK.
Typed ==
    /\ pread \in BOOLEAN /\ job \in BOOLEAN
    /\ at \in [Threads -> Places]
    /\ via \in [Threads -> Descriptors]
    /\ owned \in [Threads -> Int]
    /\ kind \in [Threads -> {"read", "write"}] /\ want \in [Threads -> Offsets]
    /\ batch \in [Threads -> Int]
    /\ local \in [Threads -> Int] /\ moved \in [Threads -> Nat] /\ counts \in [Threads -> Int]
    /\ starved \subseteq Threads
    /\ pos \in [Descriptors -> Offsets]
    /\ waiting \subseteq Threads /\ strayed \in BOOLEAN
    /\ main \in {"wait", "join", "sync", "sum", "close", "done"}

\* What a thread holds open, by where it is; a lost handle stays.
Holds(t) ==
    /\ at[t] \in {"open", "probe"} => t \notin starved /\ via[t] = Shared
    /\ at[t] = "open" => owned[t] = 0
    /\ at[t] = "probe" => owned[t] = 1
    /\ at[t] = "reopen" => owned[t] = Lost(t) /\ via[t] = Shared
    /\ at[t] = "over" => owned[t] = Lost(t)
    /\ at[t] \in {"look", "op", "seek", "io", "close"} =>
          \/ via[t] = Shared /\ owned[t] = Lost(t)
          \/ via[t] = t /\ owned[t] = Lost(t) + 1

\* A sweep reads; a descriptor of its own stands where the thread put it.
Aimed(t) ==
    /\ ~job => kind[t] = "read"
    /\ at[t] = "io" /\ ~pread /\ kind[t] = "read" /\ owned[t] # Lost(t) => pos[t] = want[t]

\* What is counted, and what the batch under way will add, did take place.
Backed(t) ==
    /\ counts[t] <= moved[t] /\ local[t] <= moved[t]
    /\ at[t] \in {"op", "seek", "io"} =>
          batch[t] \in 1 .. Batch /\ local[t] + (Batch - batch[t]) <= moved[t]

\* What a thread's part of the invariant says.
Sound(t) == Holds(t) /\ Aimed(t) /\ (pread => Backed(t))

\* The caller goes on without a thread only when it gave up on it.
Parted ==
    /\ main \in {"wait", "join"} \/ waiting = {}
    /\ \A t \in Threads \ waiting : at[t] = "over" \/ timedOut
    /\ late => timedOut

IInv == Typed /\ (\A t \in Threads : Sound(t)) /\ Parted

(* A batch has operations in it.                                           *)
LEMMA BatchType == Batch \in Nat \ {0}
  BY QueueAssumption DEF Batch

(* The steps of a thread before and after its loop.                        *)
LEMMA ReaderSteps ==
    ASSUME IInv, NEW t \in Threads, Open(t) \/ Probe(t) \/ Reopen(t) \/ Look(t) \/ Close(t)
    PROVE  IInv'
  <1> USE DEF IInv
  <1>0. /\ at \in [Threads -> Places] /\ via \in [Threads -> Descriptors] /\ owned \in [Threads -> Int]
        /\ t \in Descriptors /\ Shared \in Descriptors /\ Shared # t
        /\ batch \in [Threads -> Int] /\ counts \in [Threads -> Int] /\ local \in [Threads -> Int]
        /\ starved \subseteq Threads
    BY QueueAssumption DEF Typed, Descriptors, Shared
  <1>1. UNCHANGED <<circumstances, kind, want, local, moved, pos, late, main, waiting, timedOut>> /\ at[t] # "over"
    BY DEF Open, Probe, Reopen, Look, Close, fileVars, mainVars, circumstances
  <1>2. /\ at' \in [Threads -> Places] /\ owned' \in [Threads -> Int] /\ via' \in [Threads -> Descriptors]
        /\ starved' \subseteq Threads
        /\ \A u \in Threads \ {t} : /\ at'[u] = at[u] /\ owned'[u] = owned[u] /\ via'[u] = via[u]
                                    /\ u \in starved' <=> u \in starved
    <2>1. CASE Probe(t)
      <3>1. CASE Starve(t)
        BY <1>0, <3>1 DEF Starve, Goto, Buffered, Places
      <3>2. CASE ~Starve(t)
        BY <1>0, <2>1, <3>2 DEF Probe, Goto, Owns, DropProbe, Reader, Buffered, Places
      <3> QED
        BY <3>1, <3>2
    <2>2. CASE Open(t) \/ Reopen(t) \/ Look(t) \/ Close(t)
      BY <1>0, <2>2 DEF Open, Reopen, Look, Close, Goto, Owns, Reader, Buffered, Places
    <2> QED
      BY <2>1, <2>2
  <1>3. /\ batch' \in [Threads -> Int] /\ counts' \in [Threads -> Int]
        /\ \A u \in Threads \ {t} : batch'[u] = batch[u] /\ counts'[u] = counts[u]
    BY <1>0, BatchType DEF Open, Probe, Reopen, Look, Close
  <1>4. Typed'
    <2>1. strayed' \in BOOLEAN
      BY DEF Typed, Open, Probe, Reopen, Look, Close, fileVars
    <2> QED
      BY <1>1, <1>2, <1>3, <2>1 DEF Typed, circumstances, Offsets
  <1>5. \A u \in Threads \ {t} : Sound(u)'
    BY <1>1, <1>2, <1>3 DEF Sound, Holds, Aimed, Backed, circumstances, Batch, Lost
  <1>6. Holds(t)'
    <2>1. CASE Open(t)
      BY <1>0, <2>1 DEF Sound, Holds, Open, Goto, Owns, Buffered, Lost
    <2>2. CASE Probe(t)
      <3>0. t \notin starved /\ via[t] = Shared /\ owned[t] = 1
        BY <2>2 DEF Sound, Holds, Probe
      <3>1. CASE Starve(t)
        <4>1. /\ t \in starved' /\ owned'[t] = 1 /\ via'[t] = Shared
              /\ at'[t] \in {"over", "look", "reopen"}
          BY <1>0, <3>0, <3>1 DEF Starve, Goto, Buffered
        <4> QED
          BY <4>1 DEF Holds, Lost
      <3>2. CASE ~Starve(t)
        BY <1>0, <2>2, <3>0, <3>2 DEF Holds, Probe, Goto, Owns, Buffered, DropProbe, Reader, Lost
      <3> QED
        BY <3>1, <3>2
    <2>3. CASE Reopen(t)
      BY <1>0, <2>3 DEF Sound, Holds, Reopen, Goto, Owns, Reader, Lost
    <2>4. CASE Look(t)
      BY <1>0, <2>4 DEF Sound, Holds, Look, Goto, Lost
    <2>5. CASE Close(t)
      BY <1>0, <2>5 DEF Sound, Holds, Close, Goto, Owns, Lost
    <2> QED
      BY <2>1, <2>2, <2>3, <2>4, <2>5
  <1>7. at'[t] # "io" /\ at'[t] # "seek"
    BY <1>0 DEF Open, Probe, Starve, Reopen, Look, Close, Goto, Buffered
  <1>8. Aimed(t)'
    BY <1>1, <1>7 DEF Sound, Aimed, circumstances
  <1>9. pread => Backed(t)'
    <2>1. CASE Look(t)
      BY <1>0, <1>1, <2>1, BatchType DEF Sound, Backed, Look, Goto, circumstances, Batch, Typed
    <2>2. CASE Close(t)
      BY <1>0, <1>1, <2>2 DEF Sound, Backed, Close, Goto, circumstances, Batch
    <2>3. CASE Open(t) \/ Probe(t) \/ Reopen(t)
      <3>1. counts' = counts /\ at'[t] \notin {"op", "seek", "io"}
        BY <1>0, <2>3 DEF Open, Probe, Starve, Reopen, Goto, Buffered
      <3> QED
        BY <1>1, <3>1 DEF Sound, Backed
    <2> QED
      BY <2>1, <2>2, <2>3
  <1>10. Parted'
    BY <1>1, <1>2 DEF Parted
  <1> QED
    BY <1>1, <1>4, <1>5, <1>6, <1>8, <1>9, <1>10 DEF Sound, circumstances

(* The steps that begin an operation and aim it.                           *)
LEMMA AimSteps ==
    ASSUME IInv, NEW t \in Threads, Ask(t) \/ Seek(t)
    PROVE  IInv'
  <1> USE DEF IInv
  <1>0. /\ at \in [Threads -> Places] /\ via \in [Threads -> Descriptors] /\ pos \in [Descriptors -> Offsets]
        /\ kind \in [Threads -> {"read", "write"}] /\ want \in [Threads -> Offsets]
        /\ t \in Descriptors /\ Shared \in Descriptors /\ via[t] \in Descriptors
        /\ \A u \in Threads : u \in Descriptors /\ u # Shared
    BY QueueAssumption DEF Typed, Descriptors, Shared
  <1>1. /\ UNCHANGED <<circumstances, via, owned, starved, batch, local, moved, counts, main, waiting, timedOut>>
        /\ at[t] \in {"op", "seek"} /\ at'[t] \in {"seek", "io"}
    BY <1>0 DEF Ask, Seek, mainVars, circumstances, Goto
  <1>2. /\ at' \in [Threads -> Places]
        /\ \A u \in Threads \ {t} : at'[u] = at[u]
    BY <1>0 DEF Ask, Seek, Goto, Places
  <1>3. /\ kind' \in [Threads -> {"read", "write"}] /\ want' \in [Threads -> Offsets]
        /\ \A u \in Threads \ {t} : kind'[u] = kind[u] /\ want'[u] = want[u]
    BY <1>0 DEF Ask, Seek, Kinds
  <1>4. /\ pos' \in [Descriptors -> Offsets]
        /\ \A u \in Threads \ {t} : pos'[u] = pos[u]
    <2>1. CASE Ask(t)
      BY <1>0, <2>1 DEF Ask
    <2>2. CASE Seek(t)
      <3>1. Target(t) \in Descriptors /\ Target(t) \in {Shared, t}
        BY <1>0, <2>2 DEF Target, Sound, Holds, Seek
      <3> QED
        BY <1>0, <2>2, <3>1 DEF Seek
    <2> QED
      BY <2>1, <2>2
  <1>5. Typed'
    <2>1. strayed' \in BOOLEAN
      BY DEF Typed, Ask, Seek
    <2> QED
      BY <1>1, <1>2, <1>3, <1>4, <2>1 DEF Typed, circumstances, Offsets
  <1>6. \A u \in Threads \ {t} : Sound(u)'
    BY <1>1, <1>2, <1>3, <1>4 DEF Sound, Holds, Aimed, Backed, circumstances, Batch, Lost
  <1>7. Holds(t)'
    BY <1>1 DEF Sound, Holds, Lost
  <1>8. Aimed(t)'
    <2>1. ~job => kind'[t] = "read"
      BY <1>0 DEF Ask, Seek, Kinds, Sound, Aimed
    <2>2. ASSUME at'[t] = "io", ~pread, kind'[t] = "read", owned[t] # Lost(t) PROVE pos'[t] = want'[t]
      <3>1. Seek(t) /\ want' = want /\ kind' = kind /\ pos' = [pos EXCEPT ![Target(t)] = want[t]]
        BY <1>0, <2>2 DEF Ask, Seek, Goto
      <3>2. Target(t) = t
        BY <2>2, <3>1 DEF Target, Seek, Sound, Holds
      <3> QED
        BY <1>0, <3>1, <3>2
    <2> QED
      BY <1>1, <2>1, <2>2 DEF Aimed, circumstances, Lost
  <1>9. pread => Backed(t)'
    BY <1>1 DEF Sound, Backed, circumstances, Batch
  <1>10. Parted'
    <2>1. late' => timedOut
      <3>1. late' => late \/ (main = "done" /\ at[t] = "op")
        BY DEF Ask, Seek
      <3> QED
        BY <3>1 DEF Parted
    <2> QED
      BY <1>1, <1>2, <2>1 DEF Parted
  <1> QED
    BY <1>1, <1>5, <1>6, <1>7, <1>8, <1>9, <1>10 DEF Sound, circumstances

(* The steps that end an operation, well or not.                           *)
LEMMA EndSteps ==
    ASSUME IInv, NEW t \in Threads, Io(t) \/ Raise(t) \/ ReadsNothing(t)
    PROVE  IInv'
  <1> USE DEF IInv
  <1>0. /\ at \in [Threads -> Places] /\ via \in [Threads -> Descriptors] /\ pos \in [Descriptors -> Offsets]
        /\ kind \in [Threads -> {"read", "write"}] /\ want \in [Threads -> Offsets]
        /\ t \in Descriptors /\ Shared \in Descriptors /\ via[t] \in Descriptors
        /\ \A u \in Threads : u \in Descriptors /\ u # Shared
        /\ batch \in [Threads -> Int] /\ local \in [Threads -> Int] /\ moved \in [Threads -> Nat]
        /\ counts \in [Threads -> Int] /\ Batch \in Int
    BY QueueAssumption, BatchType DEF Typed, Descriptors, Shared
  <1>1. /\ UNCHANGED <<circumstances, via, owned, starved, late, main, waiting, timedOut>>
        /\ at[t] = "io" /\ at'[t] \in {"look", "op", "close"}
    BY <1>0 DEF Io, Raise, ReadsNothing, Proceed, fileVars, mainVars, circumstances, Goto
  <1>2. /\ at' \in [Threads -> Places]
        /\ \A u \in Threads \ {t} : at'[u] = at[u]
    BY <1>0 DEF Io, Raise, ReadsNothing, Proceed, Goto, Places
  <1>3. /\ kind' \in [Threads -> {"read", "write"}] /\ want' \in [Threads -> Offsets] /\ kind'[t] = "read"
        /\ \A u \in Threads \ {t} : kind'[u] = kind[u] /\ want'[u] = want[u]
    BY <1>0 DEF Io, Raise, ReadsNothing, Proceed, Forget, Offsets
  <1>4. /\ pos' \in [Descriptors -> Offsets]
        /\ \A u \in Threads \ {t} : pos'[u] = pos[u]
    <2>1. CASE Io(t)
      <3>1. Target(t) \in Descriptors /\ Target(t) \in {Shared, t}
        BY <1>0, <1>1 DEF Target, Sound, Holds
      <3> QED
        BY <1>0, <2>1, <3>1 DEF Io, Advance, Offsets
    <2>2. CASE Raise(t) \/ ReadsNothing(t)
      BY <1>0, <2>2 DEF Raise, ReadsNothing, fileVars
    <2> QED
      BY <2>1, <2>2
  <1>5. /\ batch' \in [Threads -> Int] /\ local' \in [Threads -> Int] /\ moved' \in [Threads -> Nat]
        /\ counts' \in [Threads -> Int]
        /\ \A u \in Threads \ {t} : /\ batch'[u] = batch[u] /\ local'[u] = local[u]
                                    /\ moved'[u] = moved[u] /\ counts'[u] = counts[u]
    BY <1>0 DEF Io, Raise, ReadsNothing, Proceed, Count, CountFailed
  <1>6. Typed'
    <2>1. CASE Io(t)
      <3>1. strayed' = (strayed \/ Reached(t) # want[t])
        BY <2>1 DEF Io
      <3>2. strayed' \in BOOLEAN
        BY <3>1
      <3> QED
        BY <1>1, <1>2, <1>3, <1>4, <1>5, <3>2 DEF Typed, circumstances, Offsets
    <2>2. CASE Raise(t) \/ ReadsNothing(t)
      <3>1. strayed' \in BOOLEAN
        BY <2>2 DEF Typed, Raise, ReadsNothing, fileVars
      <3> QED
        BY <1>1, <1>2, <1>3, <1>4, <1>5, <3>1 DEF Typed, circumstances, Offsets
    <2> QED
      BY <2>1, <2>2
  <1>7. \A u \in Threads \ {t} : Sound(u)'
    BY <1>1, <1>2, <1>3, <1>4, <1>5 DEF Sound, Holds, Aimed, Backed, circumstances, Batch, Lost
  <1>8. Holds(t)' /\ Aimed(t)'
    BY <1>1, <1>3 DEF Sound, Holds, Aimed, circumstances, Lost
  <1>9. ASSUME pread PROVE Backed(t)'
    <2>0. /\ counts[t] <= moved[t] /\ local[t] <= moved[t] /\ batch[t] \in 1 .. Batch
          /\ local[t] + (Batch - batch[t]) <= moved[t] /\ Batch' = Batch
      BY <1>1, <1>9 DEF Sound, Backed, circumstances, Batch
    <2>1. CASE Raise(t)
      BY <1>0, <2>0, <2>1 DEF Raise, CountFailed, Backed, Goto
    <2>2. CASE Io(t)
      <3>1. moved'[t] = moved[t] + 1 /\ batch'[t] = batch[t] - 1
        BY <1>0, <2>2 DEF Io, Proceed
      <3>2. at'[t] = IF batch[t] = 1 THEN "look" ELSE "op"
        BY <1>0, <2>2 DEF Io, Proceed, Goto
      <3>3. CASE job
        <4>1. counts'[t] = counts[t] + 1 /\ local' = local /\ Batch = 1
          BY <1>0, <2>2, <3>3 DEF Io, Proceed, Count, Batch
        <4> QED
          BY <1>0, <2>0, <3>1, <3>2, <4>1 DEF Backed
      <3>4. CASE ~job
        <4>1. counts' = counts /\ local'[t] = local[t] + IF batch[t] = 1 THEN Batch ELSE 0
          BY <1>0, <2>2, <3>4 DEF Io, Proceed, Count, AtItsEnd
        <4> QED
          BY <1>0, <2>0, <3>1, <3>2, <4>1 DEF Backed
      <3> QED
        BY <3>3, <3>4
    <2> QED
      BY <1>9, <2>1, <2>2 DEF ReadsNothing
  <1>10. Parted'
    BY <1>1, <1>2 DEF Parted
  <1> QED
    BY <1>1, <1>6, <1>7, <1>8, <1>9, <1>10 DEF Sound, circumstances

(* The invariant holds of every behaviour.                                 *)
LEMMA Invariant == Spec => []IInv
  <1>1. Init => IInv
    <2> SUFFICES ASSUME Init PROVE IInv
      OBVIOUS
    <2>1. Typed
      <3>1. /\ pread \in BOOLEAN /\ job \in BOOLEAN /\ strayed \in BOOLEAN
            /\ waiting \subseteq Threads /\ main \in {"wait", "join", "sync", "sum", "close", "done"}
            /\ starved \subseteq Threads
        BY DEF Init
      <3>2. at \in [Threads -> Places] /\ via \in [Threads -> Descriptors]
        BY DEF Init, Places, Descriptors
      <3>3. /\ owned \in [Threads -> Int] /\ batch \in [Threads -> Int] /\ local \in [Threads -> Int]
            /\ moved \in [Threads -> Nat] /\ counts \in [Threads -> Int]
        BY DEF Init
      <3>4. /\ kind \in [Threads -> {"read", "write"}] /\ want \in [Threads -> Offsets]
            /\ pos \in [Descriptors -> Offsets]
        BY DEF Init, Offsets
      <3> QED
        BY <3>1, <3>2, <3>3, <3>4 DEF Typed
    <2>2. \A t \in Threads : Sound(t)
      BY DEF Init, Sound, Holds, Aimed, Backed, Lost
    <2>3. Parted
      BY DEF Init, Parted
    <2> QED
      BY <2>1, <2>2, <2>3 DEF IInv
  <1>2. ASSUME IInv, Caller \/ Sync \/ UNCHANGED vars PROVE IInv'
    <2>1. UNCHANGED <<threadVars, fileVars>>
      BY <1>2 DEF Caller, Stop, Join, Joined, Sync, Sum, CloseShared, vars
    <2>2. Typed'
      BY <1>2, <2>1 DEF IInv, Typed, Offsets, Caller, Stop, Join, Joined, Sync, Sum, CloseShared, vars, threadVars, mainVars,
                        fileVars, circumstances
    <2>3. \A t \in Threads : Sound(t)'
      BY <1>2, <2>1 DEF IInv, Sound, Holds, Aimed, Backed, Batch, Lost, threadVars, fileVars, circumstances
    <2>4. Parted'
      BY <1>2, <2>1 DEF IInv, Parted, Caller, Stop, Join, Joined, Sync, Sum, CloseShared, vars, threadVars, mainVars, fileVars, Waited
    <2> QED
      BY <2>2, <2>3, <2>4 DEF IInv
  <1>3. IInv /\ [Next]_vars => IInv'
    BY <1>2, ReaderSteps, AimSteps, EndSteps DEF Next, Thread, Over
  <1> QED
    BY <1>1, <1>3, PTL DEF Spec

(* A thread that is over has no descriptor open, whatever failed while its *)
(* reader was opened, filled and probed, but the one for whose buffer      *)
(* there was no memory; and nothing is started on the shared descriptor    *)
(* after its close unless the caller gave up on a thread.                  *)
THEOREM DescriptorsAreClosed == Spec => []DescriptorsEndInOrder
  <1>1. IInv => DescriptorsEndInOrder
    BY DEF IInv, Parted, Sound, Holds, DescriptorsEndInOrder
  <1> QED
    BY <1>1, Invariant, PTL

(* No thread moves the descriptor another thread reads through: where      *)
(* there is no positional read, what goes elsewhere is a write of a job,   *)
(* or a read of a thread that could not open a descriptor of its own.      *)
THEOREM OwnDescriptorsAreTheirOwn == Spec => OwnDescriptorsLand
  <1> DEFINE Excused(t) == /\ at[t] = "io" /\ at'[t] # "io"
                           /\ (job /\ kind[t] = "write") \/ owned[t] = Lost(t)
  <1>1. ASSUME IInv, [Next]_vars, strayed' # strayed
        PROVE  ~pread /\ \E t \in Threads : Excused(t)
    <2>1. PICK t \in Threads : Io(t)
      BY <1>1 DEF Next, Thread, Caller, Over, Open, Probe, Reopen, Look, Ask, Seek, Raise, ReadsNothing, Close,
                  Stop, Join, Joined, Sync, Sum, CloseShared, vars, fileVars
    <2>2. at[t] = "io" /\ Reached(t) # want[t]
      <3>1. strayed \in BOOLEAN /\ strayed' = (strayed \/ Reached(t) # want[t]) /\ at[t] = "io"
        BY <1>1, <2>1 DEF Io, IInv, Typed
      <3>2. Reached(t) # want[t]
        BY <1>1, <3>1
      <3> QED
        BY <3>1, <3>2
    <2>3. ~pread
      BY <2>2 DEF Reached
    <2>4. at'[t] # "io"
      <3>1. at \in [Threads -> Places]
        BY <1>1 DEF IInv, Typed
      <3> QED
        BY <2>1, <3>1 DEF Io, Proceed, Goto
    <2>5. ASSUME ~(job /\ kind[t] = "write"), owned[t] # Lost(t) PROVE FALSE
      <3>1. kind[t] = "read"
        BY <1>1, <2>5 DEF IInv, Typed, Sound, Aimed
      <3>2. via[t] = t /\ pos[t] = want[t]
        BY <1>1, <2>2, <2>3, <2>5, <3>1 DEF IInv, Sound, Holds, Aimed
      <3> QED
        BY <2>2, <2>3, <3>1, <3>2 DEF Reached, Target
    <2> QED
      BY <2>2, <2>3, <2>4, <2>5
  <1>2. IInv /\ [Next]_vars => [strayed' # strayed => ~pread /\ \E t \in Threads : Excused(t)]_vars
    BY <1>1
  <1> QED
    BY <1>2, Invariant, PTL DEF Spec, OwnDescriptorsLand

\* What the caller computes the rate from took place; before it is summed up
\* there is nothing, and nothing it stays where the fsync failed.
Founded ==
    /\ main \notin {"close", "done"} => total = 0
    /\ pread /\ main \in {"close", "done"} => total \in Int /\ total <= Total(moved, Threads)

(* What moved data never becomes less.                                     *)
LEMMA MovedGrows ==
    ASSUME IInv, [Next]_vars
    PROVE  \A t \in Threads : moved[t] \in Int /\ moved'[t] \in Int /\ moved[t] <= moved'[t]
  <1>1. moved \in [Threads -> Nat]
    BY DEF IInv, Typed
  <1>2. CASE \E t \in Threads : Io(t)
    <2>1. PICK t \in Threads : Io(t)
      BY <1>2
    <2>2. moved' = [moved EXCEPT ![t] = @ + 1]
      BY <2>1 DEF Io
    <2> QED
      BY <1>1, <2>2
  <1>3. CASE ~ \E t \in Threads : Io(t)
    <2>1. moved' = moved
      <3>1. CASE Caller \/ Sync \/ Over \/ UNCHANGED vars
        BY <3>1 DEF Caller, Over, Stop, Join, Joined, Sync, Sum, CloseShared, vars, threadVars
      <3>2. ASSUME NEW t \in Threads, Open(t) \/ Probe(t) \/ Reopen(t) \/ Look(t) \/ Ask(t) PROVE moved' = moved
        BY <3>2 DEF Open, Probe, Reopen, Look, Ask
      <3>3. ASSUME NEW t \in Threads, Seek(t) \/ Raise(t) \/ ReadsNothing(t) \/ Close(t) PROVE moved' = moved
        BY <3>3 DEF Seek, Raise, ReadsNothing, Close
      <3> QED
        BY <1>3, <3>1, <3>2, <3>3 DEF Next, Thread
    <2> QED
      BY <1>1, <2>1
  <1> QED
    BY <1>2, <1>3

(* The sum of what was published, and later what moves data meanwhile.     *)
LEMMA FoundedStep ==
    ASSUME IInv, Founded, [Next]_vars
    PROVE  Founded'
  <1>0. /\ IsFiniteSet(Threads) /\ counts \in [Threads -> Int] /\ moved \in [Threads -> Nat]
    BY QueueAssumption DEF IInv, Typed
  <1>1. \A t \in Threads : moved[t] \in Int /\ moved'[t] \in Int /\ moved[t] <= moved'[t]
    BY MovedGrows
  <1>2. Total(moved, Threads) <= Total(moved', Threads)
    BY <1>0, <1>1, TotalIsMonotone
  <1>3. Total(moved, Threads) \in Nat /\ Total(moved', Threads) \in Int
    BY <1>0, <1>1, TotalType
  <1>4. pread' = pread
    <2>1. ASSUME NEW t \in Threads, Thread(t) PROVE pread' = pread
      BY <2>1 DEF Thread, Open, Probe, Reopen, Look, Ask, Seek, Io, Raise, ReadsNothing, Close, mainVars, circumstances
    <2>2. CASE Caller \/ Sync \/ Over \/ UNCHANGED vars
      BY <2>2 DEF Caller, Over, Stop, Join, Joined, Sync, Sum, CloseShared, vars, threadVars, circumstances
    <2> QED
      BY <2>1, <2>2 DEF Next
  <1>5. CASE Sum
    <2>1. total' = Total(counts, Threads) /\ moved' = moved /\ main' = "close"
      BY <1>5 DEF Sum, Total, threadVars
    <2>2. pread => \A t \in Threads : counts[t] \in Int /\ moved[t] \in Int /\ counts[t] <= moved[t]
      BY <1>0 DEF IInv, Sound, Backed
    <2>3. pread => Total(counts, Threads) <= Total(moved, Threads)
      BY <1>0, <2>2, TotalIsMonotone
    <2>4. Total(counts, Threads) \in Int
      BY <1>0, TotalType
    <2> QED
      BY <1>4, <2>1, <2>3, <2>4 DEF Founded
  <1>6. CASE Sync
    <2>1. main = "sync" /\ main' \in {"sum", "close"} /\ total' = total /\ moved' = moved
      BY <1>6 DEF Sync, threadVars
    <2>2. total' = 0 /\ Total(moved', Threads) \in Nat
      BY <1>3, <2>1 DEF Founded
    <2> QED
      BY <2>1, <2>2 DEF Founded
  <1>7. CASE ~Sum /\ ~Sync
    <2>1. total' = total /\ (main' \in {"close", "done"} <=> main \in {"close", "done"})
      <3>1. ASSUME NEW t \in Threads, Thread(t) PROVE total' = total /\ main' = main
        BY <3>1 DEF Thread, Open, Probe, Reopen, Look, Ask, Seek, Io, Raise, ReadsNothing, Close, mainVars
      <3>2. CASE Stop \/ Join \/ Joined \/ CloseShared \/ Over \/ UNCHANGED vars
        BY <3>2 DEF Over, Stop, Join, Joined, CloseShared, vars, mainVars
      <3> QED
        BY <1>7, <3>1, <3>2 DEF Next, Caller
    <2> QED
      BY <1>2, <1>3, <1>4, <2>1 DEF Founded
  <1> QED
    BY <1>5, <1>6, <1>7

(* The rate is computed from operations that took place, whichever threads *)
(* failed in mid-batch or were given up on, for any number of threads and  *)
(* any batch; on platforms where a read that fails raises.                 *)
THEOREM RateIsNotOverstated == Spec => []NeverOverstated
  <1>1. Init => Founded
    BY DEF Init, Founded
  <1>2. IInv /\ Founded /\ [Next]_vars => Founded'
    BY FoundedStep
  <1>3. Founded => NeverOverstated
    BY DEF Founded, NeverOverstated, Total
  <1> QED
    BY <1>1, <1>2, <1>3, Invariant, PTL DEF Spec
=============================================================================
