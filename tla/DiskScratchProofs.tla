-------------------------- MODULE DiskScratchProofs --------------------------
(***************************************************************************)
(* Theorems about Limits and DiskScratch, for any set of runs, any process *)
(* ids, any number of repeats, any limits and any space on the filesystem. *)
(***************************************************************************)
EXTENDS DiskScratch, Sums

-----------------------------------------------------------------------------
(* The caps, for every request and every machine.                          *)

(* The memory test never holds more than a quarter of the memory (with     *)
(* MEM_PARTS = 8), on any machine whose share is not under the 8 MB floor. *)
THEOREM MemoryShare ==
    ASSUME NEW requested \in Nat, NEW ram \in Nat, ram >= MEM_PARTS * MEM_MIN_MB
    PROVE  MEM_PARTS * safe_mem_mb(requested, ram) <= ram
<1> DEFINE q == ram \div MEM_PARTS
<1>1. MEM_PARTS \in Nat \ {0} /\ MEM_MIN_MB \in Nat \ {0} BY LimitsAssumption
<1>2. q \in Nat /\ MEM_PARTS * q <= ram BY <1>1, Z3
<1>3. MEM_MIN_MB <= q BY <1>1, Z3
<1>4. ram > 0 BY <1>1, Z3
<1>5. MemCap(ram) = q BY <1>1, <1>2, <1>3, <1>4 DEF MemCap, AtLeast
<1> HIDE DEF q
<1>6. safe_mem_mb(requested, ram) \in Nat /\ safe_mem_mb(requested, ram) <= q
  BY <1>1, <1>2, <1>3, <1>5 DEF safe_mem_mb, AtMost, AtLeast
<1>7. \A x \in Nat : x <= q => MEM_PARTS * x <= MEM_PARTS * q BY <1>1, <1>2, Z3
<1> QED BY <1>1, <1>2, <1>6, <1>7, Z3


(* The smaller and the larger of two numbers are numbers and bound both.   *)
LEMMA MinMax ==
    ASSUME NEW a \in Nat, NEW b \in Nat
    PROVE  /\ AtLeast(a, b) \in Nat /\ AtLeast(a, b) >= a /\ AtLeast(a, b) >= b
           /\ AtMost(a, b) \in Nat /\ AtMost(a, b) <= a /\ AtMost(a, b) <= b
           /\ AtLeast(a, b) \in {a, b} /\ AtMost(a, b) \in {a, b}
BY DEF AtLeast, AtMost

(* A quotient is a number, and times its divisor not above the dividend.   *)
LEMMA DivFacts ==
    ASSUME NEW n \in Nat, NEW d \in Nat \ {0}
    PROVE  n \div d \in Nat /\ d * (n \div d) <= n /\ n < d * (n \div d) + d
BY Z3

(* Products keep the order.                                                *)
LEMMA Monotone ==
    ASSUME NEW a \in Nat, NEW b \in Nat, NEW c \in Nat, a <= b
    PROVE  c * a <= c * b
BY Z3

(* A number that fits the dividend so many times is within the quotient.   *)
LEMMA DivMonotone ==
    ASSUME NEW n \in Nat, NEW d \in Nat \ {0}, NEW k \in Nat, d * k <= n
    PROVE  k <= n \div d
BY Z3

\* What the clamp of the disk test returns, conjunct by conjunct.
LEMMA DiskClamp ==
    ASSUME NEW requested \in Nat, NEW free \in Nat, NEW times \in Nat \ {0}
    PROVE  LET mb == safe_disk_mb(requested, free, times)
           IN  /\ mb \in Nat
               /\ mb >= DISK_MIN_MB
               /\ mb <= PerRunCap(times)
               /\ free > 0 => mb <= AtLeast(DISK_MIN_MB, (2 * free) \div 3)
<1> DEFINE wanted == AtLeast(DISK_MIN_MB, requested)
           capped == AtMost(PerRunCap(times), wanted)
           fitting == SpaceCap(free, capped)
           allowed == AtLeast(DISK_MIN_MB, fitting)
<1>1. DISK_MIN_MB \in Nat /\ DISK_MAX_TOTAL_WRITE_MB \in Nat BY LimitsAssumption
<1>2. PerRunCap(times) \in Nat /\ PerRunCap(times) >= DISK_MIN_MB
  <2>1. AtLeast(1, times) \in Nat \ {0} BY DEF AtLeast
  <2>2. DISK_MAX_TOTAL_WRITE_MB \div AtLeast(1, times) \in Nat BY <1>1, <2>1, DivFacts
  <2> QED BY <1>1, <2>2, MinMax DEF PerRunCap
<1>3. wanted \in Nat /\ wanted >= DISK_MIN_MB BY <1>1, MinMax
<1> HIDE DEF wanted
<1>4. capped \in Nat /\ capped <= PerRunCap(times) /\ capped >= DISK_MIN_MB
  BY <1>2, <1>3, <1>1 DEF AtMost
<1> HIDE DEF capped
<1>5. (2 * free) \div 3 \in Nat BY Z3
<1>6. /\ fitting \in Nat /\ fitting <= capped
      /\ free > 0 => fitting <= (2 * free) \div 3
  BY <1>4, <1>5, <1>2 DEF SpaceCap, AtMost
<1> HIDE DEF fitting
<1>7. /\ allowed \in Nat /\ allowed >= DISK_MIN_MB /\ allowed <= PerRunCap(times)
      /\ free > 0 => allowed <= AtLeast(DISK_MIN_MB, (2 * free) \div 3)
  BY <1>1, <1>2, <1>4, <1>5, <1>6 DEF AtLeast
<1> HIDE DEF allowed
<1>8. safe_disk_mb(requested, free, times) = AtMost(wanted, allowed)
  BY DEF safe_disk_mb, allowed, fitting, capped, wanted
<1>9. AtLeast(DISK_MIN_MB, (2 * free) \div 3) \in Nat BY <1>1, <1>5, MinMax
<1> QED BY <1>1, <1>2, <1>3, <1>7, <1>8, <1>9 DEF AtMost

(* Rounding down to whole blocks loses less than a block.                  *)
LEMMA WholeBlocks ==
    ASSUME NEW mb \in Nat, mb >= DISK_MIN_MB
    PROVE  FileTotal(mb) \in Nat /\ FileTotal(mb) <= mb /\ FileTotal(mb) >= DISK_BLOCK_MB
<1> DEFINE q == mb \div DISK_BLOCK_MB
<1>1. DISK_BLOCK_MB \in Nat \ {0} /\ DISK_BLOCK_MB <= mb BY LimitsAssumption
<1>2. q \in Nat /\ DISK_BLOCK_MB * q <= mb BY <1>1, DivFacts
<1>3. 1 <= q BY <1>1, DivMonotone
<1> HIDE DEF q
<1>4. AtLeast(1, q) = q BY <1>2, <1>3 DEF AtLeast
<1>5. FileTotal(mb) = q * DISK_BLOCK_MB BY <1>4 DEF FileTotal, q
<1> QED BY <1>1, <1>2, <1>3, <1>5, Z3

(* Flash wear: all the times of the disk test together write no more     *)
(* than the cap, for every request, every amount of free space and every   *)
(* number of times for which the smallest file still fits under it.      *)
THEOREM WearIsCapped ==
    ASSUME NEW requested \in Nat, NEW free \in Nat, NEW times \in Nat \ {0},
           times * DISK_MIN_MB <= DISK_MAX_TOTAL_WRITE_MB
    PROVE  times * FileTotal(safe_disk_mb(requested, free, times)) <= DISK_MAX_TOTAL_WRITE_MB
<1> DEFINE mb == safe_disk_mb(requested, free, times)
           share == DISK_MAX_TOTAL_WRITE_MB \div times
<1>1. DISK_MIN_MB \in Nat /\ DISK_MAX_TOTAL_WRITE_MB \in Nat BY LimitsAssumption
<1>2. mb \in Nat /\ mb >= DISK_MIN_MB /\ mb <= PerRunCap(times) BY DiskClamp
<1>3. share \in Nat /\ times * share <= DISK_MAX_TOTAL_WRITE_MB BY <1>1, DivFacts
<1>4. DISK_MIN_MB <= share BY <1>1, DivMonotone
<1>5. PerRunCap(times) = share
  <2>1. AtLeast(1, times) = times BY DEF AtLeast
  <2> HIDE DEF share
  <2>2. AtLeast(DISK_MIN_MB, share) = share BY <1>1, <1>3, <1>4 DEF AtLeast
  <2> QED BY <2>1, <2>2 DEF PerRunCap, share
<1> HIDE DEF mb, share
<1>6. FileTotal(mb) \in Nat /\ FileTotal(mb) <= mb BY <1>2, WholeBlocks
<1>7. FileTotal(mb) <= share BY <1>2, <1>3, <1>5, <1>6
<1>8. times * FileTotal(mb) <= times * share BY <1>3, <1>6, <1>7, Monotone
<1>9. times * FileTotal(mb) \in Nat /\ times * share \in Nat BY <1>3, <1>6, Z3
<1>10. times * FileTotal(mb) <= DISK_MAX_TOTAL_WRITE_MB BY <1>1, <1>3, <1>8, <1>9
<1> QED BY <1>10 DEF mb

(* The volume the result discloses is never less than what was written.    *)
THEOREM DisclosureCovers ==
    ASSUME NEW mb \in Nat, NEW times \in Nat \ {0}, mb >= DISK_MIN_MB
    PROVE  times * FileTotal(mb) <= total_write_mb(mb, times)
<1>1. FileTotal(mb) \in Nat /\ FileTotal(mb) <= mb BY WholeBlocks
<1>2. AtLeast(1, mb) = mb /\ AtLeast(1, times) = times
  BY LimitsAssumption DEF AtLeast
<1>3. total_write_mb(mb, times) = times * mb BY <1>2, Z3 DEF total_write_mb
<1> QED BY <1>1, <1>3, Monotone

(* The disk test is skipped only when its smallest file does not fit: any  *)
(* request is cut down to a file that leaves the headroom.                 *)
THEOREM ClampedFileFits ==
    ASSUME NEW requested \in Nat, NEW free \in Nat, NEW times \in Nat \ {0},
           3 * DISK_MIN_MB <= 2 * free
    PROVE  Fits(FileTotal(safe_disk_mb(requested, free, times)), free)
<1> DEFINE mb == safe_disk_mb(requested, free, times)
           cap == (2 * free) \div 3
<1>1. DISK_MIN_MB \in Nat \ {0} BY LimitsAssumption
<1>2. free > 0 BY <1>1
<1>3. mb \in Nat /\ mb >= DISK_MIN_MB /\ mb <= AtLeast(DISK_MIN_MB, cap) BY <1>2, DiskClamp
<1>4. cap \in Nat /\ DISK_MIN_MB <= cap /\ 3 * cap <= 2 * free BY <1>1, Z3
<1> HIDE DEF mb, cap
<1>5. AtLeast(DISK_MIN_MB, cap) = cap BY <1>1, <1>4 DEF AtLeast
<1>6. FileTotal(mb) \in Nat /\ FileTotal(mb) <= mb BY <1>3, WholeBlocks
<1>7. 3 * FileTotal(mb) <= 2 * free BY <1>3, <1>4, <1>5, <1>6
<1> QED BY <1>7 DEF Fits, mb

-----------------------------------------------------------------------------

Places == {"idle", "stat", "glob", "clean", "create", "write", "read", "close",
           "rmdir", "job", "fill", "run", "jobclose", "ended", "killed"}
Busy == {"write", "read", "close"}
JobBusy == {"fill", "run", "jobclose"}
Most == Max(RepeatCounts)

\* The files that take space.
Taking == entries \cup UNION {held[r] : r \in Runs}

Typed ==
    /\ workdir \in BOOLEAN /\ repeats \in [Runs -> RepeatCounts] /\ pid \in [Runs -> Pids]
    /\ pc \in [Runs -> Places]
    /\ plan \in [Runs -> Nat] /\ left \in [Runs -> Int] /\ rep \in [Runs -> 0 .. Most]
    /\ todo \in [Runs -> SUBSET Temps]
    /\ held \in [Runs -> SUBSET Files]
    /\ result \in [Runs -> {"none", "ok", "skipped", "interrupted"}]
    /\ wear \in [Runs -> Nat] /\ jobWear \in [Runs -> Nat]
    /\ entries \subseteq Files /\ old \subseteq Temps
    /\ size \in [Files -> Nat]
    /\ dir \in BOOLEAN /\ room \in Nat

\* What a run has open follows from where it is.
Holds(r) ==
    /\ pc[r] \in Busy => held[r] = {Temp(r, rep[r])} /\ rep[r] >= 1
    /\ pc[r] \in JobBusy => held[r] = {JobFile(r)} /\ JobFile(r) \in entries
    /\ pc[r] \notin Busy \cup JobBusy => held[r] = {}
    /\ pc[r] = "idle" => rep[r] = 0 /\ wear[r] = 0
    /\ pc[r] \in {"idle", "stat", "glob", "clean"} => rep[r] = 0 /\ wear[r] = 0 /\ result[r] = "none"
    /\ pc[r] = "create" => rep[r] < repeats[r]
    /\ rep[r] <= repeats[r]
    /\ workdir => pc[r] \notin JobBusy \cup {"job"}
    /\ todo[r] \subseteq old

\* The processes that live have ids of their own.
Distinct == \A q, r \in Runs : q # r /\ Live(q) /\ Live(r) => pid[q] # pid[r]

\* Every file is held by a run, or was left behind by one that was killed.
OfRun(f, r) == f = JobFile(r) \/ \E i \in 1 .. Most : f = Temp(r, i)
Owned == \A f \in entries : \E r \in Runs : f \in held[r] \/ (pc[r] = "killed" /\ OfRun(f, r))

DirUsed == workdir /\ dir => \E r \in Runs : Live(r) \/ pc[r] = "killed"

OwnInv == (\A r \in Runs : Holds(r)) /\ Distinct /\ Owned /\ DirUsed

-----------------------------------------------------------------------------
\* A name that is still to come has never been written to.
Unwritten == \A r \in Runs : \A i \in 1 .. Most : i > rep[r] => size[Temp(r, i)] = 0

\* A job's file is as long as what was written to it.
Filling(r) ==
    pc[r] = "fill" => left[r] \in 0 .. plan[r] /\ (left[r] = 0 \/ plan[r] - left[r] <= size[JobFile(r)])

SpaceInv == Unwritten /\ (\A r \in Runs : Filling(r)) /\ Free >= 0

-----------------------------------------------------------------------------
Alone(r) == \A q \in Runs \ {r} : pc[q] = "idle"

Blocks(n) == \E k \in Nat : n = k * DISK_BLOCK_MB

\* What a run alone has written, step by step.
Written(r) ==
    /\ pc[r] # "killed" => entries = held[r]
    /\ pc[r] \in {"glob", "clean", "create", "write", "read", "close"} => 3 * plan[r] <= 2 * room /\ Blocks(plan[r])
    /\ pc[r] = "create" => wear[r] = rep[r] * plan[r]
    /\ pc[r] \in {"create", "write", "read"} => result[r] = "none"
    /\ pc[r] = "write" =>
          /\ left[r] \in 0 .. plan[r] /\ Blocks(left[r])
          /\ size[Temp(r, rep[r])] = plan[r] - left[r]
          /\ wear[r] = rep[r] * plan[r] - left[r]
    /\ pc[r] \in {"read", "close"} => size[Temp(r, rep[r])] <= plan[r]
    /\ pc[r] = "close" => result[r] # "ok"
    /\ pc[r] \in {"read", "close"} /\ result[r] = "none" => wear[r] = rep[r] * plan[r]
    /\ pc[r] \in {"rmdir", "job"} /\ result[r] = "ok" => wear[r] = repeats[r] * plan[r]

AloneInv == \A r \in Runs : Alone(r) => Written(r)

Inv == Typed /\ OwnInv /\ SpaceInv

Step(r) == Start(r) \/ BenchDisk(r) \/ Rmdir(r) \/ RunJob(r) \/ KeyboardInterrupt(r) \/ Kill(r)

-----------------------------------------------------------------------------
(* No run repeats its test more often than a run may.                      *)
LEMMA MostFacts ==
    /\ Most \in Nat \ {0}
    /\ \A n \in RepeatCounts : n \in 1 .. Most
  <1>1. Most \in RepeatCounts /\ \A n \in RepeatCounts : n <= Most
    BY DiskAssumption, Greatest DEF Most
  <1> QED
    BY <1>1, DiskAssumption

(* Names tell runs and repeats apart, and temporary files from job files.  *)
LEMMA NameFacts ==
    /\ \A r \in Runs, i \in 1 .. Most : Temp(r, i) \in Temps
    /\ \A q, r, i, j : Temp(q, i) = Temp(r, j) => q = r /\ i = j
    /\ \A q, r, i : JobFile(r) # Temp(q, i)
    /\ \A r : JobFile(r) \notin Temps
    /\ \A q, r : JobFile(q) = JobFile(r) <=> pid[q] = pid[r]
    /\ Temps \subseteq Files
    /\ Typed => \A r \in Runs : JobFile(r) \in Files
  BY DEF Temp, Temps, JobFile, Files, Most, Typed

(* There are finitely many names.                                          *)
LEMMA FilesAreFinite == IsFiniteSet(Files)
  <1>1. IsFiniteSet(Temps)
    <2> DEFINE P == Runs \X (1 .. Most)
               name == [p \in P |-> Temp(p[1], p[2])]
    <2>1. IsFiniteSet(P)
      <3>1. IsFiniteSet(1 .. Most)
        BY MostFacts, FS_Interval
      <3>2. IsFiniteSet(Runs)
        BY DiskAssumption
      <3> QED
        BY <3>1, <3>2, FS_Product
    <2>2. name \in [P -> Temps]
      BY DEF Temps, Most
    <2>3. ASSUME NEW f \in Temps PROVE \E p \in P : name[p] = f
      <3>1. PICK r \in Runs, i \in 1 .. Most : f = Temp(r, i)
        BY <2>3 DEF Temps, Most
      <3>2. <<r, i>> \in P /\ name[<<r, i>>] = f
        BY <3>1
      <3> QED
        BY <3>2
    <2>4. name \in Surjection(P, Temps)
      BY <2>2, <2>3 DEF Surjection
    <2> QED
      BY <2>1, <2>4, FS_Surjection
  <1> DEFINE J == {<<".pcbench_io", p>> : p \in Pids \cup {0}}
  <1>2. IsFiniteSet(J)
    <2> DEFINE name == [p \in Pids \cup {0} |-> <<".pcbench_io", p>>]
    <2>1. IsFiniteSet(Pids \cup {0})
      BY DiskAssumption, FS_AddElement
    <2>2. name \in Surjection(Pids \cup {0}, J)
      BY DEF Surjection
    <2> QED
      BY <2>1, <2>2, FS_Surjection
  <1>3. Files = Temps \cup J
    BY DEF Files
  <1> QED
    BY <1>1, <1>2, <1>3, FS_Union

(* The space that is taken, and what is left.                              *)
LEMMA SpaceFacts ==
    ASSUME Typed
    PROVE  /\ Taking \subseteq Files /\ IsFiniteSet(Taking)
           /\ Used = Total(size, Taking) /\ Used \in Nat
           /\ Free = room - Used /\ Free \in Int
  <1>1. Taking \subseteq Files
    BY DEF Taking, Typed
  <1>2. IsFiniteSet(Taking)
    BY <1>1, FilesAreFinite, FS_Subset
  <1>3. Used = Total(size, Taking)
    BY DEF Used, Total, Taking
  <1>4. \A f \in Taking : size[f] \in Nat
    BY <1>1 DEF Typed
  <1>5. Used \in Nat
    BY <1>2, <1>3, <1>4, TotalType
  <1>6. Free = room - Used /\ room \in Nat
    BY DEF Free, Typed
  <1> QED
    BY <1>1, <1>2, <1>3, <1>5, <1>6

(* The sizes that are chosen for what is free.                             *)
LEMMA SizeFacts ==
    ASSUME Typed, Free >= 0, NEW r \in Runs
    PROVE  /\ FileTotal(safe_disk_mb(Requested, Free, repeats[r])) \in Nat
           /\ Blocks(FileTotal(safe_disk_mb(Requested, Free, repeats[r])))
           /\ JobSize \in Nat
  <1>1. Free \in Nat /\ Requested \in Nat /\ repeats[r] \in Nat \ {0} /\ DISK_BLOCK_MB \in Nat \ {0}
    <2>1. Free \in Nat
      BY SpaceFacts
    <2>2. repeats[r] \in RepeatCounts
      BY DEF Typed
    <2> QED
      BY <2>1, <2>2, DiskAssumption, LimitsAssumption
  <1>2. /\ safe_disk_mb(Requested, Free, repeats[r]) \in Nat
        /\ safe_disk_mb(Requested, Free, repeats[r]) >= DISK_MIN_MB
        /\ safe_disk_mb(Requested, Free, 1) \in Nat
    <2>1. /\ safe_disk_mb(Requested, Free, repeats[r]) \in Nat
          /\ safe_disk_mb(Requested, Free, repeats[r]) >= DISK_MIN_MB
      BY <1>1, DiskClamp
    <2>2. safe_disk_mb(Requested, Free, 1) \in Nat
      BY <1>1, DiskClamp
    <2> QED
      BY <2>1, <2>2
  <1>3. FileTotal(safe_disk_mb(Requested, Free, repeats[r])) \in Nat
    BY <1>2, WholeBlocks
  <1>4. Blocks(FileTotal(safe_disk_mb(Requested, Free, repeats[r])))
    <2> DEFINE q == AtLeast(1, safe_disk_mb(Requested, Free, repeats[r]) \div DISK_BLOCK_MB)
    <2>1. q \in Nat
      <3>1. safe_disk_mb(Requested, Free, repeats[r]) \div DISK_BLOCK_MB \in Nat
        BY <1>1, <1>2, DivFacts
      <3> QED
        BY <3>1, MinMax
    <2>2. FileTotal(safe_disk_mb(Requested, Free, repeats[r])) = q * DISK_BLOCK_MB
      BY DEF FileTotal
    <2> QED
      BY <2>1, <2>2 DEF Blocks
  <1>5. JobSize \in Nat
    BY <1>1, <1>2, MinMax DEF JobSize
  <1> QED
    BY <1>3, <1>4, <1>5

(* What a write moves.                                                     *)
LEMMA MovedFacts ==
    ASSUME Typed, Free >= 0
    PROVE  Moved \in Nat /\ Moved <= Free /\ (Free >= DISK_BLOCK_MB => Moved = DISK_BLOCK_MB)
  <1>1. Free \in Nat /\ DISK_BLOCK_MB \in Nat \ {0}
    BY SpaceFacts, LimitsAssumption
  <1> QED
    BY <1>1 DEF Moved, AtMost

-----------------------------------------------------------------------------
\* What a step of r leaves alone.
Apart(r) ==
    /\ UNCHANGED <<repeats, workdir, room, old>>
    /\ \A q \in Runs \ {r} :
          /\ pc'[q] = pc[q] /\ pid'[q] = pid[q] /\ held'[q] = held[q] /\ todo'[q] = todo[q]
          /\ plan'[q] = plan[q] /\ left'[q] = left[q] /\ rep'[q] = rep[q]
          /\ result'[q] = result[q] /\ wear'[q] = wear[q]

(* A step of one run keeps the types and leaves the other runs alone.      *)
LEMMA Frame ==
    ASSUME Inv, NEW r \in Runs, Step(r)
    PROVE  Typed' /\ Apart(r)
  <1>0. /\ Typed /\ Free >= 0 /\ Holds(r) /\ r \in Runs
        /\ \A i \in 1 .. Most : Temp(r, i) \in Files
        /\ JobFile(r) \in Files
        /\ repeats[r] \in 1 .. Most
    BY MostFacts, NameFacts DEF Inv, OwnInv, SpaceInv, Typed
  <1>1. CASE Start(r)
    BY <1>0, <1>1 DEF Typed, Apart, Start, Goto, Places
  <1>2. CASE Stat(r)
    <2>1. FileTotal(safe_disk_mb(Requested, Free, repeats[r])) \in Nat
      BY <1>0, SizeFacts
    <2> QED
      BY <1>0, <1>2, <2>1 DEF Typed, Apart, Stat, Goto, Return, AfterTest, Places, fileVars
  <1>3. CASE Glob(r)
    BY <1>0, <1>3 DEF Typed, Apart, Glob, Stale, Goto, Places, fileVars
  <1>4. CASE Clean(r)
    BY <1>0, <1>4 DEF Typed, Apart, Clean, Goto, Places
  <1>5. CASE Create(r)
    <2>1. rep[r] + 1 \in 1 .. Most
      <3>1. rep[r] \in 0 .. Most /\ rep[r] < repeats[r] /\ Most \in Nat
        BY <1>0, <1>5, MostFacts DEF Create, Holds, Typed
      <3> QED
        BY <1>0, <3>1
    <2>2. Temp(r, rep[r] + 1) \in Files
      BY <1>0, <2>1
    <2>3. CASE dir
      BY <1>0, <1>5, <2>1, <2>2, <2>3 DEF Typed, Apart, Create, Goto, Places
    <2>4. CASE ~dir
      BY <1>0, <1>5, <2>4 DEF Typed, Apart, Create, Goto, Return, AfterTest, Places
    <2> QED
      BY <2>3, <2>4
  <1>6. CASE Write(r)
    <2>1. Moved \in Nat /\ DISK_BLOCK_MB \in Nat
      BY <1>0, MovedFacts, LimitsAssumption
    <2> QED
      BY <1>0, <1>6, <2>1 DEF Typed, Apart, Write
  <1>7. CASE Fsync(r) \/ Read(r) \/ JobStop(r)
    BY <1>0, <1>7 DEF Typed, Apart, Fsync, Read, JobStop, Goto, Places, runVars, fileVars
  <1>8. CASE Fail(r) \/ KeyboardInterrupt(r)
    BY <1>0, <1>8 DEF Typed, Apart, Fail, KeyboardInterrupt, Goto, Return, Places, fileVars
  <1>9. CASE Close(r)
    BY <1>0, <1>9 DEF Typed, Apart, Close, Dropped, Goto, Return, AfterTest, Places
  <1>10. CASE Rmdir(r)
    <2>1. dir' \in BOOLEAN
      BY <1>10 DEF Rmdir
    <2> QED
      BY <1>0, <1>10, <2>1 DEF Typed, Apart, Rmdir, Goto, Places, runVars
  <1>11. CASE JobOpen(r)
    <2>1. CASE JobSize < JobLeast
      BY <1>0, <1>11, <2>1 DEF Typed, Apart, JobOpen, Goto, Places
    <2>2. CASE ~ (JobSize < JobLeast)
      <3>1. JobSize \in Nat
        BY <1>0, SizeFacts
      <3>2. PICK present \in Nat : size' = [size EXCEPT ![JobFile(r)] = present]
        BY <1>0, <1>11, <2>2 DEF JobOpen, Typed
      <3>3. plan' = [plan EXCEPT ![r] = JobSize] /\ left' = [left EXCEPT ![r] = left'[r]] /\ left'[r] \in {JobSize, 0}
        BY <1>0, <1>11, <2>2 DEF JobOpen, Typed
      <3>4. /\ entries' = entries \cup {JobFile(r)} /\ held' = [held EXCEPT ![r] = {JobFile(r)}]
            /\ pc' = [pc EXCEPT ![r] = "fill"]
            /\ UNCHANGED <<pid, rep, todo, result, wear, jobWear, old, dir, room, workdir, repeats>>
        BY <1>11, <2>2 DEF JobOpen, Goto
      <3> QED
        BY <1>0, <3>1, <3>2, <3>3, <3>4 DEF Typed, Apart, Places
    <2> QED
      BY <2>1, <2>2
  <1>12. CASE JobFill(r)
    <2>1. CASE left[r] = 0
      BY <1>0, <1>12, <2>1 DEF Typed, Apart, JobFill, Goto, Places
    <2>2. CASE left[r] # 0
      <3>1. plan[r] - left[r] + 1 \in Int /\ size[JobFile(r)] \in Nat
        BY <1>0 DEF Typed
      <3>2. AtLeast(plan[r] - left[r] + 1, size[JobFile(r)]) \in Nat
        BY <3>1 DEF AtLeast
      <3>3. /\ size' = [size EXCEPT ![JobFile(r)] = AtLeast(plan[r] - left[r] + 1, @)]
            /\ left' = [left EXCEPT ![r] = @ - 1] /\ jobWear' = [jobWear EXCEPT ![r] = @ + 1]
            /\ UNCHANGED <<pc, pid, plan, rep, todo, held, result, wear, entries, old, dir, room, workdir, repeats>>
        BY <1>12, <2>2 DEF JobFill
      <3> QED
        BY <1>0, <3>2, <3>3 DEF Typed, Apart
    <2> QED
      BY <2>1, <2>2
  <1>13. CASE JobWrite(r)
    BY <1>0, <1>13 DEF Typed, Apart, JobWrite, fileVars
  <1>14. CASE JobClose(r)
    BY <1>0, <1>14 DEF Typed, Apart, JobClose, Goto, Places
  <1>15. CASE Kill(r)
    BY <1>0, <1>15 DEF Typed, Apart, Kill, Goto, Places, fileVars
  <1> QED
    BY <1>1, <1>2, <1>3, <1>4, <1>5, <1>6, <1>7, <1>8, <1>9, <1>10, <1>11, <1>12, <1>13, <1>14, <1>15
       DEF Step, BenchDisk, RunJob

(* What a step does to the directory: a file goes away because it is stale *)
(* or because its run is done with it, and a run holds what it creates.    *)
LEMMA EntriesStep ==
    ASSUME Inv, NEW r \in Runs, Step(r)
    PROVE  /\ pc[r] \notin {"ended", "killed"}
           /\ \A f \in entries \ entries' : f \in old \/ (f \in held[r] /\ held'[r] = {})
           /\ \A f \in entries' \ entries : f \in held'[r]
           /\ \A f \in held[r] : f \in held'[r] \/ f \notin entries' \/ pc'[r] = "killed"
  <1>0. Typed /\ Holds(r)
    BY DEF Inv, OwnInv
  <1>1. CASE Start(r) \/ Stat(r) \/ Glob(r) \/ Write(r) \/ Fsync(r) \/ Read(r) \/ Fail(r)
    <2>1. UNCHANGED <<entries, held>>
      BY <1>1 DEF Start, Stat, Glob, Write, Fsync, Read, Fail, runVars, fileVars
    <2>2. pc[r] \notin {"ended", "killed"}
      BY <1>1 DEF Start, Stat, Glob, Write, Fsync, Read, Fail
    <2> QED
      BY <2>1, <2>2
  <1>2. CASE Rmdir(r) \/ JobFill(r) \/ JobWrite(r) \/ JobStop(r) \/ KeyboardInterrupt(r)
    <2>1. UNCHANGED <<entries, held>>
      BY <1>2 DEF Rmdir, JobFill, JobWrite, JobStop, KeyboardInterrupt, runVars, fileVars
    <2>2. pc[r] \notin {"ended", "killed"}
      BY <1>2 DEF Rmdir, JobFill, JobWrite, JobStop, KeyboardInterrupt
    <2> QED
      BY <2>1, <2>2
  <1>3. CASE Clean(r)
    <2>1. pc[r] = "clean" /\ held' = held /\ (entries' = entries \/ \E f \in todo[r] : entries' = entries \ {f})
      BY <1>3 DEF Clean
    <2> QED
      BY <1>0, <2>1 DEF Holds
  <1>4. CASE Create(r)
    <2>1. pc[r] = "create" /\ held[r] = {}
      BY <1>0, <1>4 DEF Create, Holds, Busy, JobBusy
    <2>2. UNCHANGED <<entries, held>> \/ \E f : entries' = entries \cup {f} /\ held' = [held EXCEPT ![r] = {f}]
      BY <1>4 DEF Create
    <2> QED
      BY <1>0, <2>1, <2>2 DEF Typed
  <1>5. CASE JobOpen(r)
    <2>1. pc[r] = "job" /\ held[r] = {}
      BY <1>0, <1>5 DEF JobOpen, Holds, Busy, JobBusy
    <2>2. UNCHANGED <<entries, held>> \/ \E f : entries' = entries \cup {f} /\ held' = [held EXCEPT ![r] = {f}]
      BY <1>5 DEF JobOpen
    <2> QED
      BY <1>0, <2>1, <2>2 DEF Typed
  <1>6. CASE Close(r) \/ JobClose(r)
    <2>1. pc[r] \in {"close", "jobclose"} /\ entries' = entries \ held[r] /\ held' = [held EXCEPT ![r] = {}]
      BY <1>6 DEF Close, JobClose, Dropped
    <2> QED
      BY <1>0, <2>1 DEF Typed
  <1>7. CASE Kill(r)
    <2>1. pc[r] \notin {"ended", "killed"} /\ entries' = entries /\ held' = [held EXCEPT ![r] = {}] /\ pc'[r] = "killed"
      BY <1>0, <1>7 DEF Kill, Live, Goto, fileVars, Typed
    <2> QED
      BY <1>0, <2>1 DEF Typed
  <1> QED
    BY <1>1, <1>2, <1>3, <1>4, <1>5, <1>6, <1>7 DEF Step, BenchDisk, RunJob

(* The step of a run keeps what is said of the run itself.                 *)
LEMMA OwnStep ==
    ASSUME Inv, NEW r \in Runs, Step(r)
    PROVE  Holds(r)'
  <1>0. /\ Typed /\ Holds(r) /\ Typed' /\ Apart(r)
        /\ pc \in [Runs -> Places] /\ held \in [Runs -> SUBSET Files] /\ rep \in [Runs -> 0 .. Most]
        /\ result \in [Runs -> {"none", "ok", "skipped", "interrupted"}]
        /\ todo \in [Runs -> SUBSET Temps] /\ wear \in [Runs -> Nat]
        /\ workdir' = workdir /\ repeats' = repeats /\ old' = old
    BY Frame DEF Inv, OwnInv, Typed, Apart
  <1>1. CASE Start(r)
    <2>1. pc[r] = "idle" /\ pc'[r] = "stat" /\ UNCHANGED <<rep, wear, result, held, todo>>
      BY <1>0, <1>1 DEF Start, Goto
    <2> QED
      BY <1>0, <2>1 DEF Holds, Busy, JobBusy
  <1>2. CASE Stat(r)
    <2>1. /\ pc[r] = "stat" /\ UNCHANGED <<rep, wear, held, todo>>
          /\ (pc'[r] = "glob" /\ result' = result) \/ pc'[r] = AfterTest
      BY <1>0, <1>2 DEF Stat, Goto
    <2> QED
      BY <1>0, <2>1 DEF Holds, Busy, JobBusy, AfterTest
  <1>3. CASE Glob(r)
    <2>1. pc[r] = "glob" /\ pc'[r] = "clean" /\ UNCHANGED <<rep, wear, result, held>> /\ todo'[r] \subseteq old
      BY <1>0, <1>3 DEF Glob, Stale, Goto
    <2> QED
      BY <1>0, <2>1 DEF Holds, Busy, JobBusy
  <1>4. CASE Clean(r)
    <2>1. /\ pc[r] = "clean" /\ pc'[r] \in {"clean", "create"} /\ UNCHANGED <<rep, wear, result, held>>
          /\ todo'[r] \subseteq todo[r]
      BY <1>0, <1>4 DEF Clean, Goto
    <2>2. rep[r] < repeats[r]
      <3>1. repeats[r] \in 1 .. Most /\ Most \in Nat /\ rep[r] = 0
        BY <1>0, <2>1, MostFacts DEF Holds, Typed
      <3> QED
        BY <3>1
    <2> QED
      BY <1>0, <2>1, <2>2 DEF Holds, Busy, JobBusy
  <1>5. CASE Create(r)
    <2>1. pc[r] = "create" /\ UNCHANGED <<wear, todo>>
      BY <1>5 DEF Create
    <2>2. CASE dir
      <3>1. pc'[r] = "write" /\ held'[r] = {Temp(r, rep[r] + 1)} /\ rep'[r] = rep[r] + 1
        BY <1>0, <1>5, <2>2 DEF Create, Goto
      <3>2. rep[r] \in Nat /\ repeats[r] \in Nat /\ rep[r] < repeats[r]
        <4>1. rep[r] < repeats[r]
          BY <1>0, <2>1 DEF Holds
        <4>2. repeats[r] \in 1 .. Most /\ rep[r] \in 0 .. Most /\ Most \in Nat
          BY <1>0, MostFacts DEF Typed
        <4> QED
          BY <4>1, <4>2
      <3>3. rep'[r] >= 1 /\ rep'[r] <= repeats'[r] /\ rep'[r] # 0
        BY <1>0, <3>1, <3>2
      <3> QED
        BY <1>0, <2>1, <3>1, <3>3 DEF Holds, Busy, JobBusy
    <2>3. CASE ~dir
      <3>1. pc'[r] = AfterTest /\ UNCHANGED <<held, rep>>
        BY <1>0, <1>5, <2>3 DEF Create, Goto
      <3> QED
        BY <1>0, <2>1, <3>1 DEF Holds, Busy, JobBusy, AfterTest
    <2> QED
      BY <2>2, <2>3
  <1>6. CASE Write(r)
    <2>1. pc[r] = "write" /\ UNCHANGED <<pc, held, rep, todo>>
      BY <1>6 DEF Write
    <2> QED
      BY <1>0, <2>1 DEF Holds, Busy, JobBusy
  <1>7. CASE Fsync(r) \/ Read(r) \/ Fail(r)
    <2>1. pc[r] \in Busy /\ pc'[r] \in Busy /\ UNCHANGED <<held, rep, todo, entries>>
      BY <1>0, <1>7 DEF Fsync, Read, Fail, Goto, runVars, fileVars, Busy
    <2> QED
      BY <1>0, <2>1 DEF Holds, Busy, JobBusy
  <1>8. CASE KeyboardInterrupt(r) \/ JobStop(r) \/ JobFill(r) \/ JobWrite(r)
    <2>1. /\ \/ pc[r] \in Busy /\ pc'[r] \in Busy
             \/ pc[r] \in JobBusy /\ pc'[r] \in JobBusy
          /\ UNCHANGED <<held, rep, todo, entries, pid>>
      BY <1>0, <1>8 DEF KeyboardInterrupt, JobStop, JobFill, JobWrite, Goto, runVars, fileVars, Busy, JobBusy
    <2> QED
      BY <1>0, <2>1 DEF Holds, Busy, JobBusy, JobFile
  <1>9. CASE Close(r)
    <2>1. /\ pc[r] = "close" /\ held'[r] = {} /\ UNCHANGED <<rep, todo>>
          /\ \/ pc'[r] = "create" /\ rep[r] < repeats[r]
             \/ pc'[r] = "ended"
             \/ pc'[r] = AfterTest
      BY <1>0, <1>9 DEF Close, Goto, RepeatsLeft
    <2> QED
      BY <1>0, <2>1 DEF Holds, Busy, JobBusy, AfterTest
  <1>10. CASE Rmdir(r)
    <2>1. pc[r] = "rmdir" /\ pc'[r] = "ended" /\ UNCHANGED <<held, rep, todo>>
      BY <1>0, <1>10 DEF Rmdir, Goto, runVars
    <2> QED
      BY <1>0, <2>1 DEF Holds, Busy, JobBusy
  <1>11. CASE JobOpen(r)
    <2>1. pc[r] = "job" /\ UNCHANGED <<rep, todo, pid>>
      BY <1>11 DEF JobOpen
    <2>2. \/ pc'[r] = "ended" /\ UNCHANGED held
          \/ pc'[r] = "fill" /\ held'[r] = {JobFile(r)} /\ JobFile(r) \in entries'
      BY <1>0, <1>11 DEF JobOpen, Goto
    <2> QED
      BY <1>0, <2>1, <2>2 DEF Holds, Busy, JobBusy, JobFile
  <1>12. CASE JobClose(r) \/ Kill(r)
    <2>1. pc'[r] \in {"ended", "killed"} /\ held'[r] = {} /\ UNCHANGED <<rep, todo>>
      BY <1>0, <1>12 DEF JobClose, Kill, Goto
    <2> QED
      BY <1>0, <2>1 DEF Holds, Busy, JobBusy
  <1> QED
    BY <1>1, <1>2, <1>3, <1>4, <1>5, <1>6, <1>7, <1>8, <1>9, <1>10, <1>11, <1>12 DEF Step, BenchDisk, RunJob

(* A run has a process id from its start on, and it ends, where the tests  *)
(* run in a directory of their own, by removing the directory.             *)
LEMMA LifeStep ==
    ASSUME Inv, NEW r \in Runs, Step(r)
    PROVE  /\ Start(r) \/ (pid' = pid /\ Live(r))
           /\ workdir => Live(r)' \/ pc'[r] = "killed" \/ Rmdir(r)
  <1>0. Typed /\ Holds(r) /\ pc \in [Runs -> Places]
    BY DEF Inv, OwnInv, Typed
  <1>1. CASE Start(r)
    <2>1. pc'[r] = "stat"
      BY <1>0, <1>1 DEF Start, Goto
    <2> QED
      BY <1>1, <2>1 DEF Live
  <1>2. CASE Stat(r) \/ Glob(r) \/ Clean(r) \/ Create(r)
    <2>1. pid' = pid /\ pc[r] \in {"stat", "glob", "clean", "create"}
      BY <1>2 DEF Stat, Glob, Clean, Create
    <2>2. pc'[r] \in {"glob", "clean", "create", "write", "rmdir", "job"}
      BY <1>0, <1>2 DEF Stat, Glob, Clean, Create, Goto, AfterTest
    <2> QED
      BY <2>1, <2>2 DEF Live
  <1>3. CASE Write(r) \/ Fsync(r) \/ Read(r) \/ Fail(r)
    <2>1. pid' = pid /\ pc[r] \in {"write", "read"}
      BY <1>3 DEF Write, Fsync, Read, Fail, runVars
    <2>2. pc'[r] \in {"write", "read", "close"}
      BY <1>0, <1>3 DEF Write, Fsync, Read, Fail, Goto
    <2> QED
      BY <2>1, <2>2 DEF Live
  <1>4. CASE KeyboardInterrupt(r)
    <2>1. pid' = pid /\ pc[r] \in {"write", "read", "fill", "run"}
      BY <1>4 DEF KeyboardInterrupt
    <2>2. pc'[r] \in {"close", "jobclose"}
      BY <1>0, <1>4 DEF KeyboardInterrupt, Goto
    <2> QED
      BY <2>1, <2>2 DEF Live
  <1>5. CASE Close(r)
    <2>1. pid' = pid /\ pc[r] = "close"
      BY <1>5 DEF Close
    <2>2. workdir => pc'[r] \in {"create", "rmdir"}
      BY <1>0, <1>5 DEF Close, Goto, AfterTest
    <2> QED
      BY <2>1, <2>2 DEF Live
  <1>6. CASE Rmdir(r)
    <2>1. pid' = pid /\ pc[r] = "rmdir"
      BY <1>6 DEF Rmdir, runVars
    <2> QED
      BY <1>6, <2>1 DEF Live
  <1>7. CASE RunJob(r)
    <2>1. pid' = pid /\ pc[r] \in JobBusy \cup {"job"}
      BY <1>7 DEF RunJob, JobOpen, JobFill, JobWrite, JobStop, JobClose, runVars, JobBusy
    <2>2. ~ workdir
      BY <1>0, <2>1 DEF Holds
    <2> QED
      BY <2>1, <2>2 DEF Live, JobBusy
  <1>8. CASE Kill(r)
    <2>1. pid' = pid /\ Live(r) /\ pc'[r] = "killed"
      BY <1>0, <1>8 DEF Kill, Goto
    <2> QED
      BY <2>1
  <1> QED
    BY <1>1, <1>2, <1>3, <1>4, <1>5, <1>6, <1>7, <1>8 DEF Step, BenchDisk

(* Who holds a file lives.                                                 *)
LEMMA HoldersLive ==
    ASSUME Inv, NEW q \in Runs, NEW f \in held[q]
    PROVE  /\ Live(q)
           /\ \/ pc[q] \in Busy /\ f = Temp(q, rep[q]) /\ rep[q] \in 1 .. Most
              \/ pc[q] \in JobBusy /\ f = JobFile(q)
  <1>1. Holds(q) /\ rep[q] \in 0 .. Most /\ Most \in Nat
    BY MostFacts DEF Inv, OwnInv, Typed
  <1>2. pc[q] \in Busy \cup JobBusy
    BY <1>1 DEF Holds
  <1>3. Live(q)
    BY <1>2 DEF Live, Busy, JobBusy
  <1>4. CASE pc[q] \in Busy
    BY <1>1, <1>3, <1>4 DEF Holds
  <1>5. CASE pc[q] \in JobBusy
    BY <1>1, <1>3, <1>5 DEF Holds
  <1> QED
    BY <1>2, <1>4, <1>5

(* A step of a run keeps the names apart, and the files with their owners. *)
LEMMA OwnInvStep ==
    ASSUME Inv, NEW r \in Runs, Step(r)
    PROVE  OwnInv'
  <1>0. Typed /\ Distinct /\ Owned /\ DirUsed /\ Apart(r) /\ (\A q \in Runs : Holds(q))
    BY Frame DEF Inv, OwnInv
  <1>1. ASSUME NEW q \in Runs PROVE Holds(q)'
    <2>1. CASE q = r
      BY <2>1, OwnStep
    <2>2. CASE q # r
      <3>1. /\ pc'[q] = pc[q] /\ pid'[q] = pid[q] /\ held'[q] = held[q] /\ todo'[q] = todo[q]
            /\ rep'[q] = rep[q] /\ result'[q] = result[q] /\ wear'[q] = wear[q]
            /\ repeats' = repeats /\ workdir' = workdir /\ old' = old
        BY <1>0, <2>2 DEF Apart
      <3>2. ASSUME pc[q] \in JobBusy PROVE JobFile(q) \in entries'
        <4>1. JobFile(q) \in entries /\ JobFile(q) \notin old
          BY <1>0, <3>2, NameFacts DEF Holds, Typed
        <4>2. JobFile(q) \notin held[r]
          <5>1. SUFFICES ASSUME JobFile(q) \in held[r] PROVE FALSE
            OBVIOUS
          <5>2. Live(r) /\ JobFile(q) = JobFile(r)
            BY <5>1, HoldersLive, NameFacts
          <5>3. Live(q)
            BY <3>2 DEF Live, JobBusy
          <5> QED
            BY <1>0, <2>2, <5>2, <5>3, NameFacts DEF Distinct
        <4> QED
          BY <4>1, <4>2, EntriesStep
      <3>3. JobFile(q)' = JobFile(q)
        BY <3>1 DEF JobFile
      <3>4. Holds(q)
        BY <1>0
      <3> QED
        BY <3>1, <3>2, <3>3, <3>4 DEF Holds
    <2> QED
      BY <2>1, <2>2
  <1>2. Distinct'
    <2>1. ASSUME NEW q \in Runs \ {r}, Live(q)', Live(r)'
          PROVE  pid'[q] # pid'[r]
      <3>1. Live(q) /\ pid'[q] = pid[q]
        BY <1>0, <2>1 DEF Apart, Live
      <3>2. CASE Start(r)
        <4>1. PICK p \in Pids \ {pid[x] : x \in {x \in Runs : Live(x)}} : pid' = [pid EXCEPT ![r] = p]
          BY <3>2 DEF Start
        <4>2. pid'[r] = p
          BY <1>0, <4>1 DEF Typed
        <4> QED
          BY <3>1, <4>1, <4>2
      <3>3. CASE pid' = pid /\ Live(r)
        BY <1>0, <2>1, <3>1, <3>3 DEF Distinct
      <3> QED
        BY <3>2, <3>3, LifeStep
    <2>2. ASSUME NEW p \in Runs \ {r}, NEW q \in Runs \ {r}, p # q, Live(p)', Live(q)'
          PROVE  pid'[p] # pid'[q]
      <3>1. Live(p) /\ Live(q) /\ pid'[q] = pid[q] /\ pid'[p] = pid[p]
        BY <1>0, <2>2 DEF Apart, Live
      <3> QED
        BY <1>0, <2>2, <3>1 DEF Distinct
    <2>3. ASSUME NEW p \in Runs, NEW q \in Runs, p # q, Live(p)', Live(q)'
          PROVE  pid'[q] # pid'[p]
      <3>1. CASE p = r
        BY <2>1, <2>3, <3>1
      <3>2. CASE q = r
        BY <2>1, <2>3, <3>2
      <3>3. CASE p # r /\ q # r
        BY <2>2, <2>3, <3>3
      <3> QED
        BY <3>1, <3>2, <3>3
    <2> QED
      BY <2>3 DEF Distinct, Live
  <1>3. ASSUME NEW f \in entries'
        PROVE  \E q \in Runs : f \in held'[q] \/ (pc'[q] = "killed" /\ OfRun(f, q)')
    <2>1. CASE f \notin entries
      BY <2>1, EntriesStep
    <2>2. CASE f \in entries
      <3>1. PICK q \in Runs : f \in held[q] \/ (pc[q] = "killed" /\ OfRun(f, q))
        BY <1>0, <2>2 DEF Owned
      <3>2. CASE q # r
        <4>1. held'[q] = held[q] /\ pc'[q] = pc[q] /\ pid'[q] = pid[q]
          BY <1>0, <3>2 DEF Apart
        <4>2. OfRun(f, q)' <=> OfRun(f, q)
          BY <4>1 DEF OfRun, JobFile, Temp, Most
        <4> QED
          BY <3>1, <4>1, <4>2
      <3>3. CASE q = r
        <4>1. f \in held[r] /\ (f \in held'[r] \/ pc'[r] = "killed")
          BY <3>1, <3>3, EntriesStep
        <4>2. Live(r) /\ OfRun(f, r)
          BY <4>1, HoldersLive DEF OfRun
        <4>3. pid' = pid
          <5>1. ~ Start(r)
            BY <4>2 DEF Start, Live
          <5> QED
            BY <5>1, LifeStep
        <4>4. OfRun(f, r)'
          BY <4>2, <4>3 DEF OfRun, JobFile, Temp, Most
        <4> QED
          BY <4>1, <4>4
      <3> QED
        BY <3>2, <3>3
    <2> QED
      BY <2>1, <2>2
  <1>4. ASSUME workdir', dir'
        PROVE  \E q \in Runs : Live(q)' \/ pc'[q] = "killed"
    <2>1. workdir
      BY <1>0, <1>4 DEF Apart
    <2>2. CASE Rmdir(r)
      <3>1. entries # {} /\ pc[r] = "rmdir"
        BY <1>4, <2>2 DEF Rmdir
      <3>2. PICK f \in entries, q \in Runs : f \in held[q] \/ pc[q] = "killed"
        BY <1>0, <3>1 DEF Owned
      <3>3. Live(q) \/ pc[q] = "killed"
        BY <3>2, HoldersLive
      <3>4. q # r
        <4>1. held[r] = {}
          BY <1>0, <3>1 DEF Holds, Busy, JobBusy
        <4> QED
          BY <3>1, <3>2, <4>1
      <3> QED
        BY <1>0, <3>3, <3>4 DEF Apart, Live
    <2>3. CASE ~ Rmdir(r)
      BY <2>1, <2>3, LifeStep
    <2> QED
      BY <2>2, <2>3
  <1> QED
    BY <1>1, <1>2, <1>3, <1>4 DEF OwnInv, Owned, DirUsed

-----------------------------------------------------------------------------
(* What is free is the room less the sum of the sizes, before and after.   *)
LEMMA UsedIsTotal == Used = Total(size, Taking)
  BY DEF Used, Total, Taking

(* The free space is what the files leave, before a step and after it.     *)
LEMMA FreeIsRest ==
    /\ Free = room - Total(size, Taking)
    /\ Free' = room' - Total(size', Taking')
  <1>1. (Used = Total(size, Taking))'
    BY UsedIsTotal, PTL
  <1>2. Used' = Total(size', Taking')
    BY <1>1
  <1> QED
    BY <1>2, UsedIsTotal DEF Free

(* Any files take a number of MB; fewer files take no more.                *)
LEMMA SizesAdd ==
    ASSUME NEW s \in [Files -> Nat], NEW T \in SUBSET Files
    PROVE  /\ IsFiniteSet(T) /\ Total(s, T) \in Nat
           /\ \A U \in SUBSET T : Total(s, U) <= Total(s, T)
           /\ \A f \in Files \ T : Total(s, T \cup {f}) = s[f] + Total(s, T)
  <1>1. IsFiniteSet(T)
    BY FilesAreFinite, FS_Subset
  <1>2. \A f \in T : s[f] \in Nat
    OBVIOUS
  <1>3. Total(s, T) \in Nat
    BY <1>1, <1>2, TotalType
  <1>4. ASSUME NEW U \in SUBSET T PROVE Total(s, U) <= Total(s, T)
    BY <1>1, <1>2, TotalOfSubset
  <1>5. ASSUME NEW f \in Files \ T PROVE Total(s, T \cup {f}) = s[f] + Total(s, T)
    <2>1. f \notin T /\ \A x \in T \cup {f} : s[x] \in Int
      OBVIOUS
    <2> QED
      BY <1>1, <2>1, TotalAdd
  <1> QED
    BY <1>1, <1>3, <1>4, <1>5

(* A step that writes nothing and creates nothing takes no space.          *)
LEMMA NothingTaken ==
    ASSUME Typed, Typed', room' = room, size' = size, Taking' \subseteq Taking
    PROVE  Free' >= Free
  <1>1. size \in [Files -> Nat] /\ Taking \in SUBSET Files /\ room \in Nat
    BY SpaceFacts DEF Typed
  <1>2. Total(size, Taking') <= Total(size, Taking) /\ Total(size, Taking) \in Nat
    BY <1>1, SizesAdd
  <1>3. Total(size, Taking') \in Nat
    BY <1>1, SizesAdd
  <1>4. Free = room - Total(size, Taking) /\ Free' = room - Total(size, Taking')
    BY FreeIsRest
  <1> QED
    BY <1>1, <1>2, <1>3, <1>4

(* A new file of no size takes no space.                                   *)
LEMMA EmptyFileTaken ==
    ASSUME Typed, Typed', room' = room, NEW f \in Files,
           size'[f] = 0, \A x \in Taking : size'[x] = size[x], Taking' \subseteq Taking \cup {f}
    PROVE  Free' >= Free
  <1>1. size \in [Files -> Nat] /\ size' \in [Files -> Nat] /\ Taking \in SUBSET Files /\ room \in Nat
    BY SpaceFacts DEF Typed
  <1>2. Total(size, Taking) \in Nat /\ Total(size', Taking) \in Nat /\ IsFiniteSet(Taking)
    BY <1>1, SizesAdd
  <1>3. Total(size', Taking) = Total(size, Taking)
    <2>1. \A x \in Taking : size'[x] \in Int /\ size'[x] = size[x]
      BY <1>1
    <2> QED
      BY <1>2, <2>1, TotalOfSame
  <1>4. Total(size', Taking \cup {f}) = Total(size, Taking)
    <2>1. CASE f \in Taking
      <3>1. Taking \cup {f} = Taking
        BY <2>1
      <3> QED
        BY <1>3, <3>1
    <2>2. CASE f \notin Taking
      <3>1. Total(size', Taking \cup {f}) = size'[f] + Total(size', Taking)
        BY <1>1, <2>2, SizesAdd
      <3> QED
        BY <1>2, <1>3, <3>1
    <2> QED
      BY <2>1, <2>2
  <1>5. Total(size', Taking') <= Total(size', Taking \cup {f}) /\ Total(size', Taking') \in Nat
    <2>1. Taking \cup {f} \in SUBSET Files /\ Taking' \in SUBSET (Taking \cup {f}) /\ Taking' \in SUBSET Files
      BY <1>1
    <2> QED
      BY <1>1, <2>1, SizesAdd
  <1>6. Free = room - Total(size, Taking) /\ Free' = room - Total(size', Taking')
    BY FreeIsRest
  <1> QED
    BY <1>1, <1>2, <1>4, <1>5, <1>6

(* A write takes what it adds to its file.                                 *)
LEMMA WriteTakes ==
    ASSUME Typed, Typed', room' = room, Taking' = Taking, NEW f \in Taking,
           \A x \in Files : x # f => size'[x] = size[x]
    PROVE  Free' = Free - (size'[f] - size[f])
  <1>1. size \in [Files -> Nat] /\ size' \in [Files -> Nat] /\ Taking \in SUBSET Files /\ room \in Nat
    BY SpaceFacts DEF Typed
  <1>2. Total(size, Taking) \in Nat /\ IsFiniteSet(Taking)
    BY <1>1, SizesAdd
  <1>3. \A x \in Taking : size[x] \in Int /\ size'[x] \in Int /\ (x # f => size[x] = size'[x])
    BY <1>1
  <1>4. Total(size', Taking) = Total(size, Taking) + (size'[f] - size[f])
    BY <1>2, <1>3, TotalChange
  <1>5. Free = room - Total(size, Taking) /\ Free' = room - Total(size', Taking)
    BY FreeIsRest
  <1>6. size[f] \in Nat /\ size'[f] \in Nat
    BY <1>1
  <1> QED
    BY <1>1, <1>2, <1>4, <1>5, <1>6

(* A run writes to its own files only, and begins no repeat twice.         *)
LEMMA SizeStep ==
    ASSUME Inv, NEW r \in Runs, Step(r)
    PROVE  /\ size' = size \/ (Live(r) /\ \A f \in Files : f \notin held[r] /\ f # JobFile(r) => size'[f] = size[f])
           /\ rep'[r] >= rep[r]
           /\ pc'[r] = "fill" => JobOpen(r) \/ JobFill(r)
  <1>0. /\ pc \in [Runs -> Places] /\ rep \in [Runs -> 0 .. Most] /\ size \in [Files -> Nat]
        /\ rep[r] \in Nat
    <2>1. rep \in [Runs -> 0 .. Most] /\ Most \in Nat
      BY MostFacts DEF Inv, Typed
    <2> QED
      BY <2>1 DEF Inv, Typed
  <1>1. CASE Start(r) \/ Stat(r) \/ Glob(r) \/ Clean(r)
    <2>1. UNCHANGED <<size, rep>>
      BY <1>1 DEF Start, Stat, Glob, Clean, fileVars
    <2>2. pc'[r] # "fill"
      BY <1>0, <1>1 DEF Start, Stat, Glob, Clean, Goto, AfterTest
    <2> QED
      BY <1>0, <2>1, <2>2
  <1>2. CASE Create(r)
    <2>1. size' = size /\ (rep' = rep \/ rep' = [rep EXCEPT ![r] = @ + 1])
      BY <1>2 DEF Create
    <2>2. pc'[r] # "fill"
      BY <1>0, <1>2 DEF Create, Goto, AfterTest
    <2> QED
      BY <1>0, <2>1, <2>2
  <1>3. CASE Write(r)
    <2>1. /\ size' = [f \in Files |-> size[f] + IF f \in held[r] THEN Moved ELSE 0]
          /\ UNCHANGED <<pc, rep>> /\ pc[r] = "write"
      BY <1>3 DEF Write
    <2>2. \A f \in Files : f \notin held[r] => size'[f] = size[f]
      BY <1>0, <2>1
    <2> QED
      BY <1>0, <2>1, <2>2 DEF Live
  <1>4. CASE Fsync(r) \/ Read(r) \/ Fail(r) \/ KeyboardInterrupt(r)
    <2>1. UNCHANGED <<size, rep>>
      BY <1>4 DEF Fsync, Read, Fail, KeyboardInterrupt, runVars, fileVars
    <2>2. pc'[r] # "fill"
      BY <1>0, <1>4 DEF Fsync, Read, Fail, KeyboardInterrupt, Goto
    <2> QED
      BY <1>0, <2>1, <2>2
  <1>5. CASE Close(r) \/ Rmdir(r) \/ JobStop(r) \/ JobClose(r) \/ Kill(r)
    <2>1. UNCHANGED <<size, rep>>
      BY <1>5 DEF Close, Rmdir, JobStop, JobClose, Kill, runVars, fileVars
    <2>2. pc'[r] # "fill"
      BY <1>0, <1>5 DEF Close, Rmdir, JobStop, JobClose, Kill, Goto, AfterTest
    <2> QED
      BY <1>0, <2>1, <2>2
  <1>6. CASE JobWrite(r)
    <2>1. UNCHANGED <<size, rep, pc>> /\ pc[r] = "run"
      BY <1>6 DEF JobWrite, fileVars
    <2> QED
      BY <1>0, <2>1
  <1>7. CASE JobOpen(r) \/ JobFill(r)
    <2>1. rep' = rep /\ pc[r] \in {"job", "fill"}
      BY <1>7 DEF JobOpen, JobFill
    <2>2. size' = size \/ \E n : size' = [size EXCEPT ![JobFile(r)] = n]
      BY <1>7 DEF JobOpen, JobFill
    <2> QED
      BY <1>0, <1>7, <2>1, <2>2 DEF Live
  <1> QED
    BY <1>1, <1>2, <1>3, <1>4, <1>5, <1>6, <1>7 DEF Step, BenchDisk, RunJob

(* The space is never overdrawn.                                           *)
LEMMA FreeStep ==
    ASSUME Inv, NEW r \in Runs, Step(r)
    PROVE  Free' >= 0
  <1>0. /\ Typed /\ Typed' /\ room' = room /\ Holds(r) /\ Free \in Int /\ Free >= 0 /\ Filling(r) /\ Unwritten
        /\ held \in [Runs -> SUBSET Files] /\ size \in [Files -> Nat]
        /\ \A q \in Runs : held[q] \subseteq Taking
    BY Frame, SpaceFacts DEF Inv, OwnInv, SpaceInv, Apart, Typed, Taking
  <1>a. Free' \in Int
    <2>1. size' \in [Files -> Nat] /\ Taking' \in SUBSET Files /\ room' \in Nat
      BY <1>0 DEF Typed, Taking
    <2>2. Total(size', Taking') \in Nat
      BY <2>1, SizesAdd
    <2>3. Free' = room' - Total(size', Taking')
      BY FreeIsRest
    <2> QED
      BY <2>1, <2>2, <2>3
  <1>b. ASSUME size' = size, \A q \in Runs : held'[q] \subseteq held[q], entries' \subseteq entries
        PROVE  Free' >= 0
    <2>1. Taking' \subseteq Taking
      BY <1>b DEF Taking
    <2>2. Free' >= Free
      BY <1>0, <1>b, <2>1, NothingTaken
    <2> QED
      BY <1>0, <1>a, <2>2
  <1>1. CASE Start(r) \/ Stat(r) \/ Glob(r) \/ Clean(r) \/ Fsync(r) \/ Read(r) \/ Fail(r) \/ KeyboardInterrupt(r)
    <2>1. UNCHANGED <<size, held>> /\ entries' \subseteq entries
      BY <1>1 DEF Start, Stat, Glob, Clean, Fsync, Read, Fail, KeyboardInterrupt, runVars, fileVars
    <2> QED
      BY <1>b, <2>1
  <1>2. CASE Rmdir(r) \/ JobWrite(r) \/ JobStop(r)
    <2>1. UNCHANGED <<size, held, entries>>
      BY <1>2 DEF Rmdir, JobWrite, JobStop, runVars, fileVars
    <2> QED
      BY <1>b, <2>1
  <1>3. CASE Close(r) \/ JobClose(r) \/ Kill(r)
    <2>1. size' = size /\ held' = [held EXCEPT ![r] = {}] /\ entries' \subseteq entries
      BY <1>3 DEF Close, Dropped, JobClose, Kill, fileVars
    <2>2. \A q \in Runs : held'[q] \subseteq held[q]
      BY <1>0, <2>1
    <2> QED
      BY <1>b, <2>1, <2>2
  <1>4. CASE Create(r)
    <2>1. CASE ~dir
      <3>1. UNCHANGED <<size, held, entries>>
        BY <1>4, <2>1 DEF Create
      <3> QED
        BY <1>b, <3>1
    <2>2. CASE dir
      <3> DEFINE f == Temp(r, rep[r] + 1)
      <3>1. entries' = entries \cup {f} /\ held' = [held EXCEPT ![r] = {f}] /\ size' = size
        BY <1>4, <2>2 DEF Create
      <3>2. rep[r] + 1 \in 1 .. Most /\ rep[r] + 1 > rep[r]
        <4>1. rep[r] < repeats[r]
          BY <1>0, <1>4 DEF Holds, Create
        <4>2. rep[r] \in 0 .. Most /\ repeats[r] \in 1 .. Most /\ Most \in Nat
          BY <1>0, MostFacts DEF Typed
        <4> QED
          BY <4>1, <4>2
      <3>3. f \in Files /\ size[f] = 0
        BY <1>0, <3>2, NameFacts DEF Unwritten
      <3>4. Taking' \subseteq Taking \cup {f}
        BY <1>0, <3>1 DEF Taking
      <3>5. Free' >= Free
        BY <1>0, <3>1, <3>3, <3>4, EmptyFileTaken
      <3> QED
        BY <1>0, <1>a, <3>5
    <2> QED
      BY <2>1, <2>2
  <1>5. CASE Write(r)
    <2>1. /\ pc[r] = "write" /\ UNCHANGED <<held, entries>>
          /\ size' = [f \in Files |-> size[f] + IF f \in held[r] THEN Moved ELSE 0]
      BY <1>5 DEF Write
    <2>2. PICK f \in Taking : held[r] = {f}
      <3>1. held[r] = {Temp(r, rep[r])}
        BY <1>0, <2>1 DEF Holds, Busy
      <3> QED
        BY <1>0, <3>1
    <2>3. Taking' = Taking /\ f \in Files
      BY <1>0, <2>1, <2>2 DEF Taking
    <2>4. Moved \in Nat /\ Moved <= Free
      BY <1>0, MovedFacts
    <2>5. size'[f] = size[f] + Moved /\ \A x \in Files : x # f => size'[x] = size[x]
      BY <1>0, <2>1, <2>2, <2>3, <2>4
    <2>6. Free' = Free - (size'[f] - size[f])
      BY <1>0, <2>3, <2>5, WriteTakes
    <2>7. size[f] \in Nat
      BY <1>0, <2>3
    <2> QED
      BY <1>0, <2>4, <2>5, <2>6, <2>7
  <1>6. CASE JobOpen(r)
    <2>1. CASE JobSize < JobLeast
      <3>1. UNCHANGED <<size, held, entries>>
        BY <1>6, <2>1 DEF JobOpen
      <3> QED
        BY <1>b, <3>1
    <2>2. CASE ~ (JobSize < JobLeast)
      <3> DEFINE f == JobFile(r)
      <3>1. /\ pc[r] = "job" /\ entries' = entries \cup {f} /\ held' = [held EXCEPT ![r] = {f}]
            /\ size' = [size EXCEPT ![f] = IF f \in entries THEN size[f] ELSE 0]
        BY <1>6, <2>2 DEF JobOpen
      <3>2. f \in Files
        BY <1>0, NameFacts
      <3>3. Taking' \subseteq Taking \cup {f}
        BY <1>0, <3>1 DEF Taking
      <3>4. CASE f \in entries
        <4>1. size' = size
          BY <1>0, <3>1, <3>4
        <4>2. Taking' \subseteq Taking
          BY <3>3, <3>4 DEF Taking
        <4>3. Free' >= Free
          BY <1>0, <4>1, <4>2, NothingTaken
        <4> QED
          BY <1>0, <1>a, <4>3
      <3>5. CASE f \notin entries
        <4>1. f \notin Taking
          <5>1. ASSUME NEW q \in Runs, f \in held[q] PROVE FALSE
            <6>1. Live(q) /\ f = JobFile(q)
              BY <5>1, HoldersLive, NameFacts
            <6>2. Live(r) /\ held[r] = {}
              BY <1>0, <3>1 DEF Holds, Live, Busy, JobBusy
            <6>3. pid[q] = pid[r] /\ q # r
              BY <5>1, <6>1, <6>2, NameFacts
            <6> QED
              BY <6>1, <6>2, <6>3 DEF Inv, OwnInv, Distinct
          <5> QED
            BY <3>5, <5>1 DEF Taking
        <4>2. size'[f] = 0 /\ \A x \in Taking : size'[x] = size[x]
          <5>1. Taking \subseteq Files
            BY <1>0, SpaceFacts
          <5> QED
            BY <1>0, <3>1, <3>2, <3>5, <4>1, <5>1
        <4>3. Free' >= Free
          BY <1>0, <3>2, <3>3, <4>2, EmptyFileTaken
        <4> QED
          BY <1>0, <1>a, <4>3
      <3> QED
        BY <3>4, <3>5
    <2> QED
      BY <2>1, <2>2
  <1>7. CASE JobFill(r)
    <2>1. CASE left[r] = 0
      <3>1. UNCHANGED <<size, held, entries>>
        BY <1>7, <2>1 DEF JobFill
      <3> QED
        BY <1>b, <3>1
    <2>2. CASE left[r] # 0
      <3> DEFINE f == JobFile(r)
                 end == plan[r] - left[r] + 1
      <3>1. /\ pc[r] = "fill" /\ UNCHANGED <<held, entries>> /\ (end > size[f] => Free > 0)
            /\ size' = [size EXCEPT ![f] = AtLeast(end, @)]
        BY <1>7, <2>2 DEF JobFill
      <3>2. held[r] = {f} /\ f \in Taking /\ f \in Files /\ Taking' = Taking
        BY <1>0, <3>1, NameFacts DEF Holds, JobBusy, Taking
      <3>3. plan[r] - left[r] <= size[f] /\ plan[r] \in Nat /\ left[r] \in Int /\ size[f] \in Nat
        BY <1>0, <2>2, <3>1, <3>2 DEF Filling, Typed
      <3>4. size'[f] = AtLeast(end, size[f]) /\ \A x \in Files : x # f => size'[x] = size[x]
        BY <1>0, <3>1, <3>2
      <3>5. size'[f] = size[f] \/ (size'[f] = size[f] + 1 /\ Free > 0)
        BY <3>1, <3>3, <3>4 DEF AtLeast
      <3>6. Free' = Free - (size'[f] - size[f])
        BY <1>0, <3>2, <3>4, WriteTakes
      <3> QED
        BY <1>0, <3>3, <3>5, <3>6
    <2> QED
      BY <2>1, <2>2
  <1> QED
    BY <1>1, <1>2, <1>3, <1>4, <1>5, <1>6, <1>7 DEF Step, BenchDisk, RunJob

(* A step of a run keeps what is said of the space.                        *)
LEMMA SpaceInvStep ==
    ASSUME Inv, NEW r \in Runs, Step(r)
    PROVE  SpaceInv'
  <1>0. /\ Typed /\ Typed' /\ Apart(r) /\ Unwritten /\ (\A q \in Runs : Filling(q) /\ Holds(q)) /\ Distinct
        /\ size \in [Files -> Nat] /\ Most \in Nat
    BY Frame, MostFacts DEF Inv, OwnInv, SpaceInv, Typed
  <1>1. ASSUME NEW q \in Runs, NEW i \in 1 .. Most, i > rep'[q] PROVE size'[Temp(q, i)] = 0
    <2>1. rep[q] \in Int /\ rep'[q] \in Int /\ rep'[q] >= rep[q] /\ i \in Int
      <3>1. rep[q] \in 0 .. Most /\ rep'[q] \in 0 .. Most
        BY <1>0 DEF Typed, Most
      <3> QED
        BY <1>0, <3>1, SizeStep DEF Apart
    <2>2. i > rep[q]
      BY <1>1, <2>1
    <2>3. size[Temp(q, i)] = 0 /\ Temp(q, i) \in Files
      BY <1>0, <2>2, NameFacts DEF Unwritten
    <2>4. Temp(q, i) # JobFile(r)
      BY NameFacts
    <2>5. Temp(q, i) \notin held[r]
      <3>1. SUFFICES ASSUME Temp(q, i) \in held[r] PROVE FALSE
        OBVIOUS
      <3>2. Temp(q, i) = Temp(r, rep[r])
        BY <2>4, <3>1, HoldersLive
      <3>3. q = r /\ i = rep[q]
        BY <3>2, NameFacts
      <3> QED
        BY <2>1, <2>2, <3>3
    <2> QED
      BY <2>3, <2>4, <2>5, SizeStep
  <1>2. ASSUME NEW q \in Runs, pc'[q] = "fill"
        PROVE  /\ left'[q] \in 0 .. plan'[q]
               /\ left'[q] = 0 \/ plan'[q] - left'[q] <= size'[JobFile(q)']
    <2>1. CASE q # r
      <3>1. pc[q] = "fill" /\ left'[q] = left[q] /\ plan'[q] = plan[q] /\ JobFile(q)' = JobFile(q)
        BY <1>0, <1>2, <2>1 DEF Apart, JobFile
      <3>2. size'[JobFile(q)] = size[JobFile(q)]
        <4>1. CASE size' = size
          BY <4>1
        <4>2. CASE Live(r) /\ \A f \in Files : f \notin held[r] /\ f # JobFile(r) => size'[f] = size[f]
          <5>1. JobFile(q) # JobFile(r)
            <6>1. Live(q)
              BY <3>1 DEF Live
            <6> QED
              BY <1>0, <2>1, <4>2, <6>1, NameFacts DEF Distinct
          <5>2. JobFile(q) \notin held[r]
            BY <5>1, HoldersLive, NameFacts
          <5>3. JobFile(q) \in Files
            BY <1>0, NameFacts
          <5> QED
            BY <4>2, <5>1, <5>2, <5>3
        <4> QED
          BY <4>1, <4>2, SizeStep
      <3>3. Filling(q)
        BY <1>0
      <3> QED
        BY <3>1, <3>2, <3>3 DEF Filling
    <2>2. CASE q = r
      <3>1. CASE JobOpen(r)
        <4>1. ~ (JobSize < JobLeast)
          BY <1>0, <1>2, <2>2, <3>1 DEF JobOpen, Goto, Typed
        <4>2. /\ plan' = [plan EXCEPT ![r] = JobSize] /\ JobFile(r)' = JobFile(r)
              /\ left' = [left EXCEPT ![r] = left'[r]] /\ left'[r] \in {JobSize, 0}
          BY <1>0, <3>1, <4>1 DEF JobOpen, JobFile, Typed
        <4>3. JobSize \in Nat /\ plan'[r] = JobSize
          BY <1>0, <4>2, SizeFacts DEF Inv, SpaceInv, Typed
        <4>4. JobFile(r) \in Files /\ size'[JobFile(r)] \in Nat
          BY <1>0, NameFacts DEF Typed, Files
        <4> QED
          BY <2>2, <4>2, <4>3, <4>4
      <3>2. CASE JobFill(r)
        <4>1. left[r] # 0 /\ pc[r] = "fill"
          BY <1>0, <1>2, <2>2, <3>2 DEF JobFill, Goto, Typed
        <4>2. /\ size' = [size EXCEPT ![JobFile(r)] = AtLeast(plan[r] - left[r] + 1, @)]
              /\ left' = [left EXCEPT ![r] = @ - 1] /\ plan' = plan /\ JobFile(r)' = JobFile(r)
          BY <3>2, <4>1 DEF JobFill, JobFile
        <4>3. left[r] \in 0 .. plan[r] /\ plan[r] \in Nat /\ JobFile(r) \in Files
          BY <1>0, <4>1, NameFacts DEF Filling, Typed
        <4>4. left'[r] = left[r] - 1 /\ size'[JobFile(r)] = AtLeast(plan[r] - left[r] + 1, size[JobFile(r)])
          BY <1>0, <4>2, <4>3 DEF Typed
        <4>5. size[JobFile(r)] \in Nat
          BY <1>0, <4>3
        <4>6. plan[r] - left[r] + 1 <= size'[JobFile(r)] /\ left'[r] \in 0 .. plan[r]
          BY <4>1, <4>3, <4>4, <4>5 DEF AtLeast
        <4>7. plan[r] - left'[r] <= size'[JobFile(r)]
          BY <4>3, <4>4, <4>6
        <4> QED
          BY <2>2, <4>2, <4>6, <4>7
      <3> QED
        BY <1>2, <2>2, <3>1, <3>2, SizeStep
    <2> QED
      BY <2>1, <2>2
  <1>3. Free' >= 0
    BY FreeStep
  <1> QED
    BY <1>1, <1>2, <1>3 DEF SpaceInv, Unwritten, Filling, Temp, Most

-----------------------------------------------------------------------------
(* The invariant holds at first.                                           *)
LEMMA InvHoldsAtFirst == Init => Inv
  <1> SUFFICES ASSUME Init PROVE Inv
    OBVIOUS
  <1>1. Most \in Nat \ {0} /\ \A n \in RepeatCounts : n \in 1 .. Most
    BY MostFacts
  <1>2. \A r \in Runs : pid[r] \in Pids
    <2>1. (CHOOSE p \in Pids : TRUE) \in Pids
      BY DiskAssumption
    <2> QED
      BY <2>1 DEF Init
  <1>3. /\ \A r \in Runs : pc[r] = "idle" /\ plan[r] = 0 /\ left[r] = 0 /\ rep[r] = 0 /\ wear[r] = 0
        /\ \A r \in Runs : todo[r] = {} /\ held[r] = {} /\ result[r] = "none" /\ repeats[r] \in RepeatCounts
        /\ \A f \in Files : size[f] = 0
        /\ entries = {} /\ old = {} /\ room \in Nat /\ dir = ~workdir /\ workdir \in BOOLEAN
    BY DiskAssumption DEF Init
  <1>4. Typed
    <2>1. /\ pid \in [Runs -> Pids] /\ plan \in [Runs -> Nat] /\ left \in [Runs -> Int]
          /\ rep \in [Runs -> 0 .. Most] /\ wear \in [Runs -> Nat] /\ jobWear \in [Runs -> Nat]
          /\ size \in [Files -> Nat]
      BY <1>1, <1>2 DEF Init
    <2>2. /\ pc \in [Runs -> Places] /\ repeats \in [Runs -> RepeatCounts]
          /\ todo \in [Runs -> SUBSET Temps] /\ held \in [Runs -> SUBSET Files]
          /\ result \in [Runs -> {"none", "ok", "skipped", "interrupted"}]
      BY DEF Init, Places
    <2> QED
      BY <1>3, <2>1, <2>2 DEF Typed
  <1>5. OwnInv
    <2>1. ASSUME NEW r \in Runs PROVE Holds(r)
      <3>1. repeats[r] \in 1 .. Most
        BY <1>1, <1>3
      <3>2. rep[r] <= repeats[r]
        BY <1>1, <1>3, <3>1
      <3> QED
        BY <1>3, <3>2 DEF Holds, Busy, JobBusy
    <2>2. Distinct /\ Owned
      BY <1>3 DEF Distinct, Live, Owned
    <2>3. DirUsed
      BY <1>3 DEF DirUsed
    <2> QED
      BY <2>1, <2>2, <2>3 DEF OwnInv
  <1>6. SpaceInv
    <2>1. Unwritten
      BY <1>3, NameFacts DEF Unwritten
    <2>2. \A r \in Runs : Filling(r)
      BY <1>3 DEF Filling
    <2>3. Free >= 0
      <3>1. Taking = {} /\ size \in [Files -> Nat]
        BY <1>3, <1>4 DEF Taking, Typed
      <3>2. Total(size, Taking) = 0
        <4>1. JobFile(CHOOSE r \in Runs : TRUE) \notin {}
          OBVIOUS
        <4>2. <<".pcbench_io", 0>> \in Files
          BY DEF Files
        <4>3. \A x \in {} \cup {<<".pcbench_io", 0>>} : size[x] \in Int
          BY <3>1, <4>2
        <4> QED
          BY <3>1, <4>3, TotalAdd, FS_EmptySet
      <3> QED
        BY <1>3, <3>2, FreeIsRest
    <2> QED
      BY <2>1, <2>2, <2>3 DEF SpaceInv
  <1> QED
    BY <1>4, <1>5, <1>6 DEF Inv

(* What is said of a state that differs in the age of files alone.         *)
LEMMA InvOfTime ==
    ASSUME Inv, old' \in SUBSET Temps, old \subseteq old', UNCHANGED <<pc, runVars, entries, size, dir, room, workdir, repeats>>
    PROVE  Inv'
  <1>1. Typed'
    BY DEF Inv, Typed, runVars
  <1>2. OwnInv'
    <2>1. ASSUME NEW r \in Runs PROVE Holds(r)'
      BY DEF Inv, OwnInv, Holds, JobFile, runVars
    <2>2. Distinct' /\ DirUsed'
      BY DEF Inv, OwnInv, Distinct, DirUsed, Live, runVars
    <2>3. Owned'
      BY DEF Inv, OwnInv, Owned, OfRun, JobFile, Temp, Most, runVars
    <2> QED
      BY <2>1, <2>2, <2>3 DEF OwnInv
  <1>3. SpaceInv'
    <2>1. Taking' = Taking /\ size' = size /\ room' = room
      BY DEF Taking, runVars
    <2>2. Free' = Free
      BY <2>1, FreeIsRest
    <2>3. Unwritten' /\ \A r \in Runs : Filling(r)'
      BY DEF Inv, SpaceInv, Unwritten, Filling, JobFile, Temp, Most, runVars
    <2> QED
      BY <2>2, <2>3 DEF Inv, SpaceInv
  <1> QED
    BY <1>1, <1>2, <1>3 DEF Inv

(* A step is that of a run, or one that changes the age of files alone.    *)
LEMMA NextIsAStep ==
    ASSUME [Next]_vars, Typed
    PROVE  \/ \E r \in Runs : Step(r)
           \/ /\ UNCHANGED <<pc, runVars, entries, size, dir, room, workdir, repeats>>
              /\ old' \in SUBSET Temps /\ old \subseteq old'
  <1>1. CASE \E r \in Runs : Step(r)
    BY <1>1
  <1>2. CASE \E f \in Temps : Minute(f)
    BY <1>2 DEF Minute, Typed
  <1>3. CASE AllOver \/ UNCHANGED vars
    <2>1. UNCHANGED vars
      BY <1>3 DEF AllOver
    <2> QED
      BY <2>1 DEF vars, fileVars, Typed
  <1> QED
    BY <1>1, <1>2, <1>3 DEF Next, Step

(* Every step of every run, process and reader preserves the invariant.    *)
LEMMA InvStep ==
    ASSUME Inv, [Next]_vars
    PROVE  Inv'
  <1>1. ASSUME NEW r \in Runs, Step(r) PROVE Inv'
    <2>1. Typed' /\ OwnInv' /\ SpaceInv'
      BY <1>1, Frame, OwnInvStep, SpaceInvStep
    <2> QED
      BY <2>1 DEF Inv
  <1>2. Typed
    BY DEF Inv
  <1> QED
    BY <1>1, <1>2, NextIsAStep, InvOfTime

(* The invariant holds always.                                             *)
LEMMA InvHolds == Spec => []Inv
  <1> QED
    BY InvHoldsAtFirst, InvStep, PTL DEF Spec

-----------------------------------------------------------------------------
(* Types, the one file a run has open, and the space of the filesystem.    *)
THEOREM TypeCorrect == Spec => []TypeOK
  <1>1. Inv => TypeOK
    <2> SUFFICES ASSUME Inv PROVE TypeOK
      OBVIOUS
    <2>1. ASSUME NEW r \in Runs PROVE Cardinality(held[r]) <= 1
      <3>1. held[r] = {} \/ \E f : held[r] = {f}
        BY DEF Inv, OwnInv, Holds
      <3> QED
        BY <3>1, FS_EmptySet, FS_Singleton
    <2>2. Typed /\ Free >= 0
      BY DEF Inv, SpaceInv
    <2> QED
      BY <2>1, <2>2 DEF TypeOK, Typed, Places, Most
  <1> QED
    BY <1>1, InvHolds, PTL

(* What a run leaves in the directory, it leaves when it is killed.        *)
THEOREM NothingStays == Spec => []NothingIsLeftBehind
  <1>1. Inv => NothingIsLeftBehind
    <2> SUFFICES ASSUME Inv PROVE NothingIsLeftBehind
      OBVIOUS
    <2>0. Owned /\ DirUsed
      BY DEF Inv, OwnInv
    <2>1. ASSUME NEW r \in Runs, pc[r] = "ended", NEW i \in 1 .. repeats[r], Temp(r, i) \in entries
          PROVE  FALSE
      <3>1. PICK q \in Runs : Temp(r, i) \in held[q] \/ (pc[q] = "killed" /\ OfRun(Temp(r, i), q))
        BY <2>0, <2>1 DEF Owned
      <3>2. q = r
        <4>1. \/ Temp(r, i) = Temp(q, rep[q]) \/ Temp(r, i) = JobFile(q)
              \/ \E j \in 1 .. Most : Temp(r, i) = Temp(q, j)
          BY <3>1, HoldersLive DEF OfRun
        <4> QED
          BY <4>1, NameFacts
      <3>3. ~ Live(r)
        BY <2>1 DEF Live
      <3> QED
        BY <2>1, <3>1, <3>2, <3>3, HoldersLive
    <2>2. ASSUME NEW r \in Runs, pc[r] = "ended", JobFile(r) \in entries
          PROVE  \E q \in Runs \ {r} : pid[q] = pid[r] /\ (Live(q) \/ pc[q] = "killed")
      <3>1. PICK q \in Runs : JobFile(r) \in held[q] \/ (pc[q] = "killed" /\ OfRun(JobFile(r), q))
        BY <2>0, <2>2 DEF Owned
      <3>2. JobFile(r) = JobFile(q) /\ (Live(q) \/ pc[q] = "killed")
        BY <3>1, HoldersLive, NameFacts DEF OfRun
      <3>3. q # r
        BY <2>2, <3>2 DEF Live
      <3> QED
        BY <3>2, <3>3, NameFacts
    <2>3. ASSUME workdir, dir, \A r \in Runs : pc[r] \in {"idle", "ended"} PROVE FALSE
      BY <2>0, <2>3 DEF DirUsed, Live
    <2> QED
      BY <2>1, <2>2, <2>3 DEF NothingIsLeftBehind
  <1> QED
    BY <1>1, InvHolds, PTL

(* A run that writes does not lose its files to another.                   *)
THEOREM FilesBelongToRuns == Spec => FilesAreTheirOwners
  <1>1. Inv => JobFileIsPrivate
    <2> SUFFICES ASSUME Inv, NEW r \in Runs, pc[r] \in JobBusy
                 PROVE  /\ JobFile(r) \in entries
                        /\ \A q \in Runs \ {r} : held[q] \cap held[r] = {}
      BY DEF JobFileIsPrivate, JobBusy
    <2>1. held[r] = {JobFile(r)} /\ JobFile(r) \in entries /\ Live(r)
      BY DEF Inv, OwnInv, Holds, Live, JobBusy
    <2>2. ASSUME NEW q \in Runs \ {r}, JobFile(r) \in held[q] PROVE FALSE
      <3>1. Live(q) /\ JobFile(r) = JobFile(q)
        BY <2>2, HoldersLive, NameFacts
      <3> QED
        BY <2>1, <3>1, NameFacts DEF Inv, OwnInv, Distinct
    <2> QED
      BY <2>1, <2>2
  <1>2. Inv /\ [Next]_vars => OnlyOwnOrStaleRemoved
    <2> SUFFICES ASSUME Inv, [Next]_vars, NEW f \in entries \ entries'
                 PROVE  f \in old \/ \E r \in Runs : f \in held[r] /\ f \notin held'[r]
      BY DEF OnlyOwnOrStaleRemoved
    <2>1. ASSUME NEW r \in Runs, Step(r)
          PROVE  f \in old \/ (f \in held[r] /\ f \notin held'[r])
      <3>1. f \in old \/ (f \in held[r] /\ held'[r] = {})
        BY <2>1, EntriesStep
      <3> QED
        BY <3>1
    <2>2. Typed /\ entries' # entries
      BY DEF Inv
    <2> QED
      BY <2>1, <2>2, NextIsAStep
  <1> QED
    BY <1>1, <1>2, InvHolds, PTL DEF Spec, FilesAreTheirOwners

-----------------------------------------------------------------------------
(* Products, and whole blocks.                                             *)
LEMMA Products ==
    ASSUME NEW k \in Nat, NEW n \in Nat
    PROVE  k * n \in Nat /\ 0 * n = 0 /\ (k + 1) * n = k * n + n
  BY Z3

(* What is more than none and made of blocks is a block or more.           *)
LEMMA BlockFacts ==
    ASSUME NEW n \in Nat, Blocks(n), n > 0
    PROVE  n >= DISK_BLOCK_MB /\ Blocks(n - DISK_BLOCK_MB)
  <1> DEFINE B == DISK_BLOCK_MB
  <1>1. PICK k \in Nat : n = k * B
    BY DEF Blocks
  <1>2. B \in Nat
    BY LimitsAssumption
  <1>3. k # 0
    BY <1>1, <1>2, Products
  <1>4. k - 1 \in Nat /\ k = (k - 1) + 1
    BY <1>3
  <1>5. (k - 1) * B \in Nat /\ ((k - 1) + 1) * B = (k - 1) * B + B
    BY <1>2, <1>4, Products
  <1>6. n = (k - 1) * B + B
    BY <1>1, <1>4, <1>5
  <1>7. n >= B /\ n - B = (k - 1) * B
    BY <1>2, <1>5, <1>6
  <1> QED
    BY <1>4, <1>7 DEF Blocks

(* What is free to a run that is alone.                                    *)
LEMMA AloneFree ==
    ASSUME Inv, NEW r \in Runs, Alone(r), Written(r), pc[r] # "killed"
    PROVE  /\ held[r] = {} => Free = room
           /\ \A f : held[r] = {f} => Free = room - size[f]
  <1>1. \A q \in Runs \ {r} : held[q] = {}
    BY DEF Inv, OwnInv, Holds, Alone, Busy, JobBusy
  <1>2. Taking = held[r]
    BY <1>1 DEF Taking, Written
  <1>3. size \in [Files -> Nat] /\ room \in Nat /\ held[r] \subseteq Files
    BY DEF Inv, Typed
  <1>4. Free = room - Total(size, held[r])
    BY <1>2, FreeIsRest
  <1>5. IsFiniteSet({}) /\ <<".pcbench_io", 0>> \in Files
    BY FS_EmptySet DEF Files
  <1>6. ASSUME NEW f \in Files PROVE Total(size, {}) = 0 /\ Total(size, {f}) = size[f]
    <2>1. f \notin {} /\ \A x \in {} \cup {f} : size[x] \in Int
      BY <1>3
    <2> QED
      BY <1>5, <2>1, TotalAdd
  <1>7. ASSUME held[r] = {} PROVE Free = room
    <2>1. Total(size, held[r]) = 0
      BY <1>5, <1>6, <1>7
    <2> QED
      BY <1>3, <1>4, <2>1
  <1>8. ASSUME NEW f, held[r] = {f} PROVE Free = room - size[f]
    <2>1. f \in Files
      BY <1>3, <1>8
    <2>2. Total(size, held[r]) = size[f]
      BY <1>6, <1>8, <2>1
    <2> QED
      BY <1>4, <2>2
  <1> QED
    BY <1>7, <1>8

(* What the test of a run alone has written, step by step.                 *)
LEMMA WrittenStep ==
    ASSUME Inv, NEW r \in Runs, Step(r), Alone(r), Written(r)
    PROVE  Written(r)'
  <1> DEFINE B == DISK_BLOCK_MB
  <1>0. /\ Typed /\ Typed' /\ Holds(r) /\ Holds(r)' /\ Written(r) /\ repeats' = repeats /\ room' = room
        /\ pc \in [Runs -> Places] /\ held \in [Runs -> SUBSET Files] /\ size \in [Files -> Nat]
        /\ plan \in [Runs -> Nat] /\ left \in [Runs -> Int] /\ wear \in [Runs -> Nat]
        /\ rep \in [Runs -> 0 .. Most] /\ result \in [Runs -> {"none", "ok", "skipped", "interrupted"}]
        /\ pc[r] # "killed"
    BY Frame, OwnStep, EntriesStep DEF Inv, OwnInv, Typed, Apart
  <1>a. /\ room \in Nat /\ plan[r] \in Nat /\ rep[r] \in Nat /\ wear[r] \in Nat /\ left[r] \in Int
        /\ repeats[r] \in Nat /\ rep[r] * plan[r] \in Nat /\ B \in Nat \ {0}
        /\ Free \in Int /\ Free >= 0
    <2>1. room \in Nat /\ plan[r] \in Nat /\ rep[r] \in Nat /\ wear[r] \in Nat /\ left[r] \in Int
      BY <1>0, MostFacts DEF Typed
    <2>2. repeats[r] \in 1 .. Most /\ Most \in Nat
      BY <1>0, MostFacts DEF Typed
    <2>3. Free \in Int /\ Free >= 0
      BY <1>0, SpaceFacts DEF Inv, SpaceInv
    <2> QED
      BY <2>1, <2>2, <2>3, Products, LimitsAssumption
  <1>1. CASE Start(r)
    <2>1. pc[r] = "idle" /\ pc'[r] = "stat" /\ UNCHANGED <<entries, held>>
      BY <1>0, <1>1 DEF Start, Goto
    <2> QED
      BY <1>0, <2>1 DEF Written
  <1>2. CASE Stat(r)
    <2> DEFINE total == FileTotal(safe_disk_mb(Requested, Free, repeats[r]))
    <2>1. pc[r] = "stat" /\ UNCHANGED <<entries, held>>
      BY <1>2 DEF Stat, fileVars
    <2>2. CASE dir /\ Fits(total, Free)
      <3>1. pc'[r] = "glob" /\ plan'[r] = total
        BY <1>0, <1>2, <2>2 DEF Stat, Goto
      <3>2. Free = room
        BY <1>0, <2>1, AloneFree DEF Holds, Busy, JobBusy
      <3>3. 3 * total <= 2 * room /\ Blocks(total)
        BY <1>0, <1>a, <2>2, <3>2, SizeFacts DEF Fits
      <3> QED
        BY <1>0, <2>1, <3>1, <3>3 DEF Written
    <2>3. CASE ~ (dir /\ Fits(total, Free))
      <3>1. pc'[r] \in {"rmdir", "job"} /\ result'[r] = "skipped"
        BY <1>0, <1>2, <2>3 DEF Stat, Goto, Return, AfterTest
      <3> QED
        BY <1>0, <2>1, <3>1 DEF Written
    <2> QED
      BY <2>2, <2>3
  <1>3. CASE Glob(r)
    <2>1. pc[r] = "glob" /\ pc'[r] = "clean" /\ UNCHANGED <<entries, held, plan>>
      BY <1>0, <1>3 DEF Glob, Goto, fileVars
    <2> QED
      BY <1>0, <2>1 DEF Written
  <1>4. CASE Clean(r)
    <2>1. /\ pc[r] = "clean" /\ pc'[r] \in {"clean", "create"} /\ UNCHANGED <<held, plan, wear, rep, result>>
          /\ entries' \subseteq entries
      BY <1>0, <1>4 DEF Clean, Goto
    <2>2. held[r] = {} /\ entries = {} /\ rep[r] = 0 /\ wear[r] = 0 /\ result[r] = "none"
      BY <1>0, <2>1 DEF Written, Holds, Busy, JobBusy
    <2>3. wear[r] = rep[r] * plan[r]
      BY <1>a, <2>2, Products
    <2> QED
      BY <1>0, <2>1, <2>2, <2>3 DEF Written
  <1>5. CASE Create(r)
    <2>1. pc[r] = "create" /\ UNCHANGED <<plan, wear, size>>
      BY <1>5 DEF Create
    <2>2. held[r] = {} /\ entries = {} /\ wear[r] = rep[r] * plan[r] /\ result[r] = "none"
      BY <1>0, <2>1 DEF Written, Holds, Busy, JobBusy
    <2>3. CASE dir
      <3> DEFINE f == Temp(r, rep[r] + 1)
      <3>1. /\ pc'[r] = "write" /\ entries' = {f} /\ held'[r] = {f} /\ result' = result
            /\ rep'[r] = rep[r] + 1 /\ left'[r] = plan[r]
        BY <1>0, <1>5, <2>2, <2>3 DEF Create, Goto
      <3>2. size[f] = 0
        <4>1. rep[r] + 1 \in 1 .. Most /\ rep[r] + 1 > rep[r]
          <5>1. rep[r] + 1 \in 0 .. Most
            BY <1>0, <3>1 DEF Typed, Most
          <5> QED
            BY <1>a, <5>1, MostFacts
        <4> QED
          BY <4>1 DEF Inv, SpaceInv, Unwritten
      <3>3. (rep[r] + 1) * plan[r] = rep[r] * plan[r] + plan[r]
        BY <1>a, Products
      <3>4. wear[r] = (rep[r] + 1) * plan[r] - plan[r] /\ size[f] = plan[r] - plan[r] /\ plan[r] \in 0 .. plan[r]
        BY <1>a, <2>2, <3>2, <3>3
      <3>5. Temp(r, rep[r])' = f
        BY <3>1 DEF Temp
      <3> QED
        BY <1>0, <2>1, <2>2, <3>1, <3>4, <3>5 DEF Written
    <2>4. CASE ~dir
      <3>1. pc'[r] \in {"rmdir", "job"} /\ result'[r] = "skipped" /\ UNCHANGED <<entries, held>>
        BY <1>0, <1>5, <2>4 DEF Create, Goto, Return, AfterTest
      <3> QED
        BY <1>0, <2>1, <2>2, <3>1 DEF Written
    <2> QED
      BY <2>3, <2>4
  <1>6. CASE Write(r)
    <2> DEFINE f == Temp(r, rep[r])
    <2>1. /\ pc[r] = "write" /\ UNCHANGED <<pc, held, entries, plan, rep, result>> /\ left[r] > 0
          /\ size' = [x \in Files |-> size[x] + IF x \in held[r] THEN Moved ELSE 0]
          /\ wear' = [wear EXCEPT ![r] = @ + Moved] /\ left' = [left EXCEPT ![r] = @ - B]
      BY <1>6 DEF Write
    <2>2. /\ held[r] = {f} /\ left[r] \in 0 .. plan[r] /\ Blocks(left[r])
          /\ size[f] = plan[r] - left[r] /\ wear[r] = rep[r] * plan[r] - left[r] /\ 3 * plan[r] <= 2 * room
      BY <1>0, <2>1 DEF Written, Holds, Busy
    <2>3. left[r] >= B /\ Blocks(left[r] - B)
      <3>1. left[r] \in Nat
        BY <1>a, <2>1
      <3> QED
        BY <2>1, <2>2, <3>1, BlockFacts
    <2>4. Moved = B
      <3>1. Free = room - size[f]
        BY <1>0, <2>2, AloneFree
      <3>2. Free >= B
        BY <1>a, <2>2, <2>3, <3>1
      <3> QED
        BY <1>0, <1>a, <3>2, MovedFacts
    <2>5. f \in Files
      BY <1>0, <2>2
    <2>6. size'[f] = size[f] + B /\ wear'[r] = wear[r] + B /\ left'[r] = left[r] - B
      BY <1>0, <2>1, <2>2, <2>4, <2>5
    <2>7. /\ left'[r] \in 0 .. plan[r] /\ size'[f] = plan[r] - left'[r]
          /\ wear'[r] = rep[r] * plan[r] - left'[r]
      BY <1>a, <2>2, <2>3, <2>6
    <2>8. Temp(r, rep[r])' = f
      BY <2>1 DEF Temp
    <2> QED
      BY <1>0, <2>1, <2>3, <2>6, <2>7, <2>8 DEF Written
  <1>7. CASE Fsync(r) \/ Read(r) \/ Fail(r)
    <2>1. /\ pc[r] \in {"write", "read"} /\ UNCHANGED <<entries, held, plan, rep, size, wear>>
          /\ \/ result' = result /\ pc'[r] = "read" /\ pc[r] = "write" /\ left[r] <= 0
             \/ result' = result /\ pc'[r] = "close" /\ pc[r] = "read"
             \/ result'[r] = "skipped" /\ pc'[r] = "close"
      BY <1>0, <1>7 DEF Fsync, Read, Fail, Goto, Return, runVars, fileVars
    <2>2. size[Temp(r, rep[r])] <= plan[r]
      <3>1. pc[r] = "write" => left[r] \in 0 .. plan[r] /\ size[Temp(r, rep[r])] = plan[r] - left[r]
        BY <1>0 DEF Written
      <3>2. pc[r] = "read" => size[Temp(r, rep[r])] <= plan[r]
        BY <1>0 DEF Written
      <3> QED
        BY <1>a, <2>1, <3>1, <3>2
    <2>3. left[r] <= 0 /\ pc[r] = "write" => wear[r] = rep[r] * plan[r]
      <3>1. pc[r] = "write" => left[r] \in 0 .. plan[r] /\ wear[r] = rep[r] * plan[r] - left[r]
        BY <1>0 DEF Written
      <3> QED
        BY <1>a, <3>1
    <2>4. Temp(r, rep[r])' = Temp(r, rep[r])
      BY <2>1 DEF Temp
    <2> QED
      BY <1>0, <2>1, <2>2, <2>3, <2>4 DEF Written
  <1>8. CASE KeyboardInterrupt(r)
    <2>1. /\ UNCHANGED <<entries, held, plan, rep, size, wear>> /\ result'[r] = "interrupted"
          /\ \/ pc[r] \in {"write", "read"} /\ pc'[r] = "close"
             \/ pc'[r] = "jobclose"
      BY <1>0, <1>8 DEF KeyboardInterrupt, Goto, Return, fileVars
    <2>2. pc[r] \in {"write", "read"} => size[Temp(r, rep[r])] <= plan[r]
      <3>1. pc[r] = "write" => left[r] \in 0 .. plan[r] /\ size[Temp(r, rep[r])] = plan[r] - left[r]
        BY <1>0 DEF Written
      <3>2. pc[r] = "read" => size[Temp(r, rep[r])] <= plan[r]
        BY <1>0 DEF Written
      <3> QED
        BY <1>a, <3>1, <3>2
    <2>3. Temp(r, rep[r])' = Temp(r, rep[r])
      BY <2>1 DEF Temp
    <2> QED
      BY <1>0, <2>1, <2>2, <2>3 DEF Written
  <1>9. CASE Close(r)
    <2>1. /\ pc[r] = "close" /\ entries' = entries \ held[r] /\ held'[r] = {} /\ UNCHANGED <<plan, rep, wear>>
          /\ \/ result[r] = "none" /\ pc'[r] = "create" /\ result' = result
             \/ result[r] = "none" /\ ~ RepeatsLeft(r) /\ pc'[r] \in {"rmdir", "job"}
             \/ result[r] # "none" /\ result' = result /\ pc'[r] \in {"rmdir", "job", "ended"}
      BY <1>0, <1>9 DEF Close, Dropped, Goto, AfterTest
    <2>2. entries' = {} /\ result[r] # "ok" /\ (result[r] = "none" => wear[r] = rep[r] * plan[r])
      BY <1>0, <2>1 DEF Written
    <2>3. ~ RepeatsLeft(r) => rep[r] = repeats[r]
      <3>1. rep[r] <= repeats[r]
        BY <1>0 DEF Holds
      <3> QED
        BY <1>a, <3>1 DEF RepeatsLeft
    <2>4. 3 * plan[r] <= 2 * room /\ Blocks(plan[r])
      BY <1>0, <2>1 DEF Written
    <2> QED
      BY <1>0, <2>1, <2>2, <2>3, <2>4 DEF Written
  <1>10. CASE Rmdir(r) \/ JobFill(r) \/ JobWrite(r) \/ JobStop(r)
    <2>1. /\ pc'[r] \in {"ended", "run", "jobclose", "fill"} /\ UNCHANGED <<entries, held>>
      BY <1>0, <1>10 DEF Rmdir, JobFill, JobWrite, JobStop, Goto, runVars, fileVars
    <2> QED
      BY <1>0, <2>1 DEF Written
  <1>11. CASE JobOpen(r)
    <2>1. pc[r] = "job" /\ pc'[r] \in {"ended", "fill"}
      BY <1>0, <1>11 DEF JobOpen, Goto
    <2>2. held[r] = {} /\ entries = {}
      BY <1>0, <2>1 DEF Written, Holds, Busy, JobBusy
    <2>3. entries' = held'[r]
      BY <1>0, <1>11, <2>2 DEF JobOpen
    <2> QED
      BY <1>0, <2>1, <2>3 DEF Written
  <1>12. CASE JobClose(r)
    <2>1. pc'[r] = "ended" /\ entries' = entries \ held[r] /\ held'[r] = {}
      BY <1>0, <1>12 DEF JobClose, Goto
    <2>2. entries' = {}
      BY <1>0, <2>1 DEF Written
    <2> QED
      BY <1>0, <2>1, <2>2 DEF Written
  <1>13. CASE Kill(r)
    <2>1. pc'[r] = "killed"
      BY <1>0, <1>13 DEF Kill, Goto
    <2> QED
      BY <2>1 DEF Written
  <1> QED
    BY <1>1, <1>2, <1>3, <1>4, <1>5, <1>6, <1>7, <1>8, <1>9, <1>10, <1>11, <1>12, <1>13 DEF Step, BenchDisk, RunJob

(* No step makes a run idle.                                               *)
LEMMA IdleNoMore ==
    ASSUME Inv, NEW r \in Runs, Step(r)
    PROVE  pc'[r] # "idle"
  <1>0. pc \in [Runs -> Places]
    BY DEF Inv, Typed
  <1>1. CASE Start(r) \/ BenchDisk(r)
    <2>1. CASE Start(r) \/ Stat(r) \/ Glob(r) \/ Clean(r) \/ Create(r)
      BY <1>0, <2>1 DEF Start, Stat, Glob, Clean, Create, Goto, AfterTest
    <2>2. CASE Write(r) \/ Fsync(r) \/ Read(r) \/ Fail(r) \/ Close(r)
      BY <1>0, <2>2 DEF Write, Fsync, Read, Fail, Close, Goto, AfterTest
    <2> QED
      BY <1>1, <2>1, <2>2 DEF BenchDisk
  <1>2. CASE Rmdir(r) \/ RunJob(r) \/ KeyboardInterrupt(r) \/ Kill(r)
    BY <1>0, <1>2 DEF Rmdir, RunJob, JobOpen, JobFill, JobWrite, JobStop, JobClose, KeyboardInterrupt, Kill, Goto
  <1> QED
    BY <1>1, <1>2 DEF Step

(* The account of a run alone holds always.                                *)
LEMMA AloneHolds == Spec => []AloneInv
  <1>1. Init => AloneInv
    <2> SUFFICES ASSUME Init, NEW r \in Runs PROVE Written(r)
      BY DEF AloneInv
    <2>1. pc[r] = "idle" /\ entries = {} /\ held[r] = {}
      BY DEF Init
    <2> QED
      BY <2>1 DEF Written
  <1>2. Inv /\ AloneInv /\ [Next]_vars => AloneInv'
    <2> SUFFICES ASSUME Inv, AloneInv, [Next]_vars, NEW r \in Runs, Alone(r)' PROVE Written(r)'
      BY DEF AloneInv
    <2>1. ASSUME NEW q \in Runs, Step(q) PROVE Written(r)'
      <3>1. q = r
        BY <2>1, IdleNoMore DEF Alone
      <3>2. Alone(r)
        BY <2>1, <3>1, Frame DEF Alone, Apart
      <3> QED
        BY <2>1, <3>1, <3>2, WrittenStep DEF AloneInv
    <2>2. ASSUME UNCHANGED <<pc, runVars, entries, size, dir, room, workdir, repeats>> PROVE Written(r)'
      <3>1. Alone(r)
        BY <2>2 DEF Alone
      <3>2. Written(r)
        BY <3>1 DEF AloneInv
      <3> QED
        BY <2>2, <3>2 DEF Written, Temp, runVars
    <2> QED
      BY <2>1, <2>2, NextIsAStep DEF Inv
  <1> QED
    BY <1>1, <1>2, InvHolds, PTL DEF Spec

(* A run alone keeps the headroom it was given.                            *)
THEOREM HeadroomStays == Spec => []HeadroomKept
  <1>1. Inv /\ AloneInv => HeadroomKept
    <2> SUFFICES ASSUME Inv, AloneInv, NEW r \in Runs, Alone(r),
                        pc[r] \in {"create", "write", "read", "close"}
                 PROVE  2 * Free >= plan[r]
      BY DEF HeadroomKept, Alone
    <2>1. Written(r) /\ Holds(r) /\ pc[r] # "killed"
      BY DEF AloneInv, Inv, OwnInv
    <2>2. 3 * plan[r] <= 2 * room
      BY <2>1 DEF Written
    <2>3. plan[r] \in Nat /\ room \in Nat /\ left[r] \in Int
      BY DEF Inv, Typed
    <2>4. CASE pc[r] = "create"
      <3>1. Free = room
        BY <2>1, <2>4, AloneFree DEF Holds, Busy, JobBusy
      <3> QED
        BY <2>2, <2>3, <3>1
    <2>5. CASE pc[r] \in Busy
      <3>1. held[r] = {Temp(r, rep[r])}
        BY <2>1, <2>5 DEF Holds
      <3>2. Free = room - size[Temp(r, rep[r])]
        BY <2>1, <3>1, AloneFree
      <3>3. size[Temp(r, rep[r])] \in Nat
        BY <3>1 DEF Inv, Typed
      <3>4. size[Temp(r, rep[r])] <= plan[r]
        <4>1. CASE pc[r] = "write"
          <5>1. left[r] \in 0 .. plan[r] /\ size[Temp(r, rep[r])] = plan[r] - left[r]
            BY <2>1, <4>1 DEF Written
          <5> QED
            BY <2>3, <5>1
        <4>2. CASE pc[r] # "write"
          BY <2>1, <2>5, <4>2 DEF Written, Busy
        <4> QED
          BY <4>1, <4>2
      <3> QED
        BY <2>2, <2>3, <3>2, <3>3, <3>4
    <2> QED
      BY <2>4, <2>5 DEF Busy
  <1> QED
    BY <1>1, InvHolds, AloneHolds, PTL

(* A run alone that has a result has written all of every repeat.          *)
THEOREM OkMeansWritten == Spec => []OkWroteEverything
  <1>1. AloneInv => OkWroteEverything
    BY DEF AloneInv, Alone, Written, OkWroteEverything
  <1> QED
    BY <1>1, AloneHolds, PTL
=============================================================================
