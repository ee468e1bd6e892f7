------------------------------ MODULE Engines ------------------------------
(***************************************************************************)
(* The native helpers: native_engine.c (native.py), accel_engine.m         *)
(* (accel.py), sensors_engine.m (thermal.py) and smart_engine.c            *)
(* (drivelife.py). Each is compiled beside its source when it is not there *)
(* or older than it, and then run, by as many runs of the program as there *)
(* are at the time.                                                        *)
(***************************************************************************)
EXTENDS Naturals

CONSTANTS
    Callers,        \* processes that call run or read
    MaxClock,       \* bound: ticks of the file system's clock
    MaxCompilers    \* compilers on the PATH, at most

VARIABLES
    engine,     \* which of the four
    compilers,  \* how many compilers are there to try
    clock,
    source,     \* the source file: its version, and when it was written
    binary,     \* the executable: the version it was made of, whole or not
    at,         \* where each caller is
    tried,      \* compilers it has tried
    looked,     \* the version of the source when it looked
    ran,        \* the version of the engine it ran
    outcome     \* what its call gave

vars == <<engine, compilers, clock, source, binary, at, tried, looked, ran, outcome>>
files == <<engine, compilers, clock, source, binary>>
answers == <<looked, ran, outcome>>

None == [version |-> 0, whole |-> FALSE, time |-> 0]

TypeOK ==
    /\ engine \in {"native", "accel", "sensors", "smart"} /\ compilers \in 0 .. MaxCompilers
    /\ clock \in 0 .. MaxClock
    /\ source \in [version : 0 .. MaxClock + 1, time : 0 .. MaxClock]
    /\ binary \in [version : 0 .. MaxClock + 1, whole : BOOLEAN, time : 0 .. MaxClock]
    /\ at \in [Callers -> {"idle", "build", "linking", "run", "answered"}]
    /\ tried \in [Callers -> 0 .. MaxCompilers]
    /\ looked \in [Callers -> 0 .. MaxClock + 1] /\ ran \in [Callers -> 0 .. MaxClock + 1]
    /\ outcome \in [Callers -> {"", "json", "error", "nothing", "raised"}]

Init ==
    /\ engine \in {"native", "accel", "sensors", "smart"} /\ compilers \in 0 .. MaxCompilers
    /\ clock = 0
    /\ source \in {[version |-> v, time |-> 0] : v \in {0, 1}}
    /\ binary \in {None, [version |-> 1, whole |-> TRUE, time |-> 0]}
    /\ at = [c \in Callers |-> "idle"] /\ tried = [c \in Callers |-> 0]
    /\ looked = [c \in Callers |-> 0] /\ ran = [c \in Callers |-> 0] /\ outcome = [c \in Callers |-> ""]

-----------------------------------------------------------------------------
Tick == clock < MaxClock /\ clock' = clock + 1 /\ UNCHANGED <<engine, compilers, source, binary, at, tried, answers>>

\* The sources are not edited under a compiler, nor twice in one tick of
\* their time stamps.
Edit ==
    /\ source.version > 0 /\ clock > source.time /\ clock > binary.time
    /\ \A c \in Callers : at[c] \notin {"build", "linking"}
    /\ source' = [version |-> source.version + 1, time |-> clock]
    /\ UNCHANGED <<engine, compilers, clock, binary, at, tried, answers>>

\* What a caller gives for what it could not do.
Silent == engine = "sensors"
Failure == IF Silent THEN "nothing" ELSE "error"
\* Only the helpers of thermal.py and drivelife.py are started under an
\* except OSError.
CannotStart == IF engine \in {"native", "accel"} THEN "raised" ELSE Failure
Answer(c, what) == at' = [at EXCEPT ![c] = "answered"] /\ outcome' = [outcome EXCEPT ![c] = what]

Absent == binary.version = 0
Stale == binary.version = 0 \/ binary.time < source.time

Look(c) ==
    /\ at[c] = "idle"
    /\ looked' = [looked EXCEPT ![c] = source.version]
    /\ tried' = [tried EXCEPT ![c] = 0]
    /\ IF source.version = 0
       THEN Answer(c, IF engine = "smart" THEN "error" ELSE "nothing")
       ELSE at' = [at EXCEPT ![c] = IF Stale THEN "build" ELSE "run"] /\ UNCHANGED outcome
    /\ UNCHANGED <<files, ran>>

\* native.build tries them all, the others the first.
Candidates == IF engine = "native" \/ compilers = 0 THEN compilers ELSE 1

NextCompiler(c) == at' = [at EXCEPT ![c] = "build"] /\ tried' = [tried EXCEPT ![c] = @ + 1]

\* A compiler that reports an error leaves what was there.
Rejects(c) ==
    /\ at[c] = "build" /\ tried[c] < Candidates
    /\ NextCompiler(c)
    /\ UNCHANGED <<files, answers>>

Compiles(c) ==
    /\ at[c] = "build" /\ tried[c] < Candidates
    /\ at' = [at EXCEPT ![c] = "linking"]
    /\ binary' = [version |-> source.version, whole |-> FALSE, time |-> clock]
    /\ UNCHANGED <<engine, compilers, clock, source, tried, answers>>

Links(c) ==
    /\ at[c] = "linking"
    /\ at' = [at EXCEPT ![c] = "run"]
    /\ binary' = [version |-> source.version, whole |-> TRUE, time |-> clock]
    /\ UNCHANGED <<engine, compilers, clock, source, tried, answers>>

\* By its 180 s (native.py), by the system, or with its terminal: what it
\* had written stays.
CompilerKilled(c) ==
    /\ at[c] = "linking"
    /\ NextCompiler(c)
    /\ UNCHANGED <<files, answers>>

NoneLeft(c) ==
    /\ at[c] = "build" /\ tried[c] = Candidates
    /\ Answer(c, Failure)
    /\ UNCHANGED <<files, tried, looked, ran>>

Runs(c) ==
    /\ at[c] = "run"
    /\ IF binary.whole
       THEN /\ \E what \in {"json", Failure} : Answer(c, what)
            /\ ran' = [ran EXCEPT ![c] = binary.version]
       ELSE Answer(c, CannotStart) /\ UNCHANGED ran
    /\ UNCHANGED <<files, tried, looked>>

Again(c) ==
    /\ at[c] = "answered"
    /\ at' = [at EXCEPT ![c] = "idle"]
    /\ looked' = [looked EXCEPT ![c] = 0] /\ ran' = [ran EXCEPT ![c] = 0] /\ outcome' = [outcome EXCEPT ![c] = ""]
    /\ UNCHANGED <<files, tried>>

Call(c) == Look(c) \/ Rejects(c) \/ Compiles(c) \/ Links(c) \/ CompilerKilled(c) \/ NoneLeft(c) \/ Runs(c) \/ Again(c)
Next == Tick \/ Edit \/ \E c \in Callers : Call(c)

-----------------------------------------------------------------------------
(* Figures come from an engine that was made of the source as it was when  *)
(* the caller looked, or of a later one: not from one that a failed build  *)
(* left, whoever else builds at the time.                                  *)
NoFiguresOfAnOldEngine ==
    \A c \in Callers : outcome[c] = "json" => ran[c] >= looked[c]

(* native.py 5-6, "captured and reported, never raised", and accel.py 444. *)
(* What a killed compiler left, or another run's linker is writing, is not *)
(* older than the source, and it cannot be started: OSError is in neither  *)
(* except.                                                                 *)
NeverRaised == \A c \in Callers : outcome[c] # "raised"

(* A helper that was cut short is made again. It is not.                   *)
CutShortIsMadeAgain ==
    (\A c \in Callers : at[c] # "linking") /\ binary.version > 0 => binary.whole \/ Stale
=============================================================================
