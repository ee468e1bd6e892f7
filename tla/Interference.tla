---------------------------- MODULE Interference ----------------------------
(***************************************************************************)
(* interference.py and the loop of main that uses it: the load average     *)
(* before and after each test, and the test that is flagged because it     *)
(* rose. Time passes in quarter minutes, in which the average of a minute  *)
(* moves 22 % of the way to the number of threads that run. Loads are in   *)
(* thousandths. Temperatures are left out.                                 *)
(***************************************************************************)
EXTENDS Naturals

CONSTANTS
    CoreCounts,     \* sizes of the machine
    Threshold,      \* LOAD_DELTA_THRESHOLD, in thousandths per core
    MaxTests,       \* bound: tests of a run
    MaxQuarters     \* bound: quarter minutes a test takes

VARIABLES
    cores,
    load,       \* os.getloadavg()[0]
    foreign,    \* threads of something else
    test,       \* what runs, or "none"
    ran,        \* tests that are over
    before,     \* the sample taken before it
    quarters,   \* time it has taken
    disturbed,  \* something foreign ran during it
    flagged     \* the test whose result says so, or "none"

vars == <<cores, load, foreign, test, ran, before, quarters, disturbed, flagged>>

Tests == {"cpu_int", "cpu_multi", "video"}
WithoutMulti == {"cores", "mem_scaling", "memory", "disk"}
SaturatingTests == {"cpu_multi", "cores", "mem_scaling", "memory", "disk"}
SELF_PARALLEL_TESTS == SaturatingTests

\* video runs an encoder, which has as many threads as there are cores.
Threads == IF test = "cpu_int" THEN 1 ELSE cores

Init ==
    /\ cores \in CoreCounts /\ load = 0 /\ foreign = 0
    /\ test = "none" /\ ran = 0 /\ before = 0 /\ quarters = 0
    /\ disturbed = FALSE /\ flagged = "none"

Begin ==
    /\ test = "none" /\ ran < MaxTests
    /\ test' \in Tests
    /\ before' = load
    /\ quarters' = 0 /\ disturbed' = FALSE /\ flagged' = "none"
    /\ UNCHANGED <<cores, load, foreign, ran>>

Quarter ==
    /\ test # "none" /\ quarters < MaxQuarters
    /\ load' = (78 * load + 22 * 1000 * (Threads + foreign)) \div 100
    /\ quarters' = quarters + 1
    /\ disturbed' = (disturbed \/ foreign > 0)
    /\ UNCHANGED <<cores, foreign, test, ran, before, flagged>>

\* compare_samples: of a test that loads every core itself a rise says nothing.
Rose == load > before + Threshold * cores /\ test \notin SELF_PARALLEL_TESTS

\* A test that raises has no verdict.
End(failed) ==
    /\ test # "none"
    /\ flagged' = IF Rose /\ ~failed THEN test ELSE "none"
    /\ test' = "none" /\ ran' = ran + 1
    /\ UNCHANGED <<cores, load, foreign, before, quarters, disturbed>>

Foreign ==
    /\ foreign' = IF foreign = 0 THEN cores ELSE 0
    /\ UNCHANGED <<cores, load, test, ran, before, quarters, disturbed, flagged>>

Next == Begin \/ Quarter \/ End(TRUE) \/ End(FALSE) \/ Foreign

-----------------------------------------------------------------------------
(* A test that is said to have been disturbed was (interference.py 84-88), *)
(* if the machine is not so small that one thread is a quarter of it, and  *)
(* if the test is not the encoder.                                         *)
BlameNeedsACulprit == flagged \notin {"none", "video"} /\ cores >= 4 => disturbed

-----------------------------------------------------------------------------
(* "Tests that spawn a worker per core raise the load average themselves"  *)
(* (interference.py 21): video is not among those that are exempt.         *)
NoneBlamesItself == flagged # "none" => disturbed
=============================================================================
