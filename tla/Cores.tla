------------------------------- MODULE Cores -------------------------------
(***************************************************************************)
(* cores.py: the layout of a processor as classify_cores infers it from    *)
(* what each further worker adds to the throughput. Workers land on fast   *)
(* cores first, then on slow ones, then on second threads of the fast      *)
(* ones. Rates are percent of what one worker alone gets.                  *)
(***************************************************************************)
EXTENDS Naturals, Sequences, FiniteSetsExt

CONSTANTS
    MaxFast, MaxSlow,   \* bounds: cores of either kind
    SlowRates,          \* what a slow core may do
    LastRates,          \* what the last fast core may add
    LinearPercent,      \* LINEAR_SCALING_RATIO
    HybridPercent,      \* HYBRID_DROP_RATIO
    KneeTolerance       \* SMT_KNEE_TOLERANCE

VARIABLES
    fast, slow, smt,    \* the machine
    slowRate,           \* what a slow core does
    lastRate,           \* what the last fast core adds, which shares the caches
    physical,           \* the number of cores that is detected; 0 is None
    workers,            \* the points of the curve that are measured
    gains,
    cause

vars == <<fast, slow, smt, slowRate, lastRate, physical, workers, gains, cause>>

SiblingRate == 30
Siblings == IF smt THEN fast ELSE 0
Logical == fast + slow + Siblings

\* A machine, what is known of its cores, and as many points as it has
\* logical cores or the run is confined to.
Init ==
    /\ fast \in 1 .. MaxFast /\ slow \in 0 .. MaxSlow /\ smt \in BOOLEAN
    /\ slowRate \in SlowRates /\ lastRate \in LastRates
    /\ physical \in {0, fast + slow}
    /\ workers \in 1 .. Logical
    /\ gains = <<>> /\ cause = "unknown"

Lands(n) == IF n <= fast THEN "fast" ELSE IF n <= fast + slow THEN "slow" ELSE "sibling"
Adds(n) ==
    CASE Lands(n) = "slow" -> slowRate
      [] Lands(n) = "sibling" -> SiblingRate
      [] OTHER -> IF n = fast /\ n > 1 THEN lastRate ELSE 100

\* A pool of one more worker.
Measure ==
    /\ cause = "unknown" /\ Len(gains) < workers
    /\ gains' = Append(gains, Adds(Len(gains) + 1))
    /\ UNCHANGED <<fast, slow, smt, slowRate, lastRate, physical, workers, cause>>

-----------------------------------------------------------------------------
(* classify_cores.                                                         *)

LinearGain(g) == 100 * g >= LinearPercent * gains[1]
Linear == CHOOSE n \in 0 .. Len(gains) :
             /\ \A i \in 1 .. n : LinearGain(gains[i])
             /\ n = Len(gains) \/ ~LinearGain(gains[n + 1])

\* The workers of the two groups, and what a group adds.
TheFast == {n \in DOMAIN gains : LinearGain(gains[n])}
TheSlow == {n \in DOMAIN gains : ~LinearGain(gains[n])}
Gain(group) == MapThenSumSet(LAMBDA n : gains[n], group)

\* The averages of the two groups, compared without a division.
Hybrid ==
    /\ TheSlow # {}
    /\ 100 * Gain(TheSlow) * Cardinality(TheFast) < HybridPercent * Gain(TheFast) * Cardinality(TheSlow)

SmtCapable == physical # 0 /\ Logical > physical
AnyKnee == physical # 0
KneeAtPhysical == physical # 0 /\ Linear <= physical + KneeTolerance /\ physical <= Linear + KneeTolerance
Knee == KneeAtPhysical

Classify ==
    /\ cause = "unknown" /\ Len(gains) = workers
    /\ cause' = CASE workers < 2 -> "too few"
                  [] workers >= 2 /\ TheSlow # {} /\ SmtCapable -> IF Knee THEN "smt" ELSE "ambiguous"
                  [] workers >= 2 /\ Hybrid /\ ~SmtCapable -> "hybrid"
                  [] OTHER -> "uniform"
    /\ UNCHANGED <<fast, slow, smt, slowRate, lastRate, physical, workers, gains>>

Next == Measure \/ Classify

-----------------------------------------------------------------------------
\* The workers on cores of a kind whose gain was not that of a full core.
Slowed(kind) == {n \in TheSlow : Lands(n) = kind}

(* "Guessing is worse than declining to guess" (cores.py 155): of a        *)
(* machine whose cores are known and all measured, second threads are not  *)
(* taken for slower cores, and slower cores are claimed where there are    *)
(* some, or where the last fast one adds less than HYBRID_DROP_RATIO, as   *)
(* it may (cores.py 101-110). Second threads are claimed where at least    *)
(* half of the slower workers ran on one.                                  *)
CauseIsReal ==
    physical # 0 /\ workers = Logical =>
        /\ cause = "hybrid" => ~smt /\ (Slowed("slow") # {} \/ lastRate < HybridPercent)
        /\ cause = "smt" => smt /\ Cardinality(Slowed("sibling")) >= Cardinality(Slowed("slow")) + Cardinality(Slowed("fast"))

-----------------------------------------------------------------------------
(* The same of every machine. A last core that adds 2.56 where the first   *)
(* adds 4.42 (cores.py 107), with no slower ones after it, makes a uniform *)
(* machine a hybrid one. Where the cores cannot be counted, second threads *)
(* pass for slower cores "with no SMT on this machine" (cores.py 201);     *)
(* where a run is confined to the physical cores, a last core that shares  *)
(* its caches passes for a second thread.                                  *)
NoFalseHybrid == cause = "hybrid" => Slowed("slow") # {}
NoFalseSmt == cause = "smt" => Slowed("sibling") # {}
=============================================================================
