--------------------------- MODULE MCSubprocesses ---------------------------
(***************************************************************************)
(* The parts of the program that start processes or threads of their own,  *)
(* or infer from them what the machine is like, one at a time: main runs   *)
(* its sections one after the other, and each starts from nothing. subject *)
(* is the part that is looked at; the others stand still in one state.     *)
(***************************************************************************)
EXTENDS Naturals, Sequences, FiniteSets

CONSTANTS Workers, MaxWindows, ABORT, Burners, MaxSamples, Callers, MaxClock, MaxCompilers,
    Room, MaxUnits, Rounds, MaxFast, MaxSlow, SlowRates, LastRates, LinearPercent, HybridPercent,
    KneeTolerance, CoreCounts, Threshold, MaxTests, MaxQuarters, Selections, Budgets, Attempts, Seconds, Replies, Speeds, Noise, ENGAGE

VARIABLES
    subject,
    parallel, readable, duration, heat, spent, step, busy, killed, rates, measured, abort, summary,
    task, meter, pc, burner, ready, stop, reading, full, said, sampler, pending, samples, flags, joined, estimates, label,
    engine, compilers, clock, source, binary, at, tried, looked, ran, outcome,
    tiers, here, yes, system, nvidia, manager, own, venv, tools, stage, todo, ok, failed, skipped, exit,
    what, caller, helper, out, in, shut, sent, taken, ping, pong, late,
    fast, slow, smt, slowRate, lastRate, physical, workers, gains, cause,
    cores, load, foreign, test, over, before, quarters, disturbed, flagged,
    host, budget, section, result, broken, handshakes, refused, received, answered, uploaded, elapsed, shown,
    half, opencl, torch, gpus, providers, turn, timed, available, best, matmul, model, other

S == INSTANCE Sustained
P == INSTANCE Power
E == INSTANCE Engines
I == INSTANCE Installer
L == INSTANCE Loopback
C == INSTANCE Cores
F == INSTANCE Interference WITH ran <- over
N == INSTANCE Internet WITH stage <- section, sent <- uploaded, spent <- elapsed, ping <- shown
A == INSTANCE Accelerators WITH measured <- timed

ASSUME Bounds ==
    /\ Workers # {} /\ Burners # {}
    /\ MaxWindows \in Nat \ {0} /\ ABORT \in Nat \ {0}
    /\ MaxSamples \in Nat /\ MaxClock \in Nat /\ MaxCompilers \in Nat
    /\ MaxFast \in Nat \ {0} /\ MaxSlow \in Nat /\ CoreCounts \subseteq Nat \ {0}
    /\ SlowRates # {} /\ LastRates # {} /\ SlowRates \cup LastRates \subseteq 1 .. 100
    \* A second thread adds less than a core.
    /\ LinearPercent \in C!SiblingRate + 1 .. 100 /\ KneeTolerance \in 0 .. 1
    /\ HybridPercent \in Nat
    /\ Selections # {} /\ Selections \subseteq Seq(DOMAIN I!Tier) \ {<<>>}
    /\ Threshold \in Nat /\ Threshold >= 250
    /\ Budgets \subseteq Nat /\ Attempts \in Nat /\ Seconds \in Nat /\ Replies \subseteq Nat /\ Rounds \in Nat
    /\ Speeds \subseteq Nat \ {0} /\ Noise \subseteq Nat /\ ENGAGE \in Nat
    /\ \A n \in Noise : n < ENGAGE      \* the CPU does not pass for an accelerator

\* One tier, one named twice, two, and those that have a package in common.
SomeSelections ==
    {<<"compute">>, <<"ai">>, <<"gpu", "ai">>, <<"ai", "ai">>, <<"compute", "gpu", "data", "ai">>}

sustainedVars == <<parallel, readable, duration, heat, spent, step, busy, killed, rates, measured, abort, summary>>
powerVars ==
    <<task, meter, pc, burner, ready, stop, reading, full, said, sampler, pending, samples, flags, joined, estimates, label>>
enginesVars == <<engine, compilers, clock, source, binary, at, tried, looked, ran, outcome>>
installerVars == <<tiers, here, yes, system, nvidia, manager, own, venv, tools, stage, todo, ok, failed, skipped, exit>>
loopbackVars == <<what, caller, helper, out, in, shut, sent, taken, ping, pong, late>>
coresVars == <<fast, slow, smt, slowRate, lastRate, physical, workers, gains, cause>>
testsVars == <<cores, load, foreign, test, over, before, quarters, disturbed, flagged>>
internetVars == <<host, budget, section, result, broken, handshakes, refused, received, answered, uploaded, elapsed, shown>>
acceleratorsVars == <<half, opencl, torch, gpus, providers, turn, timed, available, best, matmul, model, other>>
vars ==
    <<subject, sustainedVars, powerVars, enginesVars, installerVars, loopbackVars, coresVars, testsVars, internetVars,
      acceleratorsVars>>

SustainedStill == ~parallel /\ ~readable /\ duration = 1 /\ heat = 0
PowerStill == task = "load" /\ meter = "none"
EnginesStill == engine = "native" /\ compilers = 0 /\ source.version = 0 /\ binary = E!None
InstallerStill ==
    tiers = (CHOOSE s \in Selections : TRUE) /\ ~here /\ ~yes /\ system = "no" /\ ~nvidia /\ ~manager /\ ~tools /\ own = {} /\ venv = {}

LoopbackStill == what = "latency"
CoresStill == fast = 1 /\ slow = 0 /\ ~smt /\ slowRate = (CHOOSE r \in SlowRates : TRUE) /\ lastRate = (CHOOSE r \in LastRates : TRUE) /\ physical = 0
TestsStill == cores = CHOOSE n \in CoreCounts : TRUE
InternetStill == host = "none" /\ budget = CHOOSE n \in Budgets : TRUE
AcceleratorsStill ==
    half = "npu" /\ opencl = "absent" /\ torch = "none" /\ gpus = <<>> /\ providers = <<>> /\ model = "none"

Init ==
    /\ subject \in {"sustained", "power", "engines", "installer", "loopback", "cores", "tests", "internet",
                   "accelerators"}
    /\ S!Init /\ (subject # "sustained" => SustainedStill)
    /\ P!Init /\ (subject # "power" => PowerStill)
    /\ E!Init /\ (subject # "engines" => EnginesStill)
    /\ I!Init /\ (subject # "installer" => InstallerStill)
    /\ L!Init /\ (subject # "loopback" => LoopbackStill)
    /\ C!Init /\ (subject # "cores" => CoresStill)
    /\ F!Init /\ (subject # "tests" => TestsStill)
    /\ N!Init /\ (subject # "internet" => InternetStill)
    /\ (subject # "accelerators" => AcceleratorsStill) /\ A!Init

Others(s) ==
    /\ UNCHANGED subject
    /\ s # "sustained" => UNCHANGED sustainedVars
    /\ s # "power" => UNCHANGED powerVars
    /\ s # "engines" => UNCHANGED enginesVars
    /\ s # "installer" => UNCHANGED installerVars
    /\ s # "loopback" => UNCHANGED loopbackVars
    /\ s # "cores" => UNCHANGED coresVars
    /\ s # "tests" => UNCHANGED testsVars
    /\ s # "internet" => UNCHANGED internetVars
    /\ s # "accelerators" => UNCHANGED acceleratorsVars

Sustains == subject = "sustained" /\ S!Next /\ Others("sustained")
Meters == subject = "power" /\ P!Next /\ Others("power")
Builds == subject = "engines" /\ E!Next /\ Others("engines")
Installs == subject = "installer" /\ I!Next /\ Others("installer")
HandsOver == subject = "loopback" /\ L!Next /\ Others("loopback")
Counts == subject = "cores" /\ C!Next /\ Others("cores")
Samples == subject = "tests" /\ F!Next /\ Others("tests")
Reaches == subject = "internet" /\ N!Next /\ Others("internet")
Accelerates == subject = "accelerators" /\ A!Next /\ Others("accelerators")

Next == Sustains \/ Meters \/ Builds \/ Installs \/ HandsOver \/ Counts \/ Samples \/ Reaches \/ Accelerates
Spec == Init /\ [][Next]_vars

Sustaining(a) == subject = "sustained" /\ a /\ Others("sustained")
Metering(a) == subject = "power" /\ a /\ Others("power")
Handing(a) == subject = "loopback" /\ a /\ Others("loopback")

\* Processes that can run do; nothing makes the heat change, a worker die
\* or the user interrupt.
FairSpec ==
    /\ Spec
    /\ WF_vars(Sustaining(S!Load))
    /\ \A w \in Workers : WF_vars(Sustaining(S!Share(w)))
    /\ WF_vars(Metering(P!UnderLoad))
    /\ \A b \in Burners : WF_vars(Metering(P!Burner(b)))
    /\ WF_vars(Handing(L!Caller)) /\ WF_vars(Handing(L!Helper))

-----------------------------------------------------------------------------
(* Every window that a sustained load completed is in the result that it   *)
(* returns, also where heat or the clock ended it (sustained.py 121-142,   *)
(* 169-184). Interrupted by the user, it returns none.                     *)
AbortCostsNothing == S!AbortCostsNothing

(* A power figure says what it is: of a load that was not all there        *)
(* (power.py 281-289), or integrated from estimates (388).                 *)
PowerSaysWhatItIs == P!FullLoadOrSaid /\ P!EstimateIsSaid

(* A figure is of what it names: the engine of this source (native.py      *)
(* 157), the discrete card where there is one (gpucompute.py 122-135), an  *)
(* accelerator that ran and not the CPU in its place (npu.py 185-239).     *)
FiguresAreOfWhatTheyName == E!NoFiguresOfAnOldEngine /\ A!DiscreteIsScored /\ A!EngagedRan

(* One package that cannot be had costs one package, one measurement over  *)
(* the internet one measurement, one GPU one device (install.py 136-168,   *)
(* network.py 775-796, gpucompute.py 395-405).                             *)
OneFailureCostsOne == I!OneFailureCostsOne /\ N!OneFailureCostsOne /\ A!OneFailureCostsOne

(* What an internet test downloads, and what it uploads, have a limit      *)
(* each, whatever the server sends and the link does; the answers to an    *)
(* upload have none (network.py 656-740).                                  *)
TrafficIsCapped == N!TrafficIsCapped

(* What is timed between two threads was handed over: the bytes that a     *)
(* throughput counts, and every turn of a round trip (network.py 56-66,    *)
(* 116-120; sysbench.py 184-196).                                          *)
TimedIsHandedOver == L!CountedIsDrained /\ L!TurnsAlternate

(* What the program says slows it down is there: the second threads or the *)
(* slower cores, unless the last fast core is as slow as one, that the     *)
(* scaling curve is explained by, and whatever else disturbed a test       *)
(* (cores.py 157-169, interference.py 72-88).                              *)
BlameIsFounded == C!CauseIsReal /\ F!BlameNeedsACulprit

(* What a section starts comes to its end (sustained.py 167-184, power.py  *)
(* 290-295, sysbench.py 183-196).                                          *)
WhatIsStartedEnds ==
    /\ subject = "sustained" => S!LoadEnds
    /\ subject = "power" => P!NoBurnerIsLeft
    /\ subject = "loopback" => L!LoopbackEnds
=============================================================================
