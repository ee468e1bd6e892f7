------------------------------- MODULE Power -------------------------------
(***************************************************************************)
(* power.py: measure_under_load reads the power while one process per core *)
(* burns, and energy_to_solution integrates what a sampler thread reads    *)
(* while some work is done.  measure itself answers with a real reading or *)
(* falls back to an estimate, and can do either from one call to the next. *)
(***************************************************************************)
EXTENDS Naturals, Sequences, FiniteSets, SequencesExt

CONSTANTS
    Burners,        \* the processes of measure_under_load
    MaxSamples      \* bound: readings of the sampler

VARIABLES
    task,       \* "load" or "energy"
    meter,      \* what the platform has: "counter" (RAPL), "gauge" (powermetrics), "none"
    pc,         \* the caller
    burner,     \* each process: new, starting, spinning, ended
    ready,      \* ready events that are set
    stop,       \* the stop event
    reading,    \* what measure returned last: "real" or "estimate"
    full,       \* the processes that were spinning when it did
    said,       \* the reading is of the full load, by its own account
    sampler,    \* the thread: off, loop, measuring, flag, ended
    pending,    \* the reading the thread has in hand
    samples,    \* the readings appended
    flags,      \* sampled_estimates
    joined,     \* the thread ended before join gave up
    estimates,  \* samples_were_estimated
    label       \* what the result calls itself

vars == <<task, meter, pc, burner, ready, stop, reading, full, said, sampler, pending,
          samples, flags, joined, estimates, label>>
energyVars == <<sampler, pending, samples, flags, joined, estimates, label>>
loadVars == <<burner, ready, reading, full, said>>

\* A counter that wrapped, or a gauge that took too long, gives no reading,
\* and the table of chips stands in for it.
Readings == IF meter = "none" THEN {"estimate"} ELSE {"real", "estimate"}

TypeOK ==
    /\ task \in {"load", "energy"} /\ meter \in {"counter", "gauge", "none"}
    /\ pc \in {"probe", "start", "wait", "measure", "finally", "join", "work", "stop", "waitThread",
               "flags", "label", "returned", "raised"}
    /\ burner \in [Burners -> {"new", "starting", "spinning", "ended"}] /\ ready \subseteq Burners
    /\ stop \in BOOLEAN
    /\ reading \in {"real", "estimate"} /\ full \subseteq Burners /\ said \in BOOLEAN
    /\ sampler \in {"off", "loop", "measuring", "flag", "ended"}
    /\ pending \in {"none", "real", "estimate"}
    /\ samples \in Seq({"real", "estimate"}) /\ flags \in Seq({"real", "estimate"})
    /\ Len(flags) <= Len(samples) /\ Len(samples) <= Len(flags) + 1
    /\ joined \in BOOLEAN /\ estimates \in BOOLEAN
    /\ label \in {"none", "measured", "estimated"}

Init ==
    /\ task \in {"load", "energy"} /\ meter \in {"counter", "gauge", "none"}
    /\ pc = IF task = "load" THEN "probe" ELSE "work"
    /\ burner = [b \in Burners |-> "new"] /\ ready = {} /\ stop = FALSE
    /\ reading = "estimate" /\ full = {} /\ said = FALSE
    /\ sampler = IF task = "energy" /\ meter # "counter" THEN "loop" ELSE "off"
    /\ pending = "none" /\ samples = <<>> /\ flags = <<>>
    /\ joined = FALSE /\ estimates = FALSE /\ label = "none"

Spinning == {b \in Burners : burner[b] = "spinning"}

-----------------------------------------------------------------------------
(* measure_under_load.                                                     *)

\* No load when nothing can meter it.
Probe ==
    /\ pc = "probe"
    /\ reading' \in Readings
    /\ pc' = IF reading' = "estimate" THEN "returned" ELSE "start"
    /\ UNCHANGED <<task, meter, burner, ready, stop, full, said, energyVars>>

Start(b) ==
    /\ pc = "start" /\ burner[b] = "new"
    /\ burner' = [burner EXCEPT ![b] = "starting"]
    /\ pc' = IF \A c \in Burners \ {b} : burner[c] # "new" THEN "wait" ELSE pc
    /\ UNCHANGED <<task, meter, ready, stop, reading, full, said, energyVars>>

\* Every event, or the deadline of 15 s.
Waited ==
    /\ pc = "wait"
    /\ pc' = "measure"
    /\ UNCHANGED <<task, meter, burner, ready, stop, reading, full, said, energyVars>>

StartedAlive == {b \in Burners : burner[b] # "new"}
Started == ready

Measure ==
    /\ pc = "measure"
    /\ reading' \in Readings
    /\ full' = Spinning
    /\ said' = (Started = Burners)
    /\ pc' = "finally"
    /\ UNCHANGED <<task, meter, burner, ready, stop, energyVars>>

Finally ==
    /\ pc = "finally"
    /\ stop' = TRUE
    /\ pc' = "join"
    /\ UNCHANGED <<task, meter, loadVars, energyVars>>

NotSet == FALSE
Stopped == TRUE

\* Ctrl-C before the finally block, which then joins a process that was
\* never started: that raises in turn, and the rest are not joined.
KeyboardInterrupt ==
    /\ pc \in {"start", "wait", "measure"}
    /\ stop' = Stopped
    /\ pc' = IF \E b \in Burners : burner[b] = "new" THEN "raised" ELSE "join"
    /\ UNCHANGED <<task, meter, loadVars, energyVars>>

\* join(timeout=2.0), then terminate.
Join(b) ==
    /\ pc = "join" /\ burner[b] # "ended"
    /\ burner' = [burner EXCEPT ![b] = "ended"]
    /\ UNCHANGED <<task, meter, pc, ready, stop, reading, full, said, energyVars>>

Joined ==
    /\ pc = "join" /\ \A b \in Burners : burner[b] = "ended"
    /\ pc' = "returned"
    /\ UNCHANGED <<task, meter, stop, loadVars, energyVars>>

\* _burn: a process may take its time to come up, and comes up after the
\* stop as well.
Ready(b) ==
    /\ burner[b] = "starting"
    /\ burner' = [burner EXCEPT ![b] = "spinning"]
    /\ ready' = ready \cup {b}
    /\ UNCHANGED <<task, meter, pc, stop, reading, full, said, energyVars>>

BurnerEnds(b) ==
    /\ burner[b] = "spinning" /\ stop
    /\ burner' = [burner EXCEPT ![b] = "ended"]
    /\ UNCHANGED <<task, meter, pc, ready, stop, reading, full, said, energyVars>>

Burner(b) == Ready(b) \/ BurnerEnds(b)
UnderLoad ==
    \/ Probe \/ Waited \/ Measure \/ Finally \/ Joined
    \/ \E b \in Burners : Start(b) \/ Join(b)

-----------------------------------------------------------------------------
(* energy_to_solution: a counter is read twice, else a thread samples.      *)

Poll ==
    /\ sampler = "loop"
    /\ stop \/ Len(samples) < MaxSamples
    /\ sampler' = IF stop THEN "ended" ELSE "measuring"
    /\ UNCHANGED <<task, meter, pc, stop, loadVars, pending, samples, flags, joined, estimates, label>>

Sample ==
    /\ sampler = "measuring"
    /\ pending' \in Readings
    /\ samples' = Append(samples, pending')
    /\ sampler' = "flag"
    /\ UNCHANGED <<task, meter, pc, stop, loadVars, flags, joined, estimates, label>>

Flag ==
    /\ sampler = "flag"
    /\ flags' = Append(flags, pending)
    /\ pending' = "none"
    /\ sampler' = "loop"
    /\ UNCHANGED <<task, meter, pc, stop, loadVars, samples, joined, estimates, label>>

Work ==
    /\ pc = "work"
    /\ IF sampler = "off" THEN pc' = "label" /\ UNCHANGED stop ELSE pc' = "waitThread" /\ stop' = TRUE
    /\ UNCHANGED <<task, meter, loadVars, energyVars>>

\* join(timeout=5.0): a reading can take longer than that.
JoinThread ==
    /\ pc = "waitThread"
    /\ joined' = (sampler = "ended")
    /\ pc' = "flags"
    /\ UNCHANGED <<task, meter, stop, loadVars, sampler, pending, samples, flags, estimates, label>>

NeverEstimates == FALSE
AllEstimates == flags # <<>> /\ \A i \in DOMAIN flags : flags[i] = "estimate"

ReadFlags ==
    /\ pc = "flags"
    /\ estimates' = AllEstimates
    /\ pc' = "label"
    /\ UNCHANGED <<task, meter, stop, loadVars, sampler, pending, samples, flags, joined, label>>

\* The counter, unless it wrapped; the samples; the estimate for the chip class.
Label ==
    /\ pc = "label"
    /\ \E exact \in {FALSE, meter = "counter"} :
          label' = IF ~exact /\ (samples = <<>> \/ estimates) THEN "estimated" ELSE "measured"
    /\ pc' = "returned"
    /\ UNCHANGED <<task, meter, stop, loadVars, sampler, pending, samples, flags, joined, estimates>>

Sampler == Poll \/ Sample \/ Flag
Energy == Sampler \/ Work \/ JoinThread \/ ReadFlags \/ Label

Next == UnderLoad \/ (\E b \in Burners : Burner(b)) \/ KeyboardInterrupt \/ Energy

-----------------------------------------------------------------------------
(* A reading that does not warn about its load was taken while every       *)
(* process was burning, however slowly they came up (power.py 293-307).    *)
FullLoadOrSaid == said => full = Burners

(* What was integrated from estimates alone is labelled as an estimate,    *)
(* once the sampler has ended (power.py 351-356).                          *)
EstimateIsSaid ==
    label = "measured" /\ joined => \E i \in DOMAIN samples : samples[i] = "real"

(* No process burns for ever after the call: not after Ctrl-C, and not     *)
(* when it came up late.                                                   *)
NoBurnerIsLeft == <>[](Spinning = {})

-----------------------------------------------------------------------------
(* power.py 14-15: an estimate is never presented as a measurement.  It is,    *)
(* when one of several readings was real, and when the sampler appends     *)
(* between the caller's two looks at its lists.                            *)
NoEstimateInAMeasurement ==
    label = "measured" => \A i \in DOMAIN samples : samples[i] = "real"
=============================================================================
