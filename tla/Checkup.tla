------------------------------ MODULE Checkup ------------------------------
(***************************************************************************)
(* pcbench --checkup (checkup.py): evidence is gathered source by source,  *)
(* the machine is measured briefly, every check turns evidence into        *)
(* findings, and the ranked list gets a verdict.                           *)
(*                                                                         *)
(* A reading is abstracted to the threshold it is past: "troubles" are the *)
(* facts about the machine that some check looks for.  Sources, parts of   *)
(* the probe and checks can fail; the measurement itself heats and loads   *)
(* the machine.                                                            *)
(***************************************************************************)
EXTENDS Readers, Sequences, Functions

(* A rule: in which check, the fact it looks for, the sections it needs,   *)
(* the facts of the earlier branches of its if-elif chain, the severity.   *)
Rule(check, fact, from, unless, severity) ==
    [check |-> check, fact |-> fact, from |-> from, unless |-> unless, severity |-> severity]

ThermalRules == {
    Rule("thermal", "throttled", {"state"}, {}, "critical"),
    Rule("thermal", "strained", {"state"}, {"throttled"}, "warning"),
    Rule("thermal", "hot", {"state"}, {"throttled", "strained"}, "warning") }
PowerRules == {
    Rule("power", "onBattery", {"state"}, {}, "warning"),
    Rule("power", "lowPower", {"power_mode"}, {}, "warning"),
    Rule("power", "noBoost", {"power_mode"}, {}, "warning") }
CpuRules == {
    Rule("cpu", "smtOff", {"provenance"}, {}, "info"),
    Rule("cpu", "mitigated", {"provenance"}, {}, "info"),
    Rule("cpu", "vulnerable", {"provenance"}, {"mitigated"}, "info"),
    Rule("cpu", "pinned", {"confinement", "system"}, {}, "warning") }
GpuRules == {
    Rule("gpu", "gpuHot", {"accelerators"}, {}, "warning"),
    Rule("gpu", "vramFull", {"accelerators"}, {}, "warning"),
    Rule("gpu", "untestable", {"accelerators"}, {}, "info") }
ContentionRules == {
    Rule("contention", "saturated", {"state"}, {}, "critical"),
    Rule("contention", "loaded", {"state"}, {"saturated"}, "warning"),
    Rule("contention", "hog", {"processes"}, {}, "warning") }
MemoryRules == {
    Rule("memory", "exhausted", {"memory"}, {}, "critical"),
    Rule("memory", "tight", {"memory"}, {"exhausted"}, "warning") }
RamRules == {
    Rule("ram_config", "smallRam", {"system"}, {}, "warning"),
    Rule("ram_config", "cappedRam", {"confinement", "system"}, {}, "info") }
VolumeRules == {
    Rule("storage", "full", {"disks"}, {}, "critical"),
    Rule("storage", "nearlyFull", {"disks"}, {"full"}, "warning") }
DriveRules == {
    Rule("storage", "failing", {"drives"}, {}, "critical"),
    Rule("storage", "spent", {"drives"}, {}, "critical"),
    Rule("storage", "sataSpent", {"drives"}, {}, "critical"),
    Rule("storage", "worn", {"drives"}, {}, "warning"),
    Rule("storage", "sataWorn", {"drives"}, {}, "warning") }
ConfigurationRules == {
    Rule("configuration", "longUp", {"uptime"}, {}, "info"),
    Rule("configuration", "quota", {"confinement", "system"}, {}, "info"),
    Rule("configuration", "virtual", {"system"}, {}, "info") }
MeasuredRules == {
    Rule("measured", "slowDisk", {"disk"}, {}, "warning"),
    Rule("measured", "slowMemory", {"copies"}, {}, "warning"),
    Rule("measured", "collapse", {"sustained"}, {}, "critical"),
    Rule("measured", "droop", {"sustained"}, {"collapse"}, "warning") }
RegressionRules == { Rule("regression", "regressed", {"cpu_int", "history"}, {}, "warning") }

CHECKS == <<"thermal", "power", "cpu", "gpu", "contention", "memory", "ram_config", "storage",
            "configuration", "measured", "regression">>
CheckNames == Range(CHECKS)

AllRules ==
    ThermalRules \cup PowerRules \cup CpuRules \cup GpuRules \cup ContentionRules \cup MemoryRules
    \cup RamRules \cup VolumeRules \cup DriveRules \cup ConfigurationRules \cup MeasuredRules
    \cup RegressionRules

\* What a run of the program's own does to the machine it looks at.
OwnLoad == {"saturated", "throttled", "hot", "hog"}

\* power_mode asks the policy for "turbo", which provenance calls
\* "boost_enabled"; _check_cpu asks for "affinity_cores", which container
\* calls "cpu_affinity_cores": neither value ever arrives.
Misnamed == {"noBoost", "pinned"}

-----------------------------------------------------------------------------
SOURCES == <<"system", "state", "processes", "memory", "disks", "power_mode",
             "provenance", "drives", "accelerators", "uptime", "confinement", "history">>
PROBES == <<"cpu_int", "copies", "disk", "sustained">>
MeasureFirst(m) == (IF m THEN PROBES ELSE <<>>) \o SOURCES
Order(m) == SOURCES \o (IF m THEN PROBES ELSE <<>>)

Sections == Range(Order(TRUE))

VARIABLES
    platform,
    measure,    \* without --no-measure
    troubles,   \* what is wrong with the machine, and whether it has NVMe drives
    broken,     \* tools that do not work; sources, parts of the probe and
                \* checks that raise
    at,         \* how many sections are gathered, then how many checks made
    pc,
    warm,       \* the program has put the machine under load
    evidence,   \* <<section, fact>> pairs that were read
    absent,     \* sections that hold an error, or nothing
    findings,
    verdict     \* what the one sentence says, and of which finding

vars == <<platform, measure, troubles, broken, at, pc, warm, evidence, absent, findings, verdict>>

Failed(check) == [check |-> check, fact |-> "check_failed", severity |-> "info"]
Found(r) == [check |-> r.check, fact |-> r.fact, severity |-> r.severity]
Nothing == [lead |-> "nothing found", of |-> Failed("none")]

Parts == Tools \cup Sections \cup CheckNames \cup {"drivelife"}

TypeOK ==
    /\ platform \in Platforms /\ measure \in BOOLEAN /\ troubles \subseteq Facts
    /\ broken \subseteq Parts
    /\ pc \in {"gather", "analyse", "reported", "raised"}
    /\ at \in 0 .. Len(Order(TRUE))
    /\ warm \in BOOLEAN
    /\ evidence \subseteq Sections \X Facts /\ absent \subseteq Sections
    /\ findings \subseteq {Found(r) : r \in AllRules} \cup {Failed(c) : c \in CheckNames}
    /\ verdict = Nothing \/ verdict.of.severity # "info"

Init ==
    /\ platform \in Platforms /\ measure \in BOOLEAN /\ troubles \in SUBSET Facts /\ broken \in SUBSET Parts
    /\ at = 0 /\ pc = "gather" /\ warm = FALSE
    /\ evidence = {} /\ absent = {} /\ findings = {} /\ verdict = Nothing

-----------------------------------------------------------------------------
(* gather, history_rows and probe.                                         *)

Present == troubles \cup (IF warm THEN OwnLoad ELSE {})
Known(fact) ==
    /\ fact \notin Misnamed
    /\ Answers(fact, platform, broken) /\ ~Overlooked(fact, troubles, platform, broken)
Readings(s) ==
    {<<s, r.fact>> : r \in {r \in AllRules : s \in r.from /\ r.fact \in Present /\ Known(r.fact)}}

Due(s) == pc = "gather" /\ at < Len(Order(measure)) /\ Order(measure)[at + 1] = s

\* The try of probe is around three measurements: the first that fails takes
\* the others with it.
InOneTry == 1 .. 3
Left(s) == \E i, j \in InOneTry : i < j /\ PROBES[i] \in absent /\ PROBES[j] = s

Read(s) ==
    /\ Due(s)
    /\ s \notin broken /\ ~Left(s)
    /\ evidence' = evidence \cup Readings(s)
    /\ warm' = (warm \/ s \in Range(PROBES))
    /\ at' = at + 1
    /\ UNCHANGED <<platform, measure, troubles, broken, pc, absent, findings, verdict>>

\* The try around each source, and those of probe.
Unreadable(s) ==
    /\ Due(s)
    /\ s \in broken \/ Left(s)
    /\ s # "history"
    /\ absent' = absent \cup {s}
    /\ warm' = (warm \/ s \in Range(PROBES))
    /\ at' = at + 1
    /\ UNCHANGED <<platform, measure, troubles, broken, pc, evidence, findings, verdict>>

\* history_rows is called outside every try: a benchmarks.csv that cannot be
\* decoded ends the checkup.
HistoryRaises ==
    /\ Due("history")
    /\ "history" \in broken
    /\ pc' = "raised"
    /\ UNCHANGED <<platform, measure, troubles, broken, at, warm, evidence, absent, findings, verdict>>

Gathered ==
    /\ pc = "gather" /\ at = Len(Order(measure))
    /\ pc' = "analyse" /\ at' = 0
    /\ UNCHANGED <<platform, measure, troubles, broken, warm, evidence, absent, findings, verdict>>

-----------------------------------------------------------------------------
(* analyse and verdict.                                                    *)

Seen(fact, r) == \A s \in r.from : <<s, fact>> \in evidence
Fires(r) ==
    /\ Seen(r.fact, r) /\ \A worse \in r.unless : ~Seen(worse, r)
    /\ "drivelife" \in broken => r \notin DriveRules
FindingsOf(name) == {Found(r) : r \in {r \in AllRules : r.check = name /\ Fires(r)}}

StopAtAFailure(i) == Len(CHECKS)
NextAfterFailure(i) == i + 1

Check ==
    /\ pc = "analyse" /\ at < Len(CHECKS)
    /\ LET name == CHECKS[at + 1]
       IN  IF name \in broken
           THEN findings' = findings \cup {Failed(name)} /\ at' = NextAfterFailure(at)
           ELSE findings' = findings \cup FindingsOf(name) /\ at' = at + 1
    /\ UNCHANGED <<platform, measure, troubles, broken, pc, warm, evidence, absent, verdict>>

SEVERITY_ORDER == [critical |-> 0, warning |-> 1, info |-> 2]

\* What is sorted to the front; which of several stands first, the order of
\* the checks decides.
AsFound(fs) == fs
Leading(fs) == {f \in fs : \A g \in fs : SEVERITY_ORDER[f.severity] <= SEVERITY_ORDER[g.severity]}

Critical == \E f \in findings : f.severity = "critical"
Actionable(fs) == {f \in fs : f.severity # "info"}

Judge ==
    /\ pc = "analyse" /\ at = Len(CHECKS)
    /\ \/ Actionable(findings) = {} /\ UNCHANGED verdict
       \/ \E first \in Leading(Actionable(findings)) :
              verdict' = [lead |-> IF Critical THEN "cause" ELSE "contributor", of |-> first]
    /\ pc' = "reported"
    /\ UNCHANGED <<platform, measure, troubles, broken, at, warm, evidence, absent, findings>>

Over == pc \in {"reported", "raised"} /\ UNCHANGED vars

Next ==
    \/ \E s \in Sections : Read(s) \/ Unreadable(s)
    \/ HistoryRaises \/ Gathered \/ Check \/ Judge \/ Over

Spec == Init /\ [][Next]_vars

-----------------------------------------------------------------------------
WasRead(s) == s \in Range(Order(measure)) /\ s \notin absent

\* A reader gets to the fact; the sections a rule needs were read and its
\* check was made.
Knowable(r) ==
    /\ \A s \in r.from : WasRead(s)
    /\ r.check \notin broken /\ ("drivelife" \in broken => r \notin DriveRules)
    /\ Known(r.fact)

(* What slows the machine, was within reach of the readers and is looked   *)
(* for by a check that could be made, is in the report, itself or the      *)
(* worse condition that subsumes it, whatever else failed: the isolation   *)
(* of sources and checks in checkup.py 546-549 and 1145-1153. A SATA drive *)
(* beside a readable NVMe drive is out of reach: NoDriveIsOverlooked.      *)
NoBadNewsIsLost ==
    pc = "reported" =>
        \A r \in AllRules :
            r.fact \in troubles /\ r.severity # "info" /\ Knowable(r)
                => \E f \in findings : f.fact \in {r.fact} \cup r.unless

(* The checkup never blames the machine for the load it put on it itself:  *)
(* the state is read before the measurement begins (checkup.py 1163-1169). *)
OwnLoadIsNotBlamed ==
    \A f \in findings : f.severity # "info" => f.fact \in troubles

(* The one sentence names a critical finding, and calls it the cause, when *)
(* something critical is wrong with the machine that its readers reach,    *)
(* and only then (checkup.py 1182-1202); the exit status follows it.       *)
VerdictIsTheWorst ==
    pc = "reported" =>
        /\ (verdict.lead = "cause" /\ verdict.of.severity = "critical") <=>
              \E r \in AllRules : r.severity = "critical" /\ r.fact \in troubles /\ Knowable(r)
        /\ (verdict = Nothing) <=> \A f \in findings : f.severity = "info"

-----------------------------------------------------------------------------
(* checkup.py 23-25: "A check that could not run on this platform says so  *)
(* rather than silently passing, because a clean report that skipped half  *)
(* its checks is worse than no report."                                    *)
EveryCheckRanOrSaidSo ==
    pc = "reported" /\ broken = {} /\ measure =>
        \A c \in CheckNames :
            \/ \E r \in AllRules : r.check = c /\ Knowable(r)
            \/ \E f \in findings : f.check = c

(* drivelife.py 26-27: "SATA SSDs report the same facts under different    *)
(* vendor-specific attribute names, which are mapped here."                *)
NoDriveIsOverlooked ==
    pc = "reported" /\ broken = {} /\ platform = "Linux" =>
        \A r \in DriveRules : r.fact \in troubles => Found(r) \in findings

(* README.md 736 lists "boost disabled" and "restricted affinity" among    *)
(* what is checked.                                                        *)
ListedCausesAreFound ==
    pc = "reported" /\ broken = {} =>
        \A t \in troubles \cap Misnamed : \E f \in findings : f.fact = t
=============================================================================
