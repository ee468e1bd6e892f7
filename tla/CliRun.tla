------------------------------- MODULE CliRun -------------------------------
(***************************************************************************)
(* One invocation of pcbench, from the command line to the exit code       *)
(* (cli.main): the settings of three sources folded together (config.py),  *)
(* the modes that replace a benchmark, the checks before one, its tests    *)
(* and optional sections, and what is written of it.                       *)
(*                                                                         *)
(* A flag holds its default, a good value, or a bad one: one that the      *)
(* parser of its kind refuses, or, for fail_under, a number that no        *)
(* assertion can be written with (nan, inf).                               *)
(***************************************************************************)
EXTENDS Integers, SequencesExt

CONSTANTS
    Invocations,  \* what may be said: sets of <<source, flag, value>>
    Menu          \* what the guided menu may return: sets of flags

Reports == {"list_tests", "init_config", "list_stats", "stats", "list_devices", "compare", "compare_runs"}
ModesByName == <<"checkup", "compare", "compare_runs", "drive_speed", "internet", "list_devices", "list_stats",
                 "menu", "monitor", "net_client", "net_server", "stats">>
Modes == <<"list_stats", "stats", "menu", "list_devices", "compare", "compare_runs", "checkup",
           "drive_speed", "internet", "net_server", "net_client", "monitor">>
Switches == {"quick", "force", "no_save", "json_stdout", "html", "spec_sheet", "no_gpu", "no_npu",
             "no_accel", "no_regression"}
Numbers == {"seconds", "disk_mb", "mem_mb"}
Exports == <<"prometheus", "sqlite", "markdown">>
Keys == Switches \cup Numbers \cup ToSet(Exports)
        \cup {"only", "profile", "skip", "sustained", "soak", "junit", "fail_under", "assert", "network_host"}
\* build_parser: the flags of the suite, and those of other jobs and of its optional depth.
SuiteFlags == {"list_tests", "list_devices", "drive_speed", "compare", "monitor", "ai", "no_ai", "health",
               "no_power", "no_drive_life", "no_plugins", "no_network", "no_optional", "disk_path"}
DepthFlags == {"config", "no_config", "init_config", "list_stats", "stats", "menu", "no_menu", "checkup",
               "no_measure", "compare_runs", "internet", "net_server", "net_client", "counters",
               "no_standards", "numa", "energy", "datascience", "io", "io_job", "no_native"}
Flags == Keys \cup SuiteFlags \cup DepthFlags

Sections == <<"native", "accel", "ml", "network", "plugins", "health", "external", "power", "numeric",
              "crypto", "opencl", "npu", "counters", "standards", "numa", "datascience", "io",
              "drive_life", "energy", "storage", "sustained", "soak">>
Tests == <<"first", "second">>

\* parse_args refuses a number that is none, and a switch takes no value.
ASSUME InvocationsAssumption ==
    \A S \in Invocations : \A s \in S :
        s[1] = "typed" /\ s[2] \in Switches \cup Numbers => s[3] # "bad"

Running == -1
Died == -2      \* without a code of its own: an exception, a signal

VARIABLES
    said,        \* what was said, and where; the rest holds its default
    listed,      \* main was called with a list: by the menu or a program
    args,        \* the flags that main finds to differ from their default
    pc,
    due,         \* the sections that are still to run
    results,     \* what each test selected came to
    loaded,      \* something was measured or stressed
    soakErrors, gateFailed, printed, saved, written,
    probe, other, \* .pcbench_write_test, and another run that makes and removes it
    code

vars == <<said, listed, args, pc, due, results, loaded, soakErrors, gateFailed, printed, saved,
          written, probe, other, code>>
inputs == <<said, listed>>
outcome == <<results, loaded, soakErrors, gateFailed, printed, saved, written>>
probing == <<probe, other>>

On(f) == f \in DOMAIN args
Bad(f) == On(f) /\ args[f] = "bad"

(***************************************************************************)
(* Settings.                                                               *)
(***************************************************************************)
SaidIn(source, f) ==
    IF \E s \in said : s[1] = source /\ s[2] = f
    THEN (CHOOSE s \in said : s[1] = source /\ s[2] = f)[3] ELSE "absent"
Typed(f) == SaidIn("typed", f)

\* parse_args: what was typed with another value than the default.
Parsed == [f \in {s[2] : s \in {t \in said : t[1] = "typed" /\ t[3] # "default"}} |-> Typed(f)]

\* A flag counts as typed when its value is not the default.
Explicit(f) == f \in DOMAIN Parsed
\* from_env is laid over the file.
Setting(f) == IF SaidIn("env", f) # "absent" THEN SaidIn("env", f) ELSE SaidIn("file", f)
Applied == {f \in {s[2] : s \in said} : f \in Keys /\ ~Explicit(f) /\ Setting(f) # "absent"}
\* Booleans and numbers are converted; text is kept, good or bad.
_coerce == \A f \in Applied \cap (Switches \cup Numbers) : Setting(f) # "bad"
apply == [f \in {g \in Applied : Setting(g) # "default"} \cup DOMAIN Parsed |->
              IF Explicit(f) THEN Parsed[f] ELSE Setting(f)]

-----------------------------------------------------------------------------
TypeOK ==
    /\ \A f \in DOMAIN args : f \in Flags /\ args[f] \in {"good", "bad", "quick"}
    /\ ToSet(due) \subseteq ToSet(Sections)
    /\ \A t \in DOMAIN results : results[t] \in {"to do", "ok", "invalid", "failed"}
    /\ written \subseteq ToSet(Exports) \cup {"junit"}
    /\ other \in {"away", "made", "gone"}
    /\ code \in {Running, Died} \cup 0 .. 7
    /\ \A b \in {listed, loaded, soakErrors, gateFailed, printed, saved, probe} : b \in BOOLEAN
    /\ code = Running <=> pc # "over"

Init ==
    /\ said \in Invocations /\ listed = FALSE
    /\ args = Parsed
    /\ pc = "parsed" /\ due = <<>> /\ results = <<>>
    /\ loaded = FALSE /\ soakErrors = FALSE /\ gateFailed = FALSE
    /\ printed = FALSE /\ saved = FALSE /\ written = {}
    /\ probe = FALSE /\ other = "away"
    /\ code = Running

Goto(p) == pc' = p /\ UNCHANGED code
Return(c) == pc' = "over" /\ code' = c
Quiet == On("json_stdout")

ListTests ==
    /\ pc = "parsed" /\ On("list_tests")
    /\ Return(0)
    /\ UNCHANGED <<inputs, args, due, outcome, probing>>

\* A file that exists (a bad value) is never overwritten.
InitConfig ==
    /\ pc = "parsed" /\ ~On("list_tests") /\ On("init_config")
    /\ Return(IF Bad("init_config") THEN 2 ELSE 0)
    /\ UNCHANGED <<inputs, args, due, outcome, probing>>

\* A bad --config is one that cannot be read, or has unknown settings.
ApplyConfig ==
    /\ pc = "parsed" /\ ~On("list_tests") /\ ~On("init_config")
    /\ CASE On("no_config") -> Goto("mode") /\ UNCHANGED args
         [] ~On("no_config") /\ (Bad("config") \/ ~_coerce) -> Return(2) /\ UNCHANGED args
         [] OTHER -> Goto("mode") /\ args' = apply
    /\ UNCHANGED <<inputs, due, outcome, probing>>

Typing == \E s \in said : s[1] = "typed"
MenuOnceMore == On("menu") \/ (~On("no_menu") /\ ~Typing)
\* On a terminal; elsewhere a bare invocation is a benchmark.
wants_menu == On("menu") \/ (~On("no_menu") /\ ~listed /\ ~Typing)
ModeOn(m) == IF m = "menu" THEN wants_menu ELSE On(m)
Mode == IF \E i \in DOMAIN Modes : ModeOn(Modes[i])
        THEN Modes[CHOOSE i \in DOMAIN Modes :
                       ModeOn(Modes[i]) /\ \A j \in 1 .. i - 1 : ~ModeOn(Modes[j])]
        ELSE "suite"

\* Reports read and print; compare_runs has an exit code of its own.
Report ==
    /\ pc = "mode" /\ Mode \in Reports
    /\ \E regressed \in BOOLEAN :
          Return(IF Bad(Mode) /\ Mode \in {"stats", "compare_runs"} THEN 2
                 ELSE IF Mode = "compare_runs" /\ regressed THEN 6 ELSE 0)
    /\ UNCHANGED <<inputs, args, due, outcome, probing>>

\* main calls itself with what the menu returns, and folds the settings in
\* again. Back on the main menu is raised (module Wizard), and not caught.
OpenMenu ==
    /\ pc = "mode" /\ Mode = "menu"
    /\ \/ (\E c \in {0, Died} : Return(c)) /\ UNCHANGED <<inputs, args>>
       \/ \E choice \in Menu :
             /\ said' = {s \in said : s[1] # "typed"} \cup {<<"typed", f, "good">> : f \in choice}
             /\ listed' = TRUE
             /\ args' = [f \in choice |-> "good"]
             /\ Goto("parsed")
    /\ UNCHANGED <<due, outcome, probing>>

\* No terminal is there to answer.
BareWithoutTerminal ==
    /\ pc = "mode" /\ Mode = "menu" /\ ~On("menu")
    /\ Goto("quick")
    /\ UNCHANGED <<inputs, args, due, outcome, probing>>

\* 1 for a critical finding of the checkup, which an unreadable history ends
\* (Checkup); 2 for what could not be measured.
Measurements == {"checkup", "drive_speed", "internet", "net_server", "net_client", "monitor"}
Measure ==
    /\ pc = "mode" /\ Mode \in Measurements
    /\ IF Mode = "monitor" /\ Bad("monitor") THEN Return(2) /\ UNCHANGED loaded
       ELSE /\ loaded' = (Mode = "checkup" => ~On("no_measure"))
            /\ \E c \in CASE Mode = "checkup" -> {0, 1, Died} [] Mode = "monitor" -> {0} [] OTHER -> {0, 2} :
                  Return(c)
    /\ UNCHANGED <<inputs, args, due, results, soakErrors, gateFailed, printed, saved, written, probing>>

Suite ==
    /\ pc = "mode" /\ Mode = "suite"
    /\ Goto("quick")
    /\ UNCHANGED <<inputs, args, due, outcome, probing>>

\* --quick replaces seconds, repeats and disk_mb, typed or not.
Quick ==
    /\ pc = "quick"
    /\ LET given == IF On("quick") THEN {"seconds", "disk_mb"} ELSE {}
       IN  args' = [f \in given \cup DOMAIN args |-> IF f \in given THEN "quick" ELSE args[f]]
    /\ Goto("validate")
    /\ UNCHANGED <<inputs, due, outcome, probing>>

CheckedLate == {"only", "skip", "sustained", "soak", "profile"}
CheckedUpFront == {"only", "skip", "sustained", "soak", "profile", "assert"}
Malformed == \/ \E f \in CheckedUpFront : Bad(f)
             \/ On("profile") /\ On("only")

\* A good --skip leaves out the first test.
select_tests == IF On("skip") THEN Tail(Tests) ELSE Tests

Validate ==
    /\ pc = "validate"
    /\ IF Malformed THEN Return(2) /\ UNCHANGED results
       ELSE /\ results' = [t \in ToSet(select_tests) |-> "to do"]
            /\ Goto(IF On("no_save") THEN "guard" ELSE "output")
    /\ UNCHANGED <<inputs, args, due, loaded, soakErrors, gateFailed, printed, saved, written, probing>>

\* _check_output_writable makes a file of a fixed name, then removes it.
MakeProbe ==
    /\ pc = "output"
    /\ \/ probe' = TRUE /\ Goto("probe")
       \/ Return(5) /\ UNCHANGED probe
    /\ UNCHANGED <<inputs, args, due, outcome, other>>

RemoveProbe ==
    /\ pc = "probe"
    /\ IF probe THEN Goto("guard") ELSE Return(5)
    /\ probe' = FALSE
    /\ UNCHANGED <<inputs, args, due, outcome, other>>

\* Another run with the same --output-dir does the same, once.
OtherRun ==
    /\ pc \in {"output", "probe"}
    /\ \/ other = "away" /\ other' = "made" /\ probe' = TRUE
       \/ other = "made" /\ other' = "gone" /\ probe' = FALSE
    /\ UNCHANGED <<inputs, args, pc, due, outcome, code>>

Refused(distorted) == distorted /\ ~On("force") /\ ~Quiet

\* On battery, under load, or throttled.
Guard ==
    /\ pc = "guard"
    /\ \E distorted \in BOOLEAN : IF Refused(distorted) THEN Return(3) ELSE Goto("tests")
    /\ UNCHANGED <<inputs, args, due, outcome, probing>>

(***************************************************************************)
(* The benchmark.                                                          *)
(***************************************************************************)
ToDo == SelectSeq(Tests, LAMBDA t : t \in DOMAIN results /\ results[t] = "to do")

\* A wrong answer and every other exception of a test are its result.
RunTest ==
    /\ pc = "tests" /\ ToDo # <<>>
    /\ \E r \in {"ok", "invalid", "failed"} : results' = [results EXCEPT ![Head(ToDo)] = r]
    /\ loaded' = TRUE
    /\ UNCHANGED <<inputs, args, pc, due, soakErrors, gateFailed, printed, saved, written, probing, code>>

accel_enabled(off) == ~On("no_accel") /\ ~On(off)

\* What asks for a section; those of optional packages may still find none.
Wanted(s) ==
    CASE s = "native" -> ~On("no_native")
      [] s = "accel" -> ~On("no_accel") /\ ~(On("no_gpu") /\ On("no_npu"))
      [] s = "ml" -> ~On("no_ai")
      [] s = "network" -> ~On("no_network")
      [] s = "external" -> ~On("no_network") /\ On("network_host")
      [] s = "plugins" -> ~On("no_plugins")
      [] s = "power" -> ~On("no_power")
      [] s \in {"numeric", "crypto"} -> ~On("no_optional")
      [] s = "opencl" -> ~On("no_optional") /\ accel_enabled("no_gpu")
      [] s = "npu" -> accel_enabled("no_npu")
      [] s = "standards" -> ~On("no_standards")
      [] s = "io" -> On("io") \/ On("io_job")
      [] s = "drive_life" -> ~On("no_drive_life")
      [] s = "storage" -> On("disk_path")
      [] OTHER -> On(s)

TestsOver ==
    /\ pc = "tests" /\ ToDo = <<>>
    /\ due' = SelectSeq(Sections, Wanted)
    /\ Goto("sections")
    /\ UNCHANGED <<inputs, args, outcome, probing>>

RunSection ==
    /\ pc = "sections" /\ due # <<>>
    /\ IF Head(due) = "io" /\ Bad("io_job") THEN Return(2) /\ UNCHANGED <<soakErrors, loaded, due>>
       ELSE /\ soakErrors' \in (IF Head(due) = "soak" THEN BOOLEAN ELSE {soakErrors})
            /\ loaded' = TRUE /\ due' = Tail(due)
            /\ UNCHANGED <<pc, code>>
    /\ UNCHANGED <<inputs, args, results, gateFailed, printed, saved, written, probing>>

\* What is in the plugins directory, in the order of its names.
Plugins == {"good", "fails to load", "incomplete", "fails to run", "bad baseline"}
\* discover and run_all keep what a plugin does to its own entry, but for its baseline.
Contained(p) == p # "bad baseline"
PluginEscapes ==
    /\ pc = "sections" /\ due # <<>> /\ Head(due) = "plugins"
    /\ \E p \in Plugins : ~Contained(p)
    /\ Return(Died)
    /\ UNCHANGED <<inputs, args, due, outcome, probing>>

\* compute_scores and the sections made from the scores; the composite of no
\* score above 0 is the mean of nothing, which raises.
Score ==
    /\ pc = "sections" /\ due = <<>>
    /\ \/ Goto("gates")
       \/ /\ ~On("no_plugins") /\ \A t \in DOMAIN results : results[t] # "ok"
          /\ Return(Died)
    /\ UNCHANGED <<inputs, args, due, outcome, probing>>

\* What an assertion on a test may come to: one that was not measured fails.
Verdicts(t) == IF t \in DOMAIN results /\ results[t] = "ok" THEN BOOLEAN ELSE {FALSE}

\* gates.evaluate writes fail_under as an assertion, and parses that now.
EvaluateGates ==
    /\ pc = "gates"
    /\ IF Bad("fail_under") \/ Bad("assert") THEN Return(Died) /\ UNCHANGED gateFailed
       ELSE /\ \E met \in IF On("assert") THEN Verdicts("first") ELSE {TRUE},
                  enough \in IF On("fail_under") THEN BOOLEAN ELSE {TRUE} :
                    gateFailed' = ~(met /\ enough)
            /\ Goto("print")
    /\ UNCHANGED <<inputs, args, due, results, loaded, soakErrors, printed, saved, written, probing>>

PrintReport ==
    /\ pc = "print"
    /\ printed' = TRUE
    /\ Goto(IF On("no_save") THEN "exports" ELSE "save")
    /\ UNCHANGED <<inputs, args, due, results, loaded, soakErrors, gateFailed, saved, written, probing>>

\* The save block (module History): its OSError is printed, and no more.
Save ==
    /\ pc = "save"
    /\ saved' \in BOOLEAN
    /\ Goto("exports")
    /\ UNCHANGED <<inputs, args, due, results, loaded, soakErrors, gateFailed, printed, written, probing>>

\* Any exception of these three is printed, and no more; of junit, an OSError.
WriteExports ==
    /\ pc = "exports"
    /\ \E ok \in SUBSET {f \in ToSet(Exports) \cup {"junit"} : On(f)} : written' = ok
    /\ Goto("exit")
    /\ UNCHANGED <<inputs, args, due, results, loaded, soakErrors, gateFailed, printed, saved, probing>>

Invalid == \E t \in DOMAIN results : results[t] = "invalid"
LastFirst == IF gateFailed THEN 6 ELSE IF soakErrors THEN 7 ELSE IF Invalid THEN 4 ELSE 0
ExitCode == IF Invalid THEN 4 ELSE IF soakErrors THEN 7 ELSE IF gateFailed THEN 6 ELSE 0

Exit ==
    /\ pc = "exit"
    /\ Return(ExitCode)
    /\ UNCHANGED <<inputs, args, due, outcome, probing>>

\* Ctrl-C where nothing catches it, a kill, a power cut, or an exception of a
\* section: main catches only what the actions above say.
Die ==
    /\ pc \notin {"over", "parsed", "mode"}
    /\ Return(Died)
    /\ UNCHANGED <<inputs, args, due, outcome, probing>>

\* main is in a call that may last for ever: the menu and the server wait for a
\* person, a measurement for a device, another machine or its own processes.
Calls ==
    \/ pc = "mode" /\ Mode \in Measurements \cup {"menu"}
    \/ pc = "tests" /\ ToDo # <<>>
    \/ pc = "sections" /\ due # <<>>

Over == pc = "over" /\ UNCHANGED vars

main ==
    \/ ListTests \/ InitConfig \/ ApplyConfig \/ Report \/ OpenMenu \/ BareWithoutTerminal \/ Measure
    \/ Suite \/ Quick \/ Validate \/ MakeProbe \/ RemoveProbe \/ Guard
    \/ RunTest \/ TestsOver \/ RunSection \/ PluginEscapes \/ Score \/ EvaluateGates
    \/ PrintReport \/ Save \/ WriteExports \/ Exit

Next == main \/ OtherRun \/ Die \/ Over

Spec == Init /\ [][Next]_vars

-----------------------------------------------------------------------------
(* "When several apply, the most severe is returned" (docs/packages.md     *)
(* 586): a wrong answer of a test outranks one of the soak, which outranks *)
(* a threshold; an assertion on a test that failed, or was never selected, *)
(* is a threshold not met, and 0 says that there was none of these.        *)
ExitTellsTheWorst ==
    code \in {0, 4, 6, 7} /\ printed =>
        /\ code = 4 <=> \E t \in DOMAIN results : results[t] = "invalid"
        /\ soakErrors => code \in {4, 7}
        /\ On("assert") /\ ("first" \notin DOMAIN results \/ results["first"] # "ok") => code # 0
        /\ code = 6 => gateFailed
        /\ code = 0 => ~gateFailed

(* "A typo in a CI gate must not cost ten minutes to discover" (cli.py     *)
(* 914): whichever source a malformed value comes from, no test has run    *)
(* with it. The two that are found out too late are BadJobCostsNothing and *)
(* GateErrorsUpFront below.                                                *)
TypoCostsNothing ==
    (\E t \in DOMAIN results : results[t] # "to do") =>
        \A f \in Switches \cup Numbers \cup {"only", "profile", "skip", "sustained", "soak", "assert"} : ~Bad(f)

(* "None of these run a benchmark or load the machine" (cli.py 709): an    *)
(* invocation that asks for a report never measures anything, whatever     *)
(* other modes and settings it comes with.                                 *)
ReportsLoadNothing == (\E f \in Reports : On(f)) => ~loaded

(* An invocation ends, unless one call in it lasts for ever; also one that *)
(* goes through the menu: "an empty one for the default suite screen [...] *)
(* would otherwise reopen the menu forever" (cli.py 521).                  *)
MainReturns == <>(pc = "over") \/ <>[]Calls

-----------------------------------------------------------------------------
(* Stated elsewhere, and not so.                                           *)

(* "Precedence runs command line > environment > config file > defaults"   *)
(* (config.py 25): a flag that was typed keeps its value.                  *)
CommandLineWins ==
    pc \in {"validate", "output", "guard"} /\ ~On("quick") =>
        \A s \in said : s[1] = "typed" => (IF On(s[2]) THEN args[s[2]] ELSE "default") = s[3]

(* tests/test_pcbench.py 3576: a bad --io-job "is rejected before          *)
(* benchmarking".                                                          *)
BadJobCostsNothing == (\E t \in DOMAIN results : results[t] # "to do") => ~Bad("io_job")

(* "Raised for a malformed assertion, before any benchmarking happens"     *)
(* (gates.py 41).                                                          *)
GateErrorsUpFront == (\E t \in DOMAIN results : results[t] # "to do") => ~Bad("fail_under")

(* docs/packages.md 581: 5 means "Output directory not writable".          *)
WritableIsNotRefused == pc = "probe" => probe
=============================================================================
