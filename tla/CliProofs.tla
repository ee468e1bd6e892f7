----------------------------- MODULE CliProofs ------------------------------
(***************************************************************************)
(* Theorems about CliRun, for any invocations and anything that the menu   *)
(* may return, about Checkup, for any machines, and about Widgets, for any *)
(* numbers of options, of those that fit on the screen, and of keys.       *)
(***************************************************************************)
EXTENDS MCCliRun, FiniteSetTheorems, WellFoundedInduction, TLAPS

\* A set of numbers that is not empty has a least one.
LEMMA LeastOf == ASSUME NEW T \in SUBSET Nat, T # {} PROVE \E x \in T : \A y \in T : x <= y
<1> DEFINE L == OpToRel(<, Nat)
<1>1. IsWellFoundedOn(L, Nat) BY NatLessThanWellFounded
<1>2. \A x, y \in Nat : y < x => <<y, x>> \in L BY DEF OpToRel
<1> HIDE DEF L
<1>3. PICK x \in T : \A y \in T : ~ (<<y, x>> \in L) BY <1>1, WFMin
<1>4. ASSUME NEW y \in T PROVE x <= y
  <2>1. x \in Nat /\ y \in Nat OBVIOUS
  <2>2. ~(y < x) BY <1>2, <1>3, <2>1
  <2> QED BY <2>1, <2>2
<1> QED BY <1>4

\* The empty sequence has no place.
LEMMA EmptyDomain == ASSUME NEW x, x = <<>> PROVE DOMAIN x = {}
OBVIOUS

\* Of the modes that are asked for, the first is run.
LEMMA ModeIs ==
    /\ Mode = "suite" \/ \E i \in 1 .. 12 : Mode = Modes[i] /\ ModeOn(Modes[i]) /\ \A j \in 1 .. i - 1 : ~ModeOn(Modes[j])
    /\ Mode = "suite" => \A i \in 1 .. 12 : ~ModeOn(Modes[i])
<1> DEFINE asked == {i \in 1 .. 12 : ModeOn(Modes[i])}
<1>1. DOMAIN Modes = 1 .. 12 BY DEF Modes
<1>2. \A i \in 1 .. 12 : Modes[i] # "suite" BY DEF Modes
<1>3. CASE asked = {}
  <2>1. Mode = "suite" BY <1>1, <1>3, Zenon DEF Mode
  <2> QED BY <1>3, <2>1
<1>4. CASE asked # {}
  <2> DEFINE first(i) == ModeOn(Modes[i]) /\ \A j \in 1 .. i - 1 : ~ModeOn(Modes[j])
  <2>1. PICK i \in asked : \A j \in asked : i <= j BY <1>4, LeastOf
  <2>2. i \in 1 .. 12 /\ first(i) BY <2>1
  <2>3. \E k \in DOMAIN Modes : ModeOn(Modes[k]) BY <1>1, <2>2
  <2>4. Mode = Modes[CHOOSE k \in DOMAIN Modes : first(k)] BY <2>3, Zenon DEF Mode
  <2> HIDE DEF first
  <2>5. PICK k \in 1 .. 12 : Mode = Modes[k] /\ first(k) BY <1>1, <2>2, <2>4
  <2>6. Mode # "suite" BY <1>2, <2>5
  <2> QED BY <2>5, <2>6 DEF first
<1> QED BY <1>3, <1>4

\* No report was asked for where something else is run.
LEMMA NoReportBefore ==
    /\ Mode \in {"checkup", "drive_speed", "internet", "net_server", "net_client", "monitor", "suite"} =>
           \A f \in {"list_stats", "stats", "list_devices", "compare", "compare_runs"} : ~On(f)
    /\ Mode = "menu" => wants_menu
<1>1. ASSUME NEW i \in 1 .. 12, Mode = Modes[i], ModeOn(Modes[i]), \A j \in 1 .. i - 1 : ~ModeOn(Modes[j]),
             Mode \in {"checkup", "drive_speed", "internet", "net_server", "net_client", "monitor"}
      PROVE  \A f \in {"list_stats", "stats", "list_devices", "compare", "compare_runs"} : ~On(f)
  <2>1. i \in 7 .. 12 BY <1>1 DEF Modes
  <2>2. ~ModeOn(Modes[1]) /\ ~ModeOn(Modes[2]) /\ ~ModeOn(Modes[4]) /\ ~ModeOn(Modes[5]) /\ ~ModeOn(Modes[6])
    BY <1>1, <2>1
  <2> QED BY <2>2 DEF Modes, ModeOn
<1>2. ASSUME Mode = "suite" PROVE \A f \in {"list_stats", "stats", "list_devices", "compare", "compare_runs"} : ~On(f)
  <2>1. ~ModeOn(Modes[1]) /\ ~ModeOn(Modes[2]) /\ ~ModeOn(Modes[4]) /\ ~ModeOn(Modes[5]) /\ ~ModeOn(Modes[6])
    BY <1>2, ModeIs
  <2> QED BY <2>1 DEF Modes, ModeOn
<1>3. Mode = "menu" => wants_menu BY ModeIs DEF ModeOn
<1> QED BY <1>1, <1>2, <1>3, ModeIs

-----------------------------------------------------------------------------
Places == {"parsed", "mode", "quick", "validate", "output", "probe", "guard", "tests", "sections", "gates",
           "print", "save", "exports", "exit", "over"}
Choosing == {"parsed", "mode"}
Unchecked == {"parsed", "mode", "quick", "validate"}
Reported == {"save", "exports", "exit"}

NoReport == \A f \in Reports : ~On(f)
Converted == \A f \in Switches \cup Numbers : ~Bad(f)
Checked == \A f \in CheckedUpFront : ~Bad(f)
Unmet == On("assert") /\ ("first" \notin DOMAIN results \/ results["first"] # "ok")

\* The settings: what main knows of them at each stage.
Settled ==
    /\ \A s \in said : s[1] = "typed" /\ s[2] \in Switches \cup Numbers => s[3] # "bad"
    /\ Converted
    /\ pc = "parsed" => DOMAIN Parsed \subseteq DOMAIN args
    /\ pc = "mode" => ~On("list_tests") /\ ~On("init_config")
    /\ pc \in Choosing => \A f \in Reports : On(f) => Typing

\* What is measured only after the modes and the checks.
Measured ==
    /\ pc \in Choosing => ~loaded
    /\ pc \notin Choosing \cup {"over"} => NoReport
    /\ loaded => NoReport
    /\ pc \in Unchecked => results = <<>> /\ ~printed
    /\ results # <<>> \/ pc \notin Unchecked \cup {"over"} => Checked

\* What is printed has been judged, and the exit code says how.
Judged ==
    /\ printed => pc \in Reported \cup {"over"}
    /\ pc \in Reported \cup {"print"} => (Unmet => gateFailed)
    /\ pc = "over" /\ printed => code = Died \/ (code = ExitCode /\ (Unmet => gateFailed))
    /\ pc # "over" => code = Running

CliInv ==
    /\ pc \in Places /\ soakErrors \in BOOLEAN /\ gateFailed \in BOOLEAN
    /\ Settled /\ Measured /\ Judged

\* What parse_args returns was typed, and is no bad switch or number.
LEMMA ParsedIs ==
    ASSUME \A s \in said : s[1] = "typed" /\ s[2] \in Switches \cup Numbers => s[3] # "bad"
    PROVE  /\ \A f \in DOMAIN Parsed : Typing /\ (f \in Switches \cup Numbers => Parsed[f] # "bad")
           /\ \A f \in DOMAIN Parsed : \E s \in said : s[1] = "typed" /\ s[2] = f
<1> SUFFICES ASSUME NEW f \in DOMAIN Parsed
             PROVE  /\ Typing /\ (f \in Switches \cup Numbers => Parsed[f] # "bad")
                    /\ \E s \in said : s[1] = "typed" /\ s[2] = f
  OBVIOUS
<1>1. PICK s \in said : s[1] = "typed" /\ s[2] = f BY DEF Parsed
<1>2. Parsed[f] = SaidIn("typed", f) BY DEF Parsed, Typed
<1>3. SaidIn("typed", f) = (CHOOSE t \in said : t[1] = "typed" /\ t[2] = f)[3] BY <1>1 DEF SaidIn
<1>4. PICK t \in said : t[1] = "typed" /\ t[2] = f /\ Parsed[f] = t[3] BY <1>1, <1>2, <1>3
<1> QED BY <1>1, <1>4 DEF Typing

\* The settings of the file and the environment ask for no report, and every
\* switch and number among them was converted.
LEMMA AppliedIs ==
    ASSUME Settled, pc = "parsed", _coerce
    PROVE  /\ \A f \in DOMAIN apply : f \in Reports => f \in DOMAIN Parsed
           /\ \A f \in DOMAIN apply : f \in Switches \cup Numbers => apply[f] # "bad"
<1>1. \A f \in Reports : f \notin Keys
  BY DEF Reports, Keys, Switches, Numbers, Exports, ToSet
<1>2. \A f \in DOMAIN apply : f \in DOMAIN Parsed \/ (f \in Applied /\ ~Explicit(f))
  BY DEF apply, Applied
<1>3. \A f \in DOMAIN apply : f \in Reports => f \in DOMAIN Parsed
  BY <1>1, <1>2 DEF Applied
<1>4. ASSUME NEW f \in DOMAIN apply, f \in Switches \cup Numbers PROVE apply[f] # "bad"
  <2>1. CASE f \in DOMAIN Parsed
    <3>1. apply[f] = Parsed[f] BY <2>1 DEF apply, Explicit
    <3> QED BY <2>1, <3>1, <1>4, ParsedIs DEF Settled
  <2>2. CASE f \notin DOMAIN Parsed
    <3>1. apply[f] = Setting(f) BY <2>2, <1>4 DEF apply, Explicit
    <3>2. f \in Applied BY <1>2, <1>4, <2>2
    <3> QED BY <1>4, <3>1, <3>2 DEF _coerce
  <2> QED BY <2>1, <2>2
<1> QED BY <1>3, <1>4

\* What is parsed satisfies it.
LEMMA CliInit == Init => CliInv
<1> SUFFICES ASSUME Init PROVE CliInv
  OBVIOUS
<1>1. \A s \in said : s[1] = "typed" /\ s[2] \in Switches \cup Numbers => s[3] # "bad"
  BY InvocationsAssumption DEF Init
<1>2. args = Parsed /\ pc = "parsed" /\ ~loaded /\ results = <<>> /\ ~printed /\ code = Running
      /\ soakErrors = FALSE /\ gateFailed = FALSE
  BY DEF Init
<1>3. Settled BY <1>1, <1>2, ParsedIs DEF Settled, Converted, Bad, On, Choosing
<1> QED BY <1>2, <1>3 DEF CliInv, Places, Measured, Judged, Choosing, Unchecked, Reported

\* A step that leaves the settings as they are.
LEMMA SettledStays ==
    ASSUME Settled, UNCHANGED <<said, args>>, pc' \notin Choosing
    PROVE  Settled' /\ (NoReport' <=> NoReport) /\ (Checked' <=> Checked)
BY DEF Settled, Converted, NoReport, Checked, Bad, On, Choosing

\* The next stage of a benchmark: nothing that was judged or chosen changes.
LEMMA GoesOn ==
    ASSUME CliInv, UNCHANGED <<said, args, soakErrors, gateFailed, printed, loaded>>,
           pc \in Places \ (Choosing \cup Reported \cup {"over"}), pc' \in Places \ (Choosing \cup Reported \cup {"print", "over"}),
           pc' \in Unchecked => results' = <<>>, pc' \notin Unchecked => Checked, code' = code
    PROVE  CliInv'
<1>1. Settled' /\ (NoReport' <=> NoReport) /\ (Checked' <=> Checked) BY SettledStays DEF CliInv
<1>2. NoReport /\ ~printed BY DEF CliInv, Measured, Judged
<1>3. Measured' BY <1>1, <1>2 DEF CliInv, Measured
<1>4. Judged' BY <1>2 DEF CliInv, Judged
<1> QED BY <1>1, <1>3, <1>4 DEF CliInv

\* An end before anything is printed.
LEMMA EndsUnprinted ==
    ASSUME CliInv, UNCHANGED <<said, args, soakErrors, gateFailed, printed, results, loaded>>, pc' = "over",
           pc # "over", ~printed \/ code' = Died
    PROVE  CliInv'
<1>1. Settled' /\ (NoReport' <=> NoReport) /\ (Checked' <=> Checked) BY SettledStays DEF CliInv, Choosing
<1>2. Measured' BY <1>1 DEF CliInv, Measured, Choosing, Unchecked
<1>3. Judged' BY DEF CliInv, Judged, Reported
<1> QED BY <1>1, <1>2, <1>3 DEF CliInv, Places

\* Settings and modes.
LEMMA ChoosingStep ==
    ASSUME CliInv, ListTests \/ InitConfig \/ ApplyConfig \/ Report \/ OpenMenu
    PROVE  CliInv'
<1>1. pc \in Choosing /\ ~printed /\ results = <<>> /\ ~loaded /\ code = Running
  BY DEF ListTests, InitConfig, ApplyConfig, Report, OpenMenu, Choosing, CliInv, Measured, Judged, Unchecked
<1>2. CASE ListTests
  BY <1>1, <1>2, EndsUnprinted DEF ListTests, Return, inputs, outcome, Choosing
<1>3. CASE InitConfig
  BY <1>1, <1>3, EndsUnprinted DEF InitConfig, Return, inputs, outcome, Choosing
<1>4. CASE Report
  BY <1>1, <1>4, EndsUnprinted DEF Report, Return, inputs, outcome, Choosing
<1>5. CASE ApplyConfig
  <2>1. pc = "parsed" /\ ~On("list_tests") /\ ~On("init_config") /\ UNCHANGED <<said, soakErrors, gateFailed, printed, results, loaded>>
    BY <1>5 DEF ApplyConfig, inputs, outcome
  <2>2. CASE Return(2) /\ UNCHANGED args
    BY <1>1, <2>1, <2>2, EndsUnprinted DEF Return, Choosing
  <2>3. ASSUME pc' = "mode", code' = code, Converted', ~On("list_tests")', ~On("init_config")',
               \A f \in Reports : On(f)' => Typing
        PROVE  CliInv'
    <3>1. Settled' BY <2>1, <2>3 DEF CliInv, Settled, Choosing, Typing
    <3>2. Measured' BY <1>1, <2>1, <2>3 DEF Measured, Choosing, Unchecked
    <3>3. Judged' BY <1>1, <2>1, <2>3 DEF Judged, Reported
    <3> QED BY <2>1, <2>3, <3>1, <3>2, <3>3 DEF CliInv, Places
  <2>4. CASE Goto("mode") /\ UNCHANGED args
    BY <2>1, <2>3, <2>4 DEF Goto, CliInv, Settled, Converted, Bad, On, Choosing
  <2>5. CASE Goto("mode") /\ args' = apply /\ _coerce
    <3>1. \A f \in DOMAIN Parsed : f \in DOMAIN args /\ Typing
      BY <2>1, ParsedIs DEF CliInv, Settled
    <3>2. \A f \in Reports : f \in DOMAIN apply => f \in DOMAIN Parsed
      BY <2>1, <2>5, AppliedIs DEF CliInv
    <3>3. Converted' BY <2>1, <2>5, AppliedIs DEF CliInv, Converted, Bad, On
    <3>4. "list_tests" \in Reports /\ "init_config" \in Reports BY DEF Reports
    <3> QED BY <2>1, <2>3, <2>5, <3>1, <3>2, <3>3, <3>4 DEF Goto, On
  <2> QED BY <1>5, <2>2, <2>4, <2>5 DEF ApplyConfig
<1>6. CASE OpenMenu
  <2>1. UNCHANGED <<soakErrors, gateFailed, printed, results, loaded>> BY <1>6 DEF OpenMenu, outcome
  <2>2. CASE (\E c \in {0, Died} : Return(c)) /\ UNCHANGED <<inputs, args>>
    BY <1>1, <2>1, <2>2, EndsUnprinted DEF Return, Choosing, inputs
  <2>3. ASSUME NEW choice \in Menu,
               said' = {s \in said : s[1] # "typed"} \cup {<<"typed", f, "good">> : f \in choice},
               args' = [f \in choice |-> "good"], pc' = "parsed", code' = code
        PROVE  CliInv'
    <3>1. \A s \in said' : s[1] = "typed" => s[2] \in choice /\ s[3] = "good" BY <2>3
    <3>2. Converted' BY <2>3 DEF Converted, Bad, On
    <3>3. (DOMAIN Parsed)' \subseteq choice BY <3>1 DEF Parsed
    <3>4. \A f \in Reports : On(f)' => Typing'
      <4>1. ASSUME NEW f \in choice PROVE Typing'
        <5>1. <<"typed", f, "good">> \in said' BY <2>3
        <5> QED BY <5>1 DEF Typing
      <4> QED BY <2>3, <4>1 DEF On
    <3>5. Settled' BY <2>3, <3>1, <3>2, <3>3, <3>4 DEF Settled, Choosing
    <3>6. Measured' BY <1>1, <2>1, <2>3 DEF Measured, Choosing, Unchecked
    <3>7. Judged' BY <1>1, <2>1, <2>3 DEF Judged, Reported
    <3> QED BY <2>1, <2>3, <3>5, <3>6, <3>7 DEF CliInv, Places
  <2> QED BY <1>6, <2>2, <2>3 DEF OpenMenu, Goto
<1> QED BY <1>2, <1>3, <1>4, <1>5, <1>6

\* A benchmark begins, or another measurement is made, when no report was
\* asked for.
LEMMA BeginStep ==
    ASSUME CliInv, BareWithoutTerminal \/ Measure \/ Suite \/ Quick
    PROVE  CliInv'
<1>1. CASE BareWithoutTerminal \/ Suite
  <2>1. pc = "mode" /\ pc' = "quick" /\ UNCHANGED <<said, args, soakErrors, gateFailed, printed, results, loaded, code>>
    BY <1>1 DEF BareWithoutTerminal, Suite, Goto, inputs, outcome
  <2>2. NoReport
    <3>1. CASE Suite
      <4>1. \A f \in {"list_stats", "stats", "list_devices", "compare", "compare_runs"} : ~On(f)
        BY <3>1, NoReportBefore DEF Suite
      <4>2. ~On("list_tests") /\ ~On("init_config") BY <2>1 DEF CliInv, Settled
      <4> QED BY <4>1, <4>2 DEF NoReport, Reports
    <3>2. CASE BareWithoutTerminal
      <4>1. wants_menu /\ ~On("menu") BY <3>2, NoReportBefore DEF BareWithoutTerminal
      <4>2. ~Typing BY <4>1 DEF wants_menu
      <4> QED BY <2>1, <4>2 DEF CliInv, Settled, Choosing, NoReport
    <3> QED BY <1>1, <3>1, <3>2
  <2>3. Settled' /\ NoReport' BY <2>1, <2>2, SettledStays DEF CliInv, Choosing
  <2>4. results = <<>> /\ ~printed /\ code = Running BY <2>1 DEF CliInv, Measured, Judged, Unchecked
  <2>5. Measured' /\ Judged' BY <2>1, <2>3, <2>4 DEF Measured, Judged, Choosing, Unchecked, Reported
  <2> QED BY <2>1, <2>3, <2>5 DEF CliInv, Places
<1>2. CASE Measure
  <2>1. pc = "mode" /\ pc' = "over" /\ UNCHANGED <<said, args, soakErrors, gateFailed, printed, results>>
    BY <1>2 DEF Measure, Return, inputs
  <2>2. NoReport
    <3>1. \A f \in {"list_stats", "stats", "list_devices", "compare", "compare_runs"} : ~On(f)
      BY <1>2, NoReportBefore DEF Measure, Measurements
    <3>2. ~On("list_tests") /\ ~On("init_config") BY <2>1 DEF CliInv, Settled
    <3> QED BY <3>1, <3>2 DEF NoReport, Reports
  <2>3. Settled' /\ NoReport' BY <2>1, <2>2, SettledStays DEF CliInv, Choosing
  <2>4. results = <<>> /\ ~printed BY <2>1 DEF CliInv, Measured, Unchecked
  <2>5. Measured' /\ Judged' BY <2>1, <2>3, <2>4 DEF Measured, Judged, Choosing, Unchecked, Reported
  <2> QED BY <2>1, <2>3, <2>5 DEF CliInv, Places
<1>3. CASE Quick
  <2>1. pc = "quick" /\ pc' = "validate" /\ code' = code /\ UNCHANGED <<said, soakErrors, gateFailed, printed, results, loaded>>
    BY <1>3 DEF Quick, Goto, inputs, outcome
  <2>2. \A f : On(f)' /\ f \notin {"seconds", "disk_mb"} => On(f) BY <1>3 DEF Quick, On
  <2>3. \A f : Bad(f)' => Bad(f) BY <1>3 DEF Quick, On, Bad
  <2>4. NoReport /\ results = <<>> /\ ~printed /\ code = Running BY <2>1 DEF CliInv, Measured, Judged, Choosing, Unchecked
  <2>5. NoReport' BY <2>2, <2>4 DEF NoReport, Reports
  <2>6. Settled' BY <2>1, <2>3 DEF CliInv, Settled, Converted, Choosing
  <2>7. Measured' /\ Judged' BY <2>1, <2>4, <2>5 DEF Measured, Judged, Choosing, Unchecked, Reported
  <2> QED BY <2>1, <2>6, <2>7 DEF CliInv, Places
<1> QED BY <1>1, <1>2, <1>3

\* The checks before a benchmark.
LEMMA CheckStep ==
    ASSUME CliInv, Validate \/ MakeProbe \/ RemoveProbe \/ OtherRun \/ Guard
    PROVE  CliInv'
<1>1. CASE Validate
  <2>1. pc = "validate" /\ UNCHANGED <<said, args, soakErrors, gateFailed, printed, loaded>>
    BY <1>1 DEF Validate, inputs
  <2>2. CASE Malformed /\ Return(2) /\ UNCHANGED results
    <3>1. ~printed BY <2>1 DEF CliInv, Measured, Unchecked
    <3> QED BY <2>1, <2>2, <3>1, EndsUnprinted DEF Return
  <2>3. CASE ~Malformed /\ Goto(IF On("no_save") THEN "guard" ELSE "output")
    <3>1. Checked BY <2>3 DEF Malformed, Checked
    <3>2. pc' \in {"guard", "output"} /\ code' = code BY <2>3 DEF Goto
    <3> QED BY <2>1, <3>1, <3>2, GoesOn DEF Places, Choosing, Reported, Unchecked
  <2> QED BY <1>1, <2>2, <2>3 DEF Validate
<1>2. ASSUME pc \in {"output", "probe", "guard"}, UNCHANGED <<said, args, soakErrors, gateFailed, printed, loaded, results>>,
             \/ pc' \in {"output", "probe", "guard", "tests"} /\ code' = code
             \/ pc' = "over"
      PROVE  CliInv'
  <2>1. ~printed /\ Checked BY <1>2 DEF CliInv, Judged, Measured, Reported, Unchecked
  <2>2. CASE pc' = "over" BY <1>2, <2>1, <2>2, EndsUnprinted
  <2>3. CASE pc' # "over" BY <1>2, <2>1, <2>3, GoesOn DEF Places, Choosing, Reported, Unchecked
  <2> QED BY <2>2, <2>3
<1>3. CASE MakeProbe BY <1>2, <1>3 DEF MakeProbe, Goto, Return, inputs, outcome
<1>4. CASE RemoveProbe BY <1>2, <1>4 DEF RemoveProbe, Goto, Return, inputs, outcome
<1>5. CASE OtherRun BY <1>2, <1>5 DEF OtherRun, inputs, outcome
<1>6. CASE Guard BY <1>2, <1>6 DEF Guard, Goto, Return, inputs, outcome
<1> QED BY <1>1, <1>3, <1>4, <1>5, <1>6

\* Tests and sections, and what becomes of the gates.
LEMMA BenchmarkStep ==
    ASSUME CliInv, RunTest \/ TestsOver \/ RunSection \/ PluginEscapes \/ Score \/ EvaluateGates
    PROVE  CliInv'
<1>1. pc \in {"tests", "sections", "gates"} /\ ~printed /\ NoReport /\ UNCHANGED <<said, args, printed>>
  BY DEF RunTest, TestsOver, RunSection, PluginEscapes, Score, EvaluateGates, CliInv, Judged, Measured, Reported,
         Choosing, inputs, outcome
<1>2. (Settled' /\ NoReport' /\ (Checked' <=> Checked)) \/ pc' \in Choosing
  BY <1>1, SettledStays DEF CliInv
<1>3. ASSUME pc' \in {"tests", "sections", "gates"}, code' = code,
             soakErrors' \in BOOLEAN, gateFailed' \in BOOLEAN
      PROVE  CliInv'
  <2>1. Measured' BY <1>1, <1>2, <1>3 DEF CliInv, Measured, Choosing, Unchecked
  <2>2. Judged' BY <1>1, <1>3 DEF CliInv, Judged, Reported
  <2> QED BY <1>2, <1>3, <2>1, <2>2 DEF CliInv, Places, Choosing
<1>4. ASSUME pc' = "over", UNCHANGED <<results, loaded, soakErrors, gateFailed>>
      PROVE  CliInv'
  BY <1>1, <1>4, EndsUnprinted
<1>5. CASE RunTest
  <2>1. pc' = pc /\ code' = code /\ UNCHANGED <<soakErrors, gateFailed>> BY <1>5 DEF RunTest
  <2> QED BY <1>1, <1>3, <2>1 DEF CliInv
<1>6. CASE TestsOver
  BY <1>1, <1>3, <1>6 DEF TestsOver, Goto, outcome, CliInv
<1>7. CASE RunSection
  BY <1>1, <1>3, <1>4, <1>7 DEF RunSection, Return, CliInv
<1>8. CASE PluginEscapes
  BY <1>1, <1>4, <1>8 DEF PluginEscapes, Return, outcome
<1>9. CASE Score
  BY <1>1, <1>3, <1>4, <1>9 DEF Score, Goto, Return, outcome, CliInv
<1>10. CASE EvaluateGates
  <2>1. UNCHANGED <<results, loaded, soakErrors>> BY <1>10 DEF EvaluateGates
  <2>2. CASE Return(Died) /\ UNCHANGED gateFailed BY <1>4, <2>1, <2>2 DEF Return
  <2>3. CASE /\ \E met \in IF On("assert") THEN Verdicts("first") ELSE {TRUE},
                   enough \in IF On("fail_under") THEN BOOLEAN ELSE {TRUE} :
                     gateFailed' = ~(met /\ enough)
             /\ Goto("print")
    <3>1. pc' = "print" /\ code' = code /\ gateFailed' \in BOOLEAN BY <2>3 DEF Goto
    <3>2. Unmet' => gateFailed'
      <4>1. Unmet' <=> Unmet BY <1>1, <2>1 DEF Unmet, On
      <4>2. ASSUME Unmet PROVE gateFailed' = TRUE
        <5>1. On("assert") /\ Verdicts("first") = {FALSE} BY <4>2 DEF Unmet, Verdicts
        <5> QED BY <2>3, <5>1
      <4> QED BY <4>1, <4>2
    <3>3. Measured' BY <1>1, <1>2, <2>1, <3>1 DEF CliInv, Measured, Choosing, Unchecked
    <3>4. Judged' BY <1>1, <3>1, <3>2 DEF CliInv, Judged, Reported
    <3> QED BY <1>2, <2>1, <3>1, <3>3, <3>4 DEF CliInv, Places, Choosing
  <2> QED BY <1>10, <2>2, <2>3 DEF EvaluateGates
<1> QED BY <1>5, <1>6, <1>7, <1>8, <1>9, <1>10

\* What is written, and the exit code.
LEMMA ReportStep ==
    ASSUME CliInv, PrintReport \/ Save \/ WriteExports \/ Exit
    PROVE  CliInv'
<1>1. /\ pc \in Reported \cup {"print"} /\ pc' \in Reported \cup {"over"}
      /\ UNCHANGED <<said, args, soakErrors, gateFailed, loaded, results>>
      /\ pc' = "over" => pc = "exit" /\ code' = ExitCode /\ printed' = printed
      /\ pc' # "over" => code' = code
  BY DEF PrintReport, Save, WriteExports, Exit, Goto, Return, Reported, inputs, outcome
<1>2. Settled' /\ (NoReport' <=> NoReport) /\ (Checked' <=> Checked)
  BY <1>1, SettledStays DEF CliInv, Choosing, Reported
<1>3. (Unmet' <=> Unmet) /\ (ExitCode)' = ExitCode
  BY <1>1 DEF Unmet, On, ExitCode, Invalid
<1>4. Measured' BY <1>1, <1>2 DEF CliInv, Measured, Choosing, Unchecked, Reported
<1>5. Judged' BY <1>1, <1>3 DEF CliInv, Judged, Reported
<1> QED BY <1>1, <1>2, <1>4, <1>5 DEF CliInv, Places, Reported

\* Every step keeps the invariant.
LEMMA CliStep == CliInv /\ [Next]_vars => CliInv'
<1> SUFFICES ASSUME CliInv, [Next]_vars PROVE CliInv'
  OBVIOUS
<1>1. CASE UNCHANGED vars
  <2>1. UNCHANGED <<said, args, pc, results, loaded, soakErrors, gateFailed, printed, code>>
    BY <1>1 DEF vars, inputs, outcome
  <2>2. Settled' BY <2>1 DEF CliInv, Settled, Converted, Bad, On, Choosing, Typing, Parsed, Typed, SaidIn
  <2>3. Measured' BY <2>1 DEF CliInv, Measured, NoReport, Checked, Bad, On
  <2>4. Judged' BY <2>1 DEF CliInv, Judged, Unmet, On, ExitCode, Invalid
  <2> QED BY <2>1, <2>2, <2>3, <2>4 DEF CliInv
<1>2. CASE Die
  <2>1. pc' = "over" /\ pc # "over" /\ code' = Died
        /\ UNCHANGED <<said, args, soakErrors, gateFailed, printed, results, loaded>>
    BY <1>2 DEF Die, Return, inputs, outcome
  <2> QED BY <2>1, EndsUnprinted
<1>3. CASE Over BY <1>1, <1>3 DEF Over
<1> QED
  BY <1>1, <1>2, <1>3, ChoosingStep, BeginStep, CheckStep, BenchmarkStep, ReportStep DEF Next, main

\* It holds whatever part of the composition moves.
LEMMA CliKept == AllSpec => []CliInv
<1>1. AllInit => CliInv BY CliInit DEF AllInit
<1>2. CliInv /\ [AllNext]_allVars => CliInv'
  <2>1. [AllNext]_allVars => [Next]_vars BY DEF AllNext, allVars, Invokes, ChecksUp, Asks
  <2> QED BY <2>1, CliStep
<1> QED BY <1>1, <1>2, PTL DEF AllSpec

(* The exit code names the worst of what happened, and 0 says that nothing *)
(* did, for any invocation (docs/packages.md 586).                         *)
THEOREM ExitCodeTellsTheWorst == AllSpec => []ExitTellsTheWorst
<1>1. CliInv => ExitTellsTheWorst
  <2> SUFFICES ASSUME CliInv, code \in {0, 4, 6, 7}, printed
               PROVE  /\ code = 4 <=> \E t \in DOMAIN results : results[t] = "invalid"
                      /\ soakErrors => code \in {4, 7}
                      /\ On("assert") /\ ("first" \notin DOMAIN results \/ results["first"] # "ok") => code # 0
                      /\ code = 6 => gateFailed
                      /\ code = 0 => ~gateFailed
    BY DEF ExitTellsTheWorst
  <2>1. pc = "over" BY DEF CliInv, Judged, Running
  <2>2. code = ExitCode /\ (Unmet => gateFailed) BY <2>1 DEF CliInv, Judged, Died
  <2> QED BY <2>2 DEF ExitCode, Invalid, Unmet
<1> QED BY <1>1, CliKept, PTL

(* No test has run with a malformed value, whatever source it came from,   *)
(* for any invocation (cli.py 901-920, config.py 159-198).                 *)
THEOREM TyposCostNothing == AllSpec => []TypoCostsNothing
<1>1. CliInv => TypoCostsNothing
  <2> SUFFICES ASSUME CliInv, \E t \in DOMAIN results : results[t] # "to do",
                      NEW f \in Switches \cup Numbers \cup {"only", "profile", "skip", "sustained", "soak", "assert"}
               PROVE  ~Bad(f)
    BY DEF TypoCostsNothing
  <2>1. results # <<>>
    <3>1. CASE results = <<>>
      <4>1. DOMAIN results = {} BY <3>1, EmptyDomain
      <4> QED BY <4>1
    <3> QED BY <3>1
  <2> QED BY <2>1 DEF CliInv, Settled, Converted, Measured, Checked, CheckedUpFront
<1> QED BY <1>1, CliKept, PTL

(* Nothing is measured by an invocation that asks for a report, whatever   *)
(* else it asks for, and whatever the settings and the menu say (cli.py    *)
(* 705-771).                                                               *)
THEOREM ReportsNeverLoad == AllSpec => []ReportsLoadNothing
<1>1. CliInv => ReportsLoadNothing BY DEF CliInv, Measured, NoReport, ReportsLoadNothing
<1> QED BY <1>1, CliKept, PTL

-----------------------------------------------------------------------------
(* The checkup.                                                            *)
Names ==
    {"system", "state", "processes", "memory", "disks", "power_mode", "provenance", "drives", "accelerators", "uptime",
     "confinement", "history", "cpu_int", "copies", "disk", "sustained"}
\* The order of the sections: the sources, then the probes.
LEMMA ConcatIs ==
    \A s, t \in Seq(Names) :
        /\ Len(s \o t) = Len(s) + Len(t) /\ DOMAIN (s \o t) = 1 .. Len(s) + Len(t)
        /\ \A i \in 1 .. Len(s) : (s \o t)[i] = s[i]
        /\ \A i \in 1 .. Len(t) : (s \o t)[Len(s) + i] = t[i]
<1> HIDE DEF Names
<1> QED OBVIOUS

\* The sources come first, then what is measured.
LEMMA OrderIs ==
    ASSUME NEW m \in BOOLEAN
    PROVE  /\ m = TRUE => Len(K!Order(m)) = 16
           /\ m = FALSE => Len(K!Order(m)) = 12
           /\ DOMAIN K!Order(m) = 1 .. Len(K!Order(m))
           /\ \A i \in 1 .. 12 : K!Order(m)[i] = K!SOURCES[i]
           /\ m = TRUE => \A i \in 1 .. 4 : K!Order(m)[12 + i] = K!PROBES[i]
<1>1. K!SOURCES \in Seq(Names) /\ Len(K!SOURCES) = 12 BY DEF K!SOURCES, Names
<1>2. K!PROBES \in Seq(Names) /\ Len(K!PROBES) = 4 BY DEF K!PROBES, Names
<1>3. CASE m = TRUE
  <2>1. K!Order(m) = K!SOURCES \o K!PROBES BY <1>3 DEF K!Order
  <2>2. /\ Len(K!SOURCES \o K!PROBES) = Len(K!SOURCES) + Len(K!PROBES)
        /\ DOMAIN (K!SOURCES \o K!PROBES) = 1 .. Len(K!SOURCES) + Len(K!PROBES)
        /\ \A i \in 1 .. Len(K!SOURCES) : (K!SOURCES \o K!PROBES)[i] = K!SOURCES[i]
        /\ \A i \in 1 .. Len(K!PROBES) : (K!SOURCES \o K!PROBES)[Len(K!SOURCES) + i] = K!PROBES[i]
    BY <1>1, <1>2, ConcatIs, Zenon
  <2>3. /\ Len(K!Order(m)) = 12 + 4
        /\ DOMAIN K!Order(m) = 1 .. 12 + 4
        /\ \A i \in 1 .. 12 : K!Order(m)[i] = K!SOURCES[i]
        /\ \A i \in 1 .. 4 : K!Order(m)[12 + i] = K!PROBES[i]
    BY <1>1, <1>2, <2>1, <2>2, Zenon
  <2>4. 12 + 4 = 16 OBVIOUS
  <2>5. /\ Len(K!Order(m)) = 16
        /\ DOMAIN K!Order(m) = 1 .. 16
        /\ \A i \in 1 .. 12 : K!Order(m)[i] = K!SOURCES[i]
        /\ \A i \in 1 .. 4 : K!Order(m)[12 + i] = K!PROBES[i]
    BY <2>3, <2>4, Zenon
  <2> QED BY <1>3, <2>5, Zenon
<1>4. CASE m = FALSE
  <2>1. K!Order(m) = K!SOURCES \o <<>> BY <1>4 DEF K!Order
  <2>2. K!SOURCES \o <<>> = K!SOURCES BY <1>1
  <2>3. K!Order(m) = K!SOURCES BY <2>1, <2>2
  <2>4. DOMAIN K!SOURCES = 1 .. 12 BY <1>1
  <2> QED BY <1>1, <1>4, <2>3, <2>4
<1> QED BY <1>3, <1>4

\* Every section has one place, and none measured is among the sources.
LEMMA OrderOnce ==
    ASSUME NEW m \in BOOLEAN
    PROVE  /\ Len(K!Order(m)) \in {12, 16} /\ DOMAIN K!Order(m) = 1 .. Len(K!Order(m))
           /\ K!Order(m)[2] = "state" /\ K!Order(m)[3] = "processes"
           /\ \A i, j \in 1 .. Len(K!Order(m)) : K!Order(m)[i] = K!Order(m)[j] => i = j
           /\ \A i \in 1 .. 12 : \A j \in 1 .. 4 : K!Order(m)[i] # K!PROBES[j]
<1> DEFINE order == K!Order(m)
           n == Len(order)
<1>1. \A i \in 1 .. 12 : \A j \in 1 .. 4 : K!SOURCES[i] # K!PROBES[j] BY DEF K!SOURCES, K!PROBES
<1>2. \A i, j \in 1 .. 12 : K!SOURCES[i] = K!SOURCES[j] => i = j BY DEF K!SOURCES
<1>3. \A i, j \in 1 .. 4 : K!PROBES[i] = K!PROBES[j] => i = j BY DEF K!PROBES
<1>4. K!SOURCES[2] = "state" /\ K!SOURCES[3] = "processes" BY DEF K!SOURCES
<1>5. m = TRUE \/ m = FALSE OBVIOUS
<1>6. n \in {12, 16} BY <1>5, OrderIs
<1>7. DOMAIN order = 1 .. n /\ \A i \in 1 .. 12 : order[i] = K!SOURCES[i] BY OrderIs
<1>8. n = 16 => \A i \in 1 .. 4 : order[12 + i] = K!PROBES[i]
  <2>1. 12 # 16 OBVIOUS
  <2>2. n = 16 => m = TRUE BY <1>5, <2>1, OrderIs, Zenon
  <2> QED BY <2>2, OrderIs, Zenon
<1> HIDE DEF order, n
<1>9. ASSUME NEW i \in 13 .. n PROVE i - 12 \in 1 .. 4 /\ order[i] = K!PROBES[i - 12]
  <2>1. n = 16 /\ i - 12 \in 1 .. 4 BY <1>6
  <2>2. order[12 + (i - 12)] = K!PROBES[i - 12] BY <1>8, <2>1
  <2>3. 12 + (i - 12) = i OBVIOUS
  <2> QED BY <2>1, <2>2, <2>3
<1>10. ASSUME NEW i \in 1 .. n, NEW j \in 1 .. n, order[i] = order[j] PROVE i = j
  <2>1. (i \in 1 .. 12 \/ i \in 13 .. n) /\ (j \in 1 .. 12 \/ j \in 13 .. n) BY <1>6
  <2>2. CASE i \in 1 .. 12 /\ j \in 1 .. 12 BY <1>2, <1>7, <1>10, <2>2
  <2>3. CASE i \in 13 .. n /\ j \in 13 .. n
    <3>1. i - 12 = j - 12 BY <1>3, <1>9, <1>10, <2>3
    <3> QED BY <3>1
  <2>4. CASE i \in 1 .. 12 /\ j \in 13 .. n BY <1>1, <1>7, <1>9, <1>10, <2>4
  <2>5. CASE i \in 13 .. n /\ j \in 1 .. 12 BY <1>1, <1>7, <1>9, <1>10, <2>5
  <2> QED BY <2>1, <2>2, <2>3, <2>4, <2>5
<1>11. order[2] = "state" /\ order[3] = "processes" BY <1>4, <1>7
<1>12. \A i \in 1 .. 12 : \A j \in 1 .. 4 : order[i] # K!PROBES[j] BY <1>1, <1>7
<1> QED BY <1>6, <1>7, <1>10, <1>11, <1>12, Zenon DEF order, n

\* The parts of a rule.
LEMMA RuleIs ==
    ASSUME NEW c, NEW f, NEW s, NEW u, NEW v
    PROVE  /\ K!Rule(c, f, s, u, v).check = c /\ K!Rule(c, f, s, u, v).fact = f /\ K!Rule(c, f, s, u, v).from = s
           /\ K!Rule(c, f, s, u, v).unless = u /\ K!Rule(c, f, s, u, v).severity = v
BY DEF K!Rule

\* What every rule is: of a check, of some section; a critical one gives way
\* to none, and what the program's own load looks like is read from two.
Sane(r) ==
    /\ r.check \in {K!CHECKS[i] : i \in 1 .. 11}
    /\ r.severity \in {"critical", "warning", "info"}
    /\ r.from # {}
    /\ r.severity = "critical" => r.unless = {}
    /\ r.fact \in K!OwnLoad => r.from \subseteq {"state", "processes"}

\* All rules are so, one check after the other.
LEMMA RulesAreSane == \A r \in K!AllRules : Sane(r)
<1> USE DEF Sane, K!OwnLoad, K!CHECKS
<1>1. \A r \in K!ThermalRules : Sane(r) BY RuleIs DEF K!ThermalRules
<1>2. \A r \in K!PowerRules : Sane(r) BY RuleIs DEF K!PowerRules
<1>3. \A r \in K!CpuRules : Sane(r) BY RuleIs DEF K!CpuRules
<1>4. \A r \in K!GpuRules : Sane(r) BY RuleIs DEF K!GpuRules
<1>5. \A r \in K!ContentionRules : Sane(r) BY RuleIs DEF K!ContentionRules
<1>6. \A r \in K!MemoryRules : Sane(r) BY RuleIs DEF K!MemoryRules
<1>7. \A r \in K!RamRules : Sane(r) BY RuleIs DEF K!RamRules
<1>8. \A r \in K!VolumeRules : Sane(r) BY RuleIs DEF K!VolumeRules
<1>9. \A r \in K!DriveRules : Sane(r) BY RuleIs DEF K!DriveRules
<1>10. \A r \in K!ConfigurationRules : Sane(r) BY RuleIs DEF K!ConfigurationRules
<1>11. \A r \in K!MeasuredRules : Sane(r) BY RuleIs DEF K!MeasuredRules
<1>12. \A r \in K!RegressionRules : Sane(r) BY RuleIs DEF K!RegressionRules
<1> HIDE DEF Sane
<1> QED BY <1>1, <1>2, <1>3, <1>4, <1>5, <1>6, <1>7, <1>8, <1>9, <1>10, <1>11, <1>12 DEF K!AllRules
\* What is measured, as a set.
LEMMA ProbesAre == K!Range(K!PROBES) = {K!PROBES[j] : j \in 1 .. 4}
<1>1. DOMAIN K!PROBES = 1 .. 4 BY DEF K!PROBES
<1> QED BY <1>1 DEF K!Range

\* There are eleven checks.
LEMMA ChecksAre == Len(K!CHECKS) = 11
BY DEF K!CHECKS

-----------------------------------------------------------------------------
\* The invariant. How far the run is; what was passed is in the evidence, and
\* only that; what is found fires, and what fires is found; the sentence.
Gathering == stage \in {"gather", "raised"}
Section(i) == K!Order(measure)[i]
Passed == 1 .. (IF Gathering THEN at ELSE Len(K!Order(measure)))
Readable(f) == f \in troubles /\ K!Known(f)

Placed ==
    /\ measure \in BOOLEAN /\ stage \in {"gather", "analyse", "reported", "raised"} /\ at \in Nat
    /\ Gathering => at <= Len(K!Order(measure))
    /\ ~Gathering => at <= 11
    /\ Gathering /\ at <= 12 => ~warm
Gathered ==
    /\ \A s \in absent : \E i \in Passed : s = Section(i)
    /\ \A i \in Passed :
          Section(i) \in absent \/
          \A r \in K!AllRules : Section(i) \in r.from /\ Readable(r.fact) => <<Section(i), r.fact>> \in evidence
    /\ \A e \in evidence :
          \E i \in Passed, r \in K!AllRules :
              e = <<Section(i), r.fact>> /\ Section(i) \notin absent /\ Section(i) \in r.from /\ Readable(r.fact)
Analysed ==
    /\ Gathering => findings = {}
    /\ \A f \in findings :
          f.severity = "info" \/ \E r \in K!AllRules : f = K!Found(r) /\ r.check \notin broken /\ K!Fires(r)
    /\ ~Gathering => \A i \in 1 .. at : K!CHECKS[i] \notin broken => K!FindingsOf(K!CHECKS[i]) \subseteq findings
Sentence ==
    /\ stage = "reported" => at = 11
    /\ stage # "reported" => verdict = K!Nothing
    /\ stage = "reported" =>
          \/ K!Actionable(findings) = {} /\ verdict = K!Nothing
          \/ \E first \in K!Leading(K!Actionable(findings)) :
                verdict = [lead |-> IF K!Critical THEN "cause" ELSE "contributor", of |-> first]
CheckupInv == Placed /\ Gathered /\ Analysed /\ Sentence

\* It holds before anything is gathered.
LEMMA CheckupInit == K!Init => CheckupInv
<1> SUFFICES ASSUME K!Init PROVE CheckupInv
  OBVIOUS
<1>1. measure \in BOOLEAN /\ at = 0 /\ stage = "gather" /\ warm = FALSE /\ evidence = {} /\ absent = {} /\ findings = {}
      /\ verdict = K!Nothing
  BY DEF K!Init
<1>2. Gathering /\ Passed = {} BY <1>1 DEF Gathering, Passed
<1>3. Len(K!Order(measure)) \in {12, 16} BY <1>1, OrderOnce
<1>4. Placed BY <1>1, <1>2, <1>3 DEF Placed, Gathering
<1>5. Gathered /\ Analysed /\ Sentence BY <1>1, <1>2 DEF Gathered, Analysed, Sentence
<1> QED BY <1>4, <1>5 DEF CheckupInv

\* A section is passed once: what is due was not passed.
LEMMA DueIs ==
    ASSUME CheckupInv, NEW s, K!Due(s)
    PROVE  /\ Gathering /\ Passed = 1 .. at /\ at + 1 \in 1 .. Len(K!Order(measure)) /\ s = Section(at + 1)
           /\ \A i \in 1 .. at : Section(i) # s
           /\ s \notin absent
           /\ at + 1 <= 12 => s \notin K!Range(K!PROBES)
           /\ s \in {"state", "processes"} => ~warm
<1>1. stage = "gather" /\ at < Len(K!Order(measure)) /\ s = Section(at + 1) BY DEF K!Due, Section
<1>2. Gathering /\ Passed = 1 .. at BY <1>1 DEF Gathering, Passed
<1>3. at \in Nat /\ measure \in BOOLEAN BY DEF CheckupInv, Placed
<1>4. Len(K!Order(measure)) \in {12, 16} BY <1>3, OrderOnce
<1>5. at + 1 \in 1 .. Len(K!Order(measure)) BY <1>1, <1>3, <1>4
<1>6. \A i, j \in 1 .. Len(K!Order(measure)) : Section(i) = Section(j) => i = j BY <1>3, OrderOnce DEF Section
<1>7. ASSUME NEW i \in 1 .. at PROVE Section(i) # s
  <2>1. i \in 1 .. Len(K!Order(measure)) /\ i # at + 1 BY <1>1, <1>3, <1>4
  <2> QED BY <1>1, <1>5, <1>6, <2>1
<1>8. s \notin absent BY <1>2, <1>7 DEF CheckupInv, Gathered
<1>9. at + 1 <= 12 => s \notin K!Range(K!PROBES)
  <2>1. \A i \in 1 .. 12 : \A j \in 1 .. 4 : Section(i) # K!PROBES[j] BY <1>3, OrderOnce DEF Section
  <2> QED BY <1>1, <1>3, <2>1, ProbesAre
<1>10. s \in {"state", "processes"} => ~warm
  <2>1. Section(2) = "state" /\ Section(3) = "processes" BY <1>3, OrderOnce DEF Section
  <2>7. \A n \in {12, 16} : 2 \in 1 .. n /\ 3 \in 1 .. n OBVIOUS
  <2>4. 2 \in 1 .. Len(K!Order(measure)) /\ 3 \in 1 .. Len(K!Order(measure)) BY <1>4, <2>7, Zenon
  <2>5. s = "state" => at + 1 = 2 BY <1>1, <1>5, <1>6, <2>1, <2>4
  <2>6. s = "processes" => at + 1 = 3 BY <1>1, <1>5, <1>6, <2>1, <2>4
  <2>2. s \in {"state", "processes"} => at + 1 \in {2, 3} BY <2>5, <2>6
  <2>3. s \in {"state", "processes"} => at <= 12 BY <1>3, <2>2
  <2> QED BY <1>2, <2>3 DEF CheckupInv, Placed
<1> QED BY <1>1, <1>2, <1>5, <1>7, <1>8, <1>9, <1>10

\* A section more is passed, whether it was read or not.
LEMMA PassOne ==
    ASSUME CheckupInv, NEW s, K!Due(s), at' = at + 1, UNCHANGED <<measure, stage, findings, verdict>>,
           warm' = (warm \/ s \in K!Range(K!PROBES))
    PROVE  Placed' /\ Analysed' /\ Sentence' /\ Gathering' /\ Passed' = 1 .. at + 1 /\ (\A i : Section(i)' = Section(i))
<1>1. /\ Gathering /\ at + 1 \in 1 .. Len(K!Order(measure))
      /\ at + 1 <= 12 => s \notin K!Range(K!PROBES)
  BY DueIs
<1>2. Gathering' /\ Passed' = 1 .. at + 1 BY <1>1 DEF Gathering, Passed
<1>3. \A i : Section(i)' = Section(i) BY DEF Section
<1>4. at \in Nat /\ (at <= 12 => ~warm) /\ measure \in BOOLEAN BY <1>1 DEF CheckupInv, Placed
<1>11. at + 1 <= 12 => at <= 12 BY <1>4
<1>5. at + 1 <= 12 => ~warm' BY <1>1, <1>4, <1>11, Zenon
<1>6. Placed' BY <1>1, <1>2, <1>4, <1>5 DEF CheckupInv, Placed
<1>7. findings = {} /\ findings' = {} BY <1>1 DEF CheckupInv, Analysed
<1>8. Analysed' BY <1>2, <1>7 DEF Analysed
<1>9. stage = "gather" BY DEF K!Due
<1>10. Sentence' BY <1>9 DEF CheckupInv, Sentence
<1> QED BY <1>2, <1>3, <1>6, <1>8, <1>10

\* What is read of a section is what is wrong, and not the program's own load.
LEMMA ReadingsAre ==
    ASSUME CheckupInv, NEW s, K!Due(s)
    PROVE  /\ \A r \in K!AllRules : s \in r.from /\ Readable(r.fact) => <<s, r.fact>> \in K!Readings(s)
           /\ \A e \in K!Readings(s) : \E r \in K!AllRules : e = <<s, r.fact>> /\ s \in r.from /\ Readable(r.fact)
<1>1. s \in {"state", "processes"} => ~warm BY DueIs
<1>2. ASSUME NEW r \in K!AllRules, s \in r.from, r.fact \in K!Present PROVE r.fact \in troubles
  <2>1. CASE warm
    <3>1. r.fact \notin K!OwnLoad BY <1>1, <1>2, <2>1, RulesAreSane DEF Sane
    <3> QED BY <1>2, <3>1 DEF K!Present
  <2>2. CASE ~warm BY <1>2, <2>2 DEF K!Present
  <2> QED BY <2>1, <2>2
<1>3. troubles \subseteq K!Present BY DEF K!Present
<1> QED BY <1>2, <1>3 DEF K!Readings, Readable

\* A source or a measurement that answers.
LEMMA ReadStep == ASSUME CheckupInv, NEW s, K!Read(s) PROVE CheckupInv'
<1>1. /\ K!Due(s) /\ at' = at + 1 /\ warm' = (warm \/ s \in K!Range(K!PROBES))
      /\ evidence' = evidence \cup K!Readings(s)
      /\ UNCHANGED <<platform, measure, troubles, broken, stage, absent, findings, verdict>>
  BY DEF K!Read
<1>2. /\ Placed' /\ Analysed' /\ Sentence' /\ Passed' = 1 .. at + 1 /\ (\A i : Section(i)' = Section(i))
  BY <1>1, PassOne
<1>3. /\ Passed = 1 .. at /\ s = Section(at + 1) /\ s \notin absent BY <1>1, DueIs
<1>4. at \in Nat BY DEF CheckupInv, Placed
<1>0. PICK n : n = at + 1 OBVIOUS
<1>5. \A i : i \in Passed' <=> i \in Passed \/ i = n BY <1>0, <1>2, <1>3, <1>4
<1>6. \A f : Readable(f)' = Readable(f) BY <1>1 DEF Readable, K!Known, K!Answers, K!Overlooked
<1>7. /\ \A r \in K!AllRules : s \in r.from /\ Readable(r.fact) => <<s, r.fact>> \in K!Readings(s)
      /\ \A e \in K!Readings(s) : \E r \in K!AllRules : e = <<s, r.fact>> /\ s \in r.from /\ Readable(r.fact)
  BY <1>1, ReadingsAre
<1>8. Gathered'
  <2>1. \A t \in absent' : \E i \in Passed' : t = Section(i)' BY <1>1, <1>2, <1>5 DEF CheckupInv, Gathered
  <2>2. ASSUME NEW i \in Passed', Section(i)' \notin absent', NEW r \in K!AllRules, Section(i)' \in r.from, Readable(r.fact)'
        PROVE  <<Section(i)', r.fact>> \in evidence'
    <3>1. Section(i)' = Section(i) /\ Readable(r.fact) /\ absent' = absent BY <1>1, <1>2, <1>6, <2>2
    <3>2. CASE i \in Passed BY <1>1, <2>2, <3>1, <3>2 DEF CheckupInv, Gathered
    <3>3. CASE i = n BY <1>0, <1>1, <1>3, <1>7, <2>2, <3>1, <3>3
    <3> QED BY <1>5, <3>2, <3>3
  <2>3. ASSUME NEW e \in evidence'
        PROVE  \E i \in Passed', r \in K!AllRules :
                   e = <<Section(i)', r.fact>> /\ Section(i)' \notin absent' /\ Section(i)' \in r.from /\ Readable(r.fact)'
    <3>1. CASE e \in evidence
      <4>1. PICK i \in Passed, r \in K!AllRules :
                e = <<Section(i), r.fact>> /\ Section(i) \notin absent /\ Section(i) \in r.from /\ Readable(r.fact)
        BY <3>1 DEF CheckupInv, Gathered
      <4>2. i \in Passed' /\ Section(i)' = Section(i) /\ absent' = absent /\ Readable(r.fact)' BY <1>1, <1>2, <1>5, <1>6, <4>1
      <4> QED BY <4>1, <4>2
    <3>2. CASE e \in K!Readings(s)
      <4>1. PICK r \in K!AllRules : e = <<s, r.fact>> /\ s \in r.from /\ Readable(r.fact) BY <1>7, <3>2
      <4>2. n \in Passed' /\ Section(n)' = s /\ s \notin absent' /\ Readable(r.fact)'
        BY <1>0, <1>1, <1>2, <1>3, <1>5, <1>6, <4>1
      <4> QED BY <4>1, <4>2
    <3> QED BY <1>1, <3>1, <3>2
  <2> QED BY <2>1, <2>2, <2>3, Zenon DEF Gathered
<1> QED BY <1>2, <1>8 DEF CheckupInv

\* One that raises, or that an earlier one took with it.
LEMMA UnreadableStep == ASSUME CheckupInv, NEW s, K!Unreadable(s) PROVE CheckupInv'
<1>1. /\ K!Due(s) /\ at' = at + 1 /\ warm' = (warm \/ s \in K!Range(K!PROBES))
      /\ absent' = absent \cup {s}
      /\ UNCHANGED <<platform, measure, troubles, broken, stage, evidence, findings, verdict>>
  BY DEF K!Unreadable
<1>2. /\ Placed' /\ Analysed' /\ Sentence' /\ Passed' = 1 .. at + 1 /\ (\A i : Section(i)' = Section(i))
  BY <1>1, PassOne
<1>3. /\ Passed = 1 .. at /\ s = Section(at + 1) /\ \A i \in 1 .. at : Section(i) # s BY <1>1, DueIs
<1>4. at \in Nat BY DEF CheckupInv, Placed
<1>0. PICK n : n = at + 1 OBVIOUS
<1>5. \A i : i \in Passed' <=> i \in Passed \/ i = n BY <1>0, <1>2, <1>3, <1>4
<1>6. \A f : Readable(f)' = Readable(f) BY <1>1 DEF Readable, K!Known, K!Answers, K!Overlooked
<1>7. Gathered'
  <2>1. \A t \in absent' : \E i \in Passed' : t = Section(i)'
    <3>1. n \in Passed' /\ Section(n)' = s BY <1>0, <1>2, <1>3, <1>5
    <3>2. \A t \in absent : \E i \in Passed' : t = Section(i)' BY <1>2, <1>5 DEF CheckupInv, Gathered
    <3> QED BY <1>1, <3>1, <3>2
  <2>2. ASSUME NEW i \in Passed', Section(i)' \notin absent', NEW r \in K!AllRules, Section(i)' \in r.from, Readable(r.fact)'
        PROVE  <<Section(i)', r.fact>> \in evidence'
    <3>1. Section(i)' = Section(i) /\ Readable(r.fact) /\ Section(i) # s /\ Section(i) \notin absent
      BY <1>1, <1>2, <1>6, <2>2
    <3>2. i \in Passed BY <1>0, <1>3, <1>5, <3>1
    <3> QED BY <1>1, <2>2, <3>1, <3>2 DEF CheckupInv, Gathered
  <2>3. ASSUME NEW e \in evidence'
        PROVE  \E i \in Passed', r \in K!AllRules :
                   e = <<Section(i)', r.fact>> /\ Section(i)' \notin absent' /\ Section(i)' \in r.from /\ Readable(r.fact)'
    <3>1. PICK i \in Passed, r \in K!AllRules :
              e = <<Section(i), r.fact>> /\ Section(i) \notin absent /\ Section(i) \in r.from /\ Readable(r.fact)
      BY <1>1, <2>3 DEF CheckupInv, Gathered
    <3>2. i \in Passed' /\ Section(i)' = Section(i) /\ Section(i) # s /\ Readable(r.fact)' BY <1>2, <1>3, <1>5, <1>6, <3>1
    <3>3. Section(i)' \notin absent' BY <1>1, <3>1, <3>2
    <3> QED BY <3>1, <3>2, <3>3
  <2> QED BY <2>1, <2>2, <2>3, Zenon DEF Gathered
<1> QED BY <1>2, <1>7 DEF CheckupInv

\* The evidence is what it was while it is looked at.
LEMMA EvidenceStays ==
    ASSUME CheckupInv, UNCHANGED <<platform, measure, troubles, broken, evidence, absent>>, Passed' = Passed
    PROVE  Gathered'
<1>1. (\A i : Section(i)' = Section(i)) /\ (\A f : Readable(f)' = Readable(f)) BY DEF Section, Readable, K!Known, K!Answers, K!Overlooked
<1> QED BY <1>1 DEF CheckupInv, Gathered

\* A history that cannot be decoded.
LEMMA RaiseStep == ASSUME CheckupInv, K!HistoryRaises PROVE CheckupInv'
<1>1. /\ stage = "gather" /\ stage' = "raised"
      /\ UNCHANGED <<platform, measure, troubles, broken, at, warm, evidence, absent, findings, verdict>>
  BY DEF K!HistoryRaises, K!Due
<1>2. Gathering /\ Gathering' /\ Passed' = Passed BY <1>1 DEF Gathering, Passed
<1>3. Gathered' BY <1>1, <1>2, EvidenceStays
<1>4. Placed' BY <1>1, <1>2 DEF CheckupInv, Placed
<1>5. Analysed' /\ Sentence' BY <1>1, <1>2 DEF CheckupInv, Analysed, Sentence
<1> QED BY <1>3, <1>4, <1>5 DEF CheckupInv

\* All sections are passed.
LEMMA GatheredStep == ASSUME CheckupInv, K!Gathered PROVE CheckupInv'
<1>1. /\ stage = "gather" /\ at = Len(K!Order(measure)) /\ stage' = "analyse" /\ at' = 0
      /\ UNCHANGED <<platform, measure, troubles, broken, warm, evidence, absent, findings, verdict>>
  BY DEF K!Gathered
<1>2. Gathering /\ ~Gathering' /\ Passed' = Passed BY <1>1 DEF Gathering, Passed
<1>3. Gathered' BY <1>1, <1>2, EvidenceStays
<1>4. Placed' BY <1>1, <1>2 DEF CheckupInv, Placed
<1>5. findings' = {} BY <1>1, <1>2 DEF CheckupInv, Analysed
<1>6. 1 .. at' = {} BY <1>1
<1>7. Analysed' BY <1>2, <1>5, <1>6 DEF Analysed
<1>8. Sentence' BY <1>1 DEF CheckupInv, Sentence
<1> QED BY <1>3, <1>4, <1>7, <1>8 DEF CheckupInv

\* What fires is decided by the evidence and by what is broken.
LEMMA FiresStays ==
    ASSUME UNCHANGED <<broken, evidence>> PROVE \A r : K!Fires(r)' = K!Fires(r)
BY DEF K!Fires, K!Seen

\* One check is made, or fails.
LEMMA OneCheckStep == ASSUME CheckupInv, K!Check PROVE CheckupInv'
<1>0. PICK name : name = K!CHECKS[at + 1] OBVIOUS
<1>1. /\ stage = "analyse" /\ at < 11 /\ at' = at + 1
      /\ IF name \in broken THEN findings' = findings \cup {K!Failed(name)}
         ELSE findings' = findings \cup K!FindingsOf(name)
      /\ UNCHANGED <<platform, measure, troubles, broken, stage, warm, evidence, absent, verdict>>
  BY <1>0, ChecksAre DEF K!Check, K!NextAfterFailure
<1>2. ~Gathering /\ ~Gathering' /\ Passed' = Passed BY <1>1 DEF Gathering, Passed
<1>3. Gathered' BY <1>1, <1>2, EvidenceStays
<1>4. at \in Nat BY DEF CheckupInv, Placed
<1>5. Placed' BY <1>1, <1>2, <1>4 DEF CheckupInv, Placed
<1>6. Sentence' BY <1>1 DEF CheckupInv, Sentence
<1>7. \A r : K!Fires(r)' = K!Fires(r) BY <1>1, FiresStays
<1>8. \A c : K!FindingsOf(c)' = K!FindingsOf(c) BY <1>7 DEF K!FindingsOf
<1>9. ASSUME NEW f \in findings'
      PROVE  f.severity = "info" \/ \E r \in K!AllRules : f = K!Found(r) /\ r.check \notin broken' /\ K!Fires(r)'
  <2>1. CASE f \in findings BY <1>1, <1>7, <2>1 DEF CheckupInv, Analysed
  <2>2. CASE name \in broken /\ f = K!Failed(name) BY <2>2 DEF K!Failed
  <2>3. CASE name \notin broken /\ f \in K!FindingsOf(name)
    <3>1. PICK r \in K!AllRules : f = K!Found(r) /\ r.check = name /\ K!Fires(r) BY <2>3 DEF K!FindingsOf
    <3> QED BY <1>1, <1>7, <2>3, <3>1
  <2> QED BY <1>1, <2>1, <2>2, <2>3
<1>10. ASSUME NEW i \in 1 .. at', K!CHECKS[i] \notin broken' PROVE (K!FindingsOf(K!CHECKS[i]) \subseteq findings)'
  <2>1. K!FindingsOf(K!CHECKS[i])' = K!FindingsOf(K!CHECKS[i]) BY <1>8 DEF K!CHECKS
  <2>2. CASE i \in 1 .. at BY <1>1, <1>2, <1>10, <2>1, <2>2 DEF CheckupInv, Analysed
  <2>3. CASE i = at + 1 BY <1>0, <1>1, <1>10, <2>1, <2>3
  <2>4. i \in 1 .. at \/ i = at + 1 BY <1>1, <1>4
  <2> QED BY <2>2, <2>3, <2>4
<1>11. Analysed' BY <1>2, <1>9, <1>10 DEF Analysed
<1> QED BY <1>3, <1>5, <1>6, <1>11 DEF CheckupInv

\* The sentence is made of the finding that is first.
LEMMA JudgeStep == ASSUME CheckupInv, K!Judge PROVE CheckupInv'
<1>1. /\ stage = "analyse" /\ stage' = "reported" /\ at = 11
      /\ UNCHANGED <<platform, measure, troubles, broken, at, warm, evidence, absent, findings>>
  BY ChecksAre DEF K!Judge
<1>2. ~Gathering /\ ~Gathering' /\ Passed' = Passed BY <1>1 DEF Gathering, Passed
<1>3. Gathered' BY <1>1, <1>2, EvidenceStays
<1>4. Placed' BY <1>1, <1>2 DEF CheckupInv, Placed
<1>5. (\A r : K!Fires(r)' = K!Fires(r)) BY <1>1, FiresStays
<1>6. (\A c : K!FindingsOf(c)' = K!FindingsOf(c)) BY <1>5 DEF K!FindingsOf
<1>7. Analysed' BY <1>1, <1>2, <1>5, <1>6 DEF CheckupInv, Analysed
<1>8. K!Critical' = K!Critical BY <1>1 DEF K!Critical
<1>9. verdict = K!Nothing BY <1>1 DEF CheckupInv, Sentence
<1>10. \/ K!Actionable(findings) = {} /\ verdict' = K!Nothing
       \/ \E first \in K!Leading(K!Actionable(findings)) :
             verdict' = [lead |-> IF K!Critical THEN "cause" ELSE "contributor", of |-> first]
  BY <1>9 DEF K!Judge
<1>11. Sentence' BY <1>1, <1>8, <1>10 DEF Sentence
<1> QED BY <1>3, <1>4, <1>7, <1>11 DEF CheckupInv

\* Every step of the checkup keeps the invariant.
LEMMA CheckupStep == CheckupInv /\ [K!Next]_checkup => CheckupInv'
<1> SUFFICES ASSUME CheckupInv, [K!Next]_checkup PROVE CheckupInv'
  OBVIOUS
<1>1. CASE UNCHANGED checkup
  <2>1. UNCHANGED <<platform, measure, troubles, broken, at, stage, warm, evidence, absent, findings, verdict>>
    BY <1>1 DEF checkup
  <2>2. (Gathering' <=> Gathering) /\ Passed' = Passed BY <2>1 DEF Gathering, Passed
  <2>3. Gathered' BY <2>1, <2>2, EvidenceStays
  <2>4. Placed' BY <2>1, <2>2 DEF CheckupInv, Placed
  <2>5. (\A r : K!Fires(r)' = K!Fires(r)) BY <2>1, FiresStays
  <2>6. (\A c : K!FindingsOf(c)' = K!FindingsOf(c)) BY <2>5 DEF K!FindingsOf
  <2>7. Analysed' BY <2>1, <2>2, <2>5, <2>6 DEF CheckupInv, Analysed
  <2>8. K!Critical' = K!Critical BY <2>1 DEF K!Critical
  <2>9. Sentence' BY <2>1, <2>8 DEF CheckupInv, Sentence
  <2> QED BY <2>3, <2>4, <2>7, <2>9 DEF CheckupInv
<1>2. CASE K!Over BY <1>1, <1>2 DEF K!Over, K!vars, checkup
<1> QED
  BY <1>1, <1>2, ReadStep, UnreadableStep, RaiseStep, GatheredStep, OneCheckStep, JudgeStep DEF K!Next

\* It holds whatever part of the composition moves.
LEMMA CheckupKept == AllSpec => []CheckupInv
<1>1. AllInit => CheckupInv BY CheckupInit DEF AllInit
<1>2. CheckupInv /\ [AllNext]_allVars => CheckupInv'
  <2>1. [AllNext]_allVars => [K!Next]_checkup BY DEF AllNext, allVars, Invokes, ChecksUp, Asks
  <2> QED BY <2>1, CheckupStep
<1> QED BY <1>1, <1>2, PTL DEF AllSpec

-----------------------------------------------------------------------------
\* A rule of the same check that asks the same sections for the worse fact,
\* and itself only gives way to what r gives way to.
Instead(w, r) ==
    {b \in K!AllRules :
        b.fact = w /\ b.check = r.check /\ b.from = r.from /\ b \notin K!DriveRules /\ b.unless \subseteq r.unless}
Subsumed(r) ==
    \A w \in r.unless :
        \/ \E b \in Instead(w, r) : b.unless = {}
        \/ \E b \in Instead(w, r) : \A x \in b.unless : \E d \in Instead(x, r) : d.unless = {}

\* What a rule gives way to is in the report in its place: a chain of at most
\* two.
LEMMA RulesAreSubsumed == \A r \in K!AllRules : Subsumed(r)
<1>1. \A b \in K!ThermalRules \cup K!CpuRules \cup K!ContentionRules \cup K!MemoryRules \cup K!VolumeRules
                \cup K!MeasuredRules : b \notin K!DriveRules /\ b \in K!AllRules
  <2>1. \A b \in K!DriveRules : b.fact \in {"failing", "spent", "sataSpent", "worn", "sataWorn"} BY RuleIs DEF K!DriveRules
  <2>2. \A b \in K!ThermalRules : b.fact \notin {"failing", "spent", "sataSpent", "worn", "sataWorn"} BY RuleIs DEF K!ThermalRules
  <2>3. \A b \in K!CpuRules : b.fact \notin {"failing", "spent", "sataSpent", "worn", "sataWorn"} BY RuleIs DEF K!CpuRules
  <2>4. \A b \in K!ContentionRules : b.fact \notin {"failing", "spent", "sataSpent", "worn", "sataWorn"} BY RuleIs DEF K!ContentionRules
  <2>5. \A b \in K!MemoryRules : b.fact \notin {"failing", "spent", "sataSpent", "worn", "sataWorn"} BY RuleIs DEF K!MemoryRules
  <2>6. \A b \in K!VolumeRules : b.fact \notin {"failing", "spent", "sataSpent", "worn", "sataWorn"} BY RuleIs DEF K!VolumeRules
  <2>7. \A b \in K!MeasuredRules : b.fact \notin {"failing", "spent", "sataSpent", "worn", "sataWorn"} BY RuleIs DEF K!MeasuredRules
  <2> QED BY <2>1, <2>2, <2>3, <2>4, <2>5, <2>6, <2>7, Zenon DEF K!AllRules
<1>2. \A r \in K!PowerRules \cup K!GpuRules \cup K!RamRules \cup K!DriveRules \cup K!ConfigurationRules
                \cup K!RegressionRules : r.unless = {}
  BY RuleIs DEF K!PowerRules, K!GpuRules, K!RamRules, K!DriveRules, K!ConfigurationRules, K!RegressionRules
<1>3. \A r \in K!ThermalRules : Subsumed(r)
  <2> DEFINE worst == K!Rule("thermal", "throttled", {"state"}, {}, "critical")
             worse == K!Rule("thermal", "strained", {"state"}, {"throttled"}, "warning")
             bad == K!Rule("thermal", "hot", {"state"}, {"throttled", "strained"}, "warning")
  <2>1. worst \in K!ThermalRules /\ worse \in K!ThermalRules /\ \A r \in K!ThermalRules : r \in {worst, worse, bad}
    BY DEF K!ThermalRules
  <2>2. /\ worst.fact = "throttled" /\ worst.check = "thermal" /\ worst.from = {"state"} /\ worst.unless = {}
        /\ worse.fact = "strained" /\ worse.check = "thermal" /\ worse.from = {"state"} /\ worse.unless = {"throttled"}
        /\ bad.check = "thermal" /\ bad.from = {"state"} /\ bad.unless = {"throttled", "strained"}
    BY RuleIs
  <2> HIDE DEF worst, worse, bad
  <2>3. worst \in Instead("throttled", worse) /\ worst \in Instead("throttled", bad) /\ worse \in Instead("strained", bad)
    BY <1>1, <2>1, <2>2 DEF Instead
  <2> QED BY <2>1, <2>2, <2>3 DEF Subsumed
<1>4. ASSUME NEW R, R \subseteq K!ThermalRules \cup K!CpuRules \cup K!ContentionRules \cup K!MemoryRules \cup K!VolumeRules
                \cup K!MeasuredRules, NEW worse \in R, worse.unless = {}, NEW bad \in R, bad.unless = {worse.fact},
             worse.check = bad.check, worse.from = bad.from
      PROVE  Subsumed(bad)
  <2>1. worse \in Instead(worse.fact, bad) BY <1>1, <1>4 DEF Instead
  <2> QED BY <1>4, <2>1 DEF Subsumed
<1>5. \A r : r.unless = {} => Subsumed(r) BY DEF Subsumed
<1>6. \A r \in K!MemoryRules : Subsumed(r)
  <2> DEFINE worse == K!Rule("memory", "exhausted", {"memory"}, {}, "critical")
             bad == K!Rule("memory", "tight", {"memory"}, {"exhausted"}, "warning")
  <2>1. worse \in K!MemoryRules /\ bad \in K!MemoryRules /\ \A r \in K!MemoryRules : r = bad \/ r.unless = {}
    BY RuleIs DEF K!MemoryRules
  <2>2. worse.unless = {} /\ bad.unless = {worse.fact} /\ worse.check = bad.check /\ worse.from = bad.from BY RuleIs
  <2> HIDE DEF worse, bad
  <2>3. Subsumed(bad) BY <1>4, <2>1, <2>2
  <2> QED BY <1>5, <2>1, <2>3
<1>7. \A r \in K!CpuRules : Subsumed(r)
  <2> DEFINE worse == K!Rule("cpu", "mitigated", {"provenance"}, {}, "info")
             bad == K!Rule("cpu", "vulnerable", {"provenance"}, {"mitigated"}, "info")
  <2>1. worse \in K!CpuRules /\ bad \in K!CpuRules /\ \A r \in K!CpuRules : r = bad \/ r.unless = {}
    BY RuleIs DEF K!CpuRules
  <2>2. worse.unless = {} /\ bad.unless = {worse.fact} /\ worse.check = bad.check /\ worse.from = bad.from BY RuleIs
  <2> HIDE DEF worse, bad
  <2>3. Subsumed(bad) BY <1>4, <2>1, <2>2
  <2> QED BY <1>5, <2>1, <2>3
<1>8. \A r \in K!ContentionRules : Subsumed(r)
  <2> DEFINE worse == K!Rule("contention", "saturated", {"state"}, {}, "critical")
             bad == K!Rule("contention", "loaded", {"state"}, {"saturated"}, "warning")
  <2>1. worse \in K!ContentionRules /\ bad \in K!ContentionRules /\ \A r \in K!ContentionRules : r = bad \/ r.unless = {}
    BY RuleIs DEF K!ContentionRules
  <2>2. worse.unless = {} /\ bad.unless = {worse.fact} /\ worse.check = bad.check /\ worse.from = bad.from BY RuleIs
  <2> HIDE DEF worse, bad
  <2>3. Subsumed(bad) BY <1>4, <2>1, <2>2
  <2> QED BY <1>5, <2>1, <2>3
<1>9. \A r \in K!VolumeRules : Subsumed(r)
  <2> DEFINE worse == K!Rule("storage", "full", {"disks"}, {}, "critical")
             bad == K!Rule("storage", "nearlyFull", {"disks"}, {"full"}, "warning")
  <2>1. worse \in K!VolumeRules /\ bad \in K!VolumeRules /\ \A r \in K!VolumeRules : r = bad \/ r.unless = {}
    BY RuleIs DEF K!VolumeRules
  <2>2. worse.unless = {} /\ bad.unless = {worse.fact} /\ worse.check = bad.check /\ worse.from = bad.from BY RuleIs
  <2> HIDE DEF worse, bad
  <2>3. Subsumed(bad) BY <1>4, <2>1, <2>2
  <2> QED BY <1>5, <2>1, <2>3
<1>10. \A r \in K!MeasuredRules : Subsumed(r)
  <2> DEFINE worse == K!Rule("measured", "collapse", {"sustained"}, {}, "critical")
             bad == K!Rule("measured", "droop", {"sustained"}, {"collapse"}, "warning")
  <2>1. worse \in K!MeasuredRules /\ bad \in K!MeasuredRules /\ \A r \in K!MeasuredRules : r = bad \/ r.unless = {}
    BY RuleIs DEF K!MeasuredRules
  <2>2. worse.unless = {} /\ bad.unless = {worse.fact} /\ worse.check = bad.check /\ worse.from = bad.from BY RuleIs
  <2> HIDE DEF worse, bad
  <2>3. Subsumed(bad) BY <1>4, <2>1, <2>2
  <2> QED BY <1>5, <2>1, <2>3
<1> QED BY <1>2, <1>3, <1>5, <1>6, <1>7, <1>8, <1>9, <1>10, Zenon DEF K!AllRules

-----------------------------------------------------------------------------
\* A section that a check may look at was passed, and is in the evidence
\* unless it is absent.
LEMMA SectionsArePassed ==
    ASSUME CheckupInv, ~Gathering
    PROVE  /\ \A s : s \in K!Range(K!Order(measure)) <=> \E i \in Passed : s = Section(i)
           /\ \A s, r : r \in K!AllRules /\ s \in r.from /\ K!WasRead(s) /\ Readable(r.fact) => <<s, r.fact>> \in evidence
           /\ \A e \in evidence : \E s, r : /\ r \in K!AllRules /\ e = <<s, r.fact>> /\ s \in r.from
                                            /\ K!WasRead(s) /\ Readable(r.fact)
<1>1. measure \in BOOLEAN BY DEF CheckupInv, Placed
<1>2. DOMAIN K!Order(measure) = 1 .. Len(K!Order(measure)) BY <1>1, OrderOnce
<1>3. Passed = DOMAIN K!Order(measure) BY <1>2 DEF Passed
<1>4. \A s : s \in K!Range(K!Order(measure)) <=> \E i \in Passed : s = Section(i) BY <1>3 DEF K!Range, Section
<1>5. ASSUME NEW s, NEW r \in K!AllRules, s \in r.from, K!WasRead(s), Readable(r.fact) PROVE <<s, r.fact>> \in evidence
  <2>1. PICK i \in Passed : s = Section(i) BY <1>4, <1>5 DEF K!WasRead
  <2>2. Section(i) \notin absent BY <1>5, <2>1 DEF K!WasRead
  <2> QED BY <1>5, <2>1, <2>2 DEF CheckupInv, Gathered
<1>6. ASSUME NEW e \in evidence
      PROVE  \E s, r : r \in K!AllRules /\ e = <<s, r.fact>> /\ s \in r.from /\ K!WasRead(s) /\ Readable(r.fact)
  <2>1. PICK i \in Passed, r \in K!AllRules :
            e = <<Section(i), r.fact>> /\ Section(i) \notin absent /\ Section(i) \in r.from /\ Readable(r.fact)
    BY DEF CheckupInv, Gathered
  <2>2. K!WasRead(Section(i)) BY <1>4, <2>1 DEF K!WasRead
  <2> QED BY <2>1, <2>2
<1> QED BY <1>4, <1>5, <1>6

\* What fires was wrong with the machine and could be known.
LEMMA FiringIsFounded ==
    ASSUME CheckupInv, ~Gathering, NEW r \in K!AllRules, K!Fires(r), r.check \notin broken
    PROVE  r.fact \in troubles /\ K!Knowable(r)
<1>1. \A s \in r.from : K!WasRead(s) /\ Readable(r.fact)
  <2> SUFFICES ASSUME NEW s \in r.from PROVE K!WasRead(s) /\ Readable(r.fact)
    OBVIOUS
  <2>1. <<s, r.fact>> \in evidence BY DEF K!Fires, K!Seen
  <2>2. PICK t, q : q \in K!AllRules /\ <<s, r.fact>> = <<t, q.fact>> /\ K!WasRead(t) /\ Readable(q.fact)
    BY <2>1, SectionsArePassed
  <2>3. s = t /\ r.fact = q.fact BY <2>2
  <2> QED BY <2>2, <2>3
<1>2. r.from # {} BY RulesAreSane DEF Sane
<1>3. Readable(r.fact) BY <1>1, <1>2
<1>4. "drivelife" \in broken => r \notin K!DriveRules BY DEF K!Fires
<1> QED BY <1>1, <1>3, <1>4 DEF K!Knowable, Readable

\* What could be known was seen.
LEMMA KnowableIsSeen ==
    ASSUME CheckupInv, ~Gathering, NEW r \in K!AllRules, r.fact \in troubles, K!Knowable(r)
    PROVE  K!Seen(r.fact, r)
<1>1. Readable(r.fact) BY DEF K!Knowable, Readable
<1> QED BY <1>1, SectionsArePassed DEF K!Seen, K!Knowable

\* What fires of a check that was made was found.
LEMMA FiringIsFound ==
    ASSUME CheckupInv, stage = "reported", NEW r \in K!AllRules, K!Fires(r), r.check \notin broken
    PROVE  K!Found(r) \in findings
<1>1. PICK i \in 1 .. 11 : r.check = K!CHECKS[i] BY RulesAreSane DEF Sane
<1>2. at = 11 /\ ~Gathering BY DEF CheckupInv, Sentence, Gathering
<1>3. K!FindingsOf(r.check) \subseteq findings BY <1>1, <1>2 DEF CheckupInv, Analysed
<1> QED BY <1>3 DEF K!FindingsOf

\* A worse fact that fires is a finding.
LEMMA InsteadIsFound ==
    ASSUME CheckupInv, stage = "reported", NEW r \in K!AllRules, K!Knowable(r), NEW w \in r.unless,
           NEW b \in Instead(w, r), K!Fires(b)
    PROVE  \E f \in findings : f.fact \in r.unless
<1>1. b \in K!AllRules /\ b.check \notin broken /\ b.fact = w BY DEF Instead, K!Knowable
<1>2. K!Found(b) \in findings BY <1>1, FiringIsFound
<1>3. K!Found(b).fact = w BY <1>1 DEF K!Found
<1> QED BY <1>2, <1>3

(* What slows the machine, was within reach of the readers and is looked   *)
(* for by a check that could be made is reported, itself or the worse      *)
(* condition, on every machine and whatever else fails (checkup.py 546-549,*)
(* 1145-1153); of SATA drives, that is only where no NVMe drive was read.  *)
THEOREM BadNewsIsReported == AllSpec => []NoBadNewsIsLost
<1>1. ASSUME CheckupInv, stage = "reported", NEW r \in K!AllRules, r.fact \in troubles, K!Knowable(r)
      PROVE  \E f \in findings : f.fact \in {r.fact} \cup r.unless
  <2>1. ~Gathering BY <1>1 DEF Gathering
  <2>2. K!Seen(r.fact, r) BY <1>1, <2>1, KnowableIsSeen
  <2>3. CASE K!Fires(r)
    <3>1. K!Found(r) \in findings BY <1>1, <2>3, FiringIsFound DEF K!Knowable
    <3> QED BY <3>1 DEF K!Found
  <2>4. CASE ~K!Fires(r)
    <3>1. PICK w \in r.unless : K!Seen(w, r) BY <1>1, <2>2, <2>4 DEF K!Fires, K!Knowable
    <3>2. \A x : K!Seen(x, r) => \A b \in Instead(x, r) : b.unless = {} => K!Fires(b) BY DEF Instead, K!Seen, K!Fires
    <3>3. CASE \E b \in Instead(w, r) : b.unless = {}
      <4>1. PICK b \in Instead(w, r) : b.unless = {} BY <3>3
      <4>2. K!Fires(b) BY <3>1, <3>2, <4>1
      <4> QED BY <1>1, <4>2, InsteadIsFound
    <3>4. CASE \E b \in Instead(w, r) : \A x \in b.unless : \E d \in Instead(x, r) : d.unless = {}
      <4>1. PICK b \in Instead(w, r) : \A x \in b.unless : \E d \in Instead(x, r) : d.unless = {} BY <3>4
      <4>2. b.unless \subseteq r.unless /\ b.from = r.from /\ b.fact = w /\ b \notin K!DriveRules BY DEF Instead
      <4>3. CASE K!Fires(b) BY <1>1, <4>3, InsteadIsFound
      <4>4. CASE ~K!Fires(b)
        <5>1. K!Seen(b.fact, b) BY <3>1, <4>2 DEF K!Seen
        <5>2. PICK x \in b.unless : K!Seen(x, b) BY <4>2, <4>4, <5>1 DEF K!Fires
        <5>3. K!Seen(x, r) /\ x \in r.unless BY <4>2, <5>2 DEF K!Seen
        <5>4. PICK d \in Instead(x, r) : d.unless = {} BY <4>1
        <5>5. K!Fires(d) BY <3>2, <5>3, <5>4
        <5> QED BY <1>1, <5>3, <5>5, InsteadIsFound
      <4> QED BY <4>3, <4>4
    <3> QED BY <1>1, <3>1, <3>3, <3>4, RulesAreSubsumed DEF Subsumed
  <2> QED BY <2>3, <2>4
<1>2. CheckupInv => NoBadNewsIsLost BY <1>1 DEF NoBadNewsIsLost, K!NoBadNewsIsLost
<1> QED BY <1>2, CheckupKept, PTL

\* What is found at all, beyond what could not be checked.
LEMMA FoundIsFounded ==
    ASSUME CheckupInv, NEW f \in findings, f.severity # "info"
    PROVE  \E r \in K!AllRules : f = K!Found(r) /\ r.fact \in troubles /\ K!Knowable(r)
<1>1. ~Gathering BY DEF CheckupInv, Analysed
<1>2. PICK r \in K!AllRules : f = K!Found(r) /\ r.check \notin broken /\ K!Fires(r) BY DEF CheckupInv, Analysed
<1> QED BY <1>1, <1>2, FiringIsFounded

(* Every actionable finding was wrong with the machine before it was       *)
(* measured, on every machine (checkup.py 1163-1169).                      *)
THEOREM OwnLoadStaysUnblamed == AllSpec => []OwnLoadIsNotBlamed
<1>1. CheckupInv => OwnLoadIsNotBlamed BY FoundIsFounded DEF OwnLoadIsNotBlamed, K!OwnLoadIsNotBlamed, K!Found
<1> QED BY <1>1, CheckupKept, PTL

(* The sentence says "cause", of a critical finding, exactly when something *)
(* critical was within reach of the readers (drivelife.py 134-142 limits   *)
(* it for SATA drives), and "nothing found" exactly when nothing           *)
(* actionable was found (checkup.py 1182-1202).                            *)
THEOREM TheVerdictIsTheWorst == AllSpec => []VerdictIsTheWorst
<1> DEFINE Wrong(r) == r.severity = "critical" /\ r.fact \in troubles /\ K!Knowable(r)
<1>1. ASSUME CheckupInv, stage = "reported"
      PROVE  /\ K!Critical <=> \E r \in K!AllRules : Wrong(r)
             /\ \A f \in findings : f.severity \in {"critical", "warning", "info"}
  <2>1. ASSUME K!Critical PROVE \E r \in K!AllRules : Wrong(r)
    <3>1. PICK f \in findings : f.severity = "critical" BY <2>1 DEF K!Critical
    <3>2. PICK r \in K!AllRules : f = K!Found(r) /\ r.fact \in troubles /\ K!Knowable(r) BY <1>1, <3>1, FoundIsFounded
    <3> QED BY <3>1, <3>2 DEF K!Found
  <2>2. ASSUME NEW r \in K!AllRules, Wrong(r) PROVE K!Critical
    <3>1. r.unless = {} BY <2>2, RulesAreSane DEF Sane
    <3>2. K!Seen(r.fact, r) BY <1>1, <2>2, KnowableIsSeen DEF Gathering
    <3>3. K!Fires(r) BY <2>2, <3>1, <3>2 DEF K!Fires, K!Knowable
    <3>4. K!Found(r) \in findings BY <1>1, <2>2, <3>3, FiringIsFound DEF K!Knowable
    <3> QED BY <2>2, <3>4 DEF K!Critical, K!Found
  <2>3. ASSUME NEW f \in findings PROVE f.severity \in {"critical", "warning", "info"}
    <3>1. CASE f.severity # "info"
      <4>1. PICK r \in K!AllRules : f = K!Found(r) BY <1>1, <3>1, FoundIsFounded
      <4> QED BY <4>1, RulesAreSane DEF Sane, K!Found
    <3> QED BY <3>1
  <2> QED BY <2>1, <2>2, <2>3
<1>2. ASSUME CheckupInv, stage = "reported", NEW first \in K!Leading(K!Actionable(findings)), K!Critical
      PROVE  first.severity = "critical"
  <2>1. PICK f \in findings : f.severity = "critical" BY <1>2 DEF K!Critical
  <2>2. f \in K!Actionable(findings) BY <2>1 DEF K!Actionable
  <2>3. K!SEVERITY_ORDER[first.severity] <= K!SEVERITY_ORDER[f.severity] BY <2>2 DEF K!Leading
  <2>4. first \in findings /\ first.severity # "info" BY DEF K!Leading, K!Actionable
  <2>5. first.severity \in {"critical", "warning"} BY <1>1, <1>2, <2>4
  <2>6. first.severity # "warning" BY <2>1, <2>3 DEF K!SEVERITY_ORDER
  <2> QED BY <2>5, <2>6
<1>3. ASSUME CheckupInv, stage = "reported"
      PROVE  /\ (verdict.lead = "cause" /\ verdict.of.severity = "critical") <=> K!Critical
             /\ (verdict = K!Nothing) <=> \A f \in findings : f.severity = "info"
  <2>1. CASE K!Actionable(findings) = {} /\ verdict = K!Nothing
    <3>1. \A f \in findings : f.severity = "info" BY <2>1 DEF K!Actionable
    <3>2. ~K!Critical BY <3>1 DEF K!Critical
    <3>3. verdict.lead # "cause" BY <2>1 DEF K!Nothing
    <3> QED BY <2>1, <3>1, <3>2, <3>3
  <2>2. ASSUME NEW first \in K!Leading(K!Actionable(findings)),
               verdict = [lead |-> IF K!Critical THEN "cause" ELSE "contributor", of |-> first]
        PROVE  /\ (verdict.lead = "cause" /\ verdict.of.severity = "critical") <=> K!Critical
               /\ (verdict = K!Nothing) <=> \A f \in findings : f.severity = "info"
    <3>1. first \in findings /\ first.severity # "info" BY DEF K!Leading, K!Actionable
    <3>2. verdict.of = first /\ (verdict.lead = "cause" <=> K!Critical) /\ verdict.lead # "nothing found" BY <2>2
    <3>4. K!Nothing.lead = "nothing found" BY DEF K!Nothing
    <3>3. verdict # K!Nothing BY <3>2, <3>4
    <3> QED BY <1>2, <1>3, <3>1, <3>2, <3>3
  <2> QED BY <1>3, <2>1, <2>2 DEF CheckupInv, Sentence
<1>4. CheckupInv => VerdictIsTheWorst BY <1>1, <1>3 DEF VerdictIsTheWorst, K!VerdictIsTheWorst
<1> QED BY <1>4, CheckupKept, PTL

-----------------------------------------------------------------------------
(* The screens of the menu: the widgets, and the keys that come in pieces. *)
\* A function of places is a sequence, and the other way round.
LEMMA Listed == ASSUME NEW D, NEW n \in Nat, NEW f \in [1 .. n -> D] PROVE f \in Seq(D)
OBVIOUS

\* Each place of a sequence holds one of its elements.
LEMMA Elements == ASSUME NEW D, NEW q \in Seq(D)
                  PROVE  DOMAIN q = 1 .. Len(q) /\ Len(q) \in Nat /\ \A n \in 1 .. Len(q) : q[n] \in D
OBVIOUS

\* Cardinality is the same in an instance.
LEMMA CountIs == ASSUME NEW set PROVE W!Cardinality(set) = Cardinality(set)
BY Zenon DEF W!Cardinality, Cardinality

\* Each number up to the size of a finite set of numbers is the place of one.
LEMMA EveryPlaceIsTaken ==
    ASSUME NEW set \in SUBSET Nat, IsFiniteSet(set), NEW n \in 1 .. Cardinality(set)
    PROVE  \E i \in set : Cardinality({j \in set : j < i}) = n - 1
<1> DEFINE below(i) == {j \in set : j < i}
           place == [i \in set |-> Cardinality(below(i))]
           size == Cardinality(set)
<1>1. size \in Nat /\ \A i \in set : below(i) \in SUBSET set BY FS_CardinalityType
<1>2. \A s \in SUBSET set : IsFiniteSet(s) /\ Cardinality(s) \in Nat BY FS_Subset, FS_CardinalityType
<1>3. ASSUME NEW i \in set PROVE place[i] \in 0 .. size - 1
  <2>1. below(i) \in SUBSET (set \ {i}) OBVIOUS
  <2>2. IsFiniteSet(set \ {i}) /\ Cardinality(set \ {i}) = size - 1 BY FS_RemoveElement
  <2>3. Cardinality(below(i)) <= size - 1 BY <2>1, <2>2, FS_Subset
  <2>4. Cardinality(below(i)) \in Nat BY <1>1, <1>2
  <2> QED BY <1>1, <2>3, <2>4
<1>4. ASSUME NEW i \in set, NEW j \in set, i < j PROVE place[i] < place[j]
  <2>1. below(i) \cup {i} \in SUBSET below(j) /\ i \notin below(i)
    <3>1. i \in Nat /\ j \in Nat /\ \A k \in set : k \in Nat OBVIOUS
    <3>2. \A k \in set : k < i => k < j BY <1>4, <3>1
    <3>3. below(i) \subseteq below(j) BY <3>2
    <3>4. i \in below(j) BY <1>4
    <3>5. ~(i < i) BY <3>1
    <3> QED BY <3>3, <3>4, <3>5
  <2>2. Cardinality(below(i) \cup {i}) = Cardinality(below(i)) + 1 BY <1>1, <1>2, <2>1, FS_AddElement
  <2>3. Cardinality(below(i) \cup {i}) <= Cardinality(below(j)) BY <1>1, <1>2, <2>1, FS_Subset
  <2>4. Cardinality(below(i)) \in Nat /\ Cardinality(below(j)) \in Nat BY <1>1, <1>2
  <2> QED BY <2>2, <2>3, <2>4
<1>5. ASSUME \A i \in set : place[i] # n - 1 PROVE FALSE
  <2> DEFINE others == (0 .. size - 1) \ {n - 1}
  <2>1. IsFiniteSet(0 .. size - 1) /\ Cardinality(0 .. size - 1) = size
    <3> HIDE DEF size
    <3>1. 0 \in Int /\ size - 1 \in Int /\ (IF 0 > size - 1 THEN 0 ELSE (size - 1) - 0 + 1) = size BY <1>1
    <3> QED BY <3>1, FS_Interval
  <2>2. n - 1 \in 0 .. size - 1 BY <1>1
  <2>3. IsFiniteSet(others) /\ Cardinality(others) = size - 1
    <3> DEFINE D == 0 .. size - 1
    <3>1. IsFiniteSet(D) /\ Cardinality(D) = size /\ n - 1 \in D BY <2>1, <2>2
    <3> HIDE DEF D, size
    <3>2. IsFiniteSet(D \ {n - 1}) /\ Cardinality(D \ {n - 1}) = size - 1 BY <3>1, FS_RemoveElement
    <3> QED BY <3>2 DEF D
  <2>4. place \in [set -> others] BY <1>3, <1>5
  <2>5. Cardinality(others) < Cardinality(set) BY <1>1, <2>3
  <2> HIDE DEF place, others
  <2>6. \E x, y \in set : x # y /\ place[x] = place[y] BY <2>3, <2>4, <2>5, FS_PigeonHole
  <2>7. PICK x, y \in set : x # y /\ place[x] = place[y] BY <2>6
  <2>8. x < y \/ y < x BY <2>7
  <2>9. place[x] \in Nat /\ place[y] \in Nat BY <1>1, <1>3
  <2> QED BY <1>4, <2>7, <2>8, <2>9
<1> QED BY <1>5

\* What is ordered is of the set, and each once.
LEMMA OrderedIs ==
    ASSUME NEW set \in SUBSET Nat, IsFiniteSet(set)
    PROVE  /\ DOMAIN W!Ordered(set) = 1 .. Cardinality(set) /\ Cardinality(set) \in Nat
           /\ \A n \in 1 .. Cardinality(set) : W!Ordered(set)[n] \in set
           /\ \A n, m \in 1 .. Cardinality(set) : W!Ordered(set)[n] = W!Ordered(set)[m] => n = m
<1>1. Cardinality(set) \in Nat BY FS_CardinalityType
<1>2. W!Ordered(set) = [n \in 1 .. Cardinality(set) |-> CHOOSE i \in set : Cardinality({j \in set : j < i}) = n - 1]
  BY Zenon DEF W!Ordered, W!Cardinality, Cardinality
<1>3. ASSUME NEW n \in 1 .. Cardinality(set)
      PROVE  /\ W!Ordered(set)[n] \in set
             /\ Cardinality({j \in set : j < W!Ordered(set)[n]}) = n - 1
  <2>1. \E i \in set : Cardinality({j \in set : j < i}) = n - 1 BY EveryPlaceIsTaken
  <2>2. W!Ordered(set)[n] = CHOOSE i \in set : Cardinality({j \in set : j < i}) = n - 1 BY <1>2
  <2> QED BY <2>1, <2>2, Zenon
<1>4. ASSUME NEW n \in 1 .. Cardinality(set), NEW m \in 1 .. Cardinality(set), W!Ordered(set)[n] = W!Ordered(set)[m]
      PROVE  n = m
  <2>1. n - 1 = m - 1 BY <1>3, <1>4
  <2> QED BY <2>1
<1> QED BY <1>1, <1>2, <1>3, <1>4

-----------------------------------------------------------------------------
\* A question and what is chosen of it so far.
Asked ==
    /\ widget \in {"select", "multi", "text"} /\ count \in Nat \ {0}
    /\ cursor \in 0 .. count - 1 /\ marked \subseteq 0 .. count - 1
    /\ status = "answered" => W!Allowed

\* What follows a cursor, round the end of the list.
LEMMA WrapsAround ==
    ASSUME NEW n \in Nat \ {0}, NEW a \in -1 .. n
    PROVE  a % n \in 0 .. n - 1
OBVIOUS

\* A key that moves the cursor.
LEMMA MoveStays == ASSUME Asked, NEW k PROVE W!Move(k) \in 0 .. count - 1
<1>1. count \in Nat \ {0} /\ cursor \in 0 .. count - 1 BY DEF Asked
<1>2. W!Stepped(k) \in 0 .. count - 1
  <2>1. cursor + 1 \in -1 .. count /\ cursor + -1 \in -1 .. count BY <1>1
  <2>2. (cursor + 1) % count \in 0 .. count - 1 /\ (cursor + -1) % count \in 0 .. count - 1 BY <1>1, <2>1, WrapsAround
  <2> QED BY <2>2 DEF W!Stepped, W!Wraps
<1> QED BY <1>1, <1>2 DEF W!Move

\* The options that are checked, as they are returned.
LEMMA TickedIs ==
    ASSUME Asked
    PROVE  /\ W!ToSet(W!Ticked) \subseteq 0 .. count - 1 /\ W!IsInjective(W!Ticked)
           /\ marked # {} => W!Ticked # <<>>
<1>1. count \in Nat \ {0} /\ marked \subseteq 0 .. count - 1 BY DEF Asked
<1>2. IsFiniteSet(0 .. count - 1) BY <1>1, FS_Interval
<1>3. marked \in SUBSET Nat /\ IsFiniteSet(marked)
  <2>1. marked \in SUBSET (0 .. count - 1) /\ marked \in SUBSET Nat BY <1>1
  <2>2. IsFiniteSet(marked) BY <1>2, <2>1, FS_Subset
  <2> QED BY <2>1, <2>2
<1>4. /\ DOMAIN W!Ticked = 1 .. Cardinality(marked) /\ Cardinality(marked) \in Nat
      /\ \A n \in 1 .. Cardinality(marked) : W!Ticked[n] \in marked
      /\ \A n, m \in 1 .. Cardinality(marked) : W!Ticked[n] = W!Ticked[m] => n = m
  BY <1>3, OrderedIs DEF W!Ticked
<1>5. ASSUME marked # {} PROVE W!Ticked # <<>>
  <2>1. Cardinality(marked) # 0 BY <1>3, <1>5, FS_EmptySet
  <2>2. 1 \in DOMAIN W!Ticked BY <1>4, <2>1
  <2> QED BY <2>2, EmptyDomain
<1>6. W!ToSet(W!Ticked) \subseteq 0 .. count - 1 BY <1>1, <1>4 DEF W!ToSet
<1>7. W!IsInjective(W!Ticked) BY <1>4 DEF W!IsInjective
<1> QED BY <1>5, <1>6, <1>7

\* A key that leaves a list.
LEMMA LeavesOnAKey ==
    ASSUME NEW k, W!Leaves(k), status = "asking"
    PROVE  /\ UNCHANGED <<cursor, marked>>
           /\ status' \in {"asking", "back", "quit"}
           /\ status' = "quit" => k \in {"q", "CTRL_C"}
           /\ status' = "back" => k \in {"ESC", "LEFT"}
           /\ k = "ESC" => status' = "back"
BY DEF W!Leaves, W!Ends, W!Stays

\* What a widget makes of a key.
Reacted(k) ==
    /\ cursor' \in 0 .. count - 1 /\ marked' \subseteq 0 .. count - 1
    /\ status' \in {"asking", "answered", "back", "quit"}
    /\ status' = "answered" => W!Allowed'
    /\ status' = "quit" => k \in {"q", "CTRL_C"}
    /\ status' = "back" => k \in {"ESC", "LEFT"}
    /\ k = "ESC" => status' = "back"

\* A widget reacts so to every key.
LEMMA Reacts ==
    ASSUME Asked, status = "asking", NEW k, W!React(k), UNCHANGED <<widget, count, anything>>
    PROVE  Reacted(k)
<1>1. /\ widget \in {"select", "multi", "text"} /\ count \in Nat \ {0} /\ cursor \in 0 .. count - 1
      /\ marked \subseteq 0 .. count - 1
  BY DEF Asked
<1>2. CASE widget = "select"
  <2>1. W!SelectKeys(k) BY <1>2 DEF W!React
  <2>2. CASE k \in W!Navigation
    <3>1. cursor' = W!Move(k) /\ UNCHANGED <<marked, typed, status, answer>> BY <2>1, <2>2 DEF W!SelectKeys, W!Navigation
    <3>2. k # "ESC" BY <2>2 DEF W!Navigation
    <3> QED BY <1>1, <3>1, <3>2, MoveStays DEF Reacted
  <2>3. CASE k \in {"ENTER", "SPACE"}
    <3>1. status' = "answered" /\ answer' = <<cursor>> /\ UNCHANGED <<cursor, marked>>
      BY <2>1, <2>3 DEF W!SelectKeys, W!Ends, W!Navigation
    <3>2. W!Allowed' BY <1>1, <1>2, <3>1 DEF W!Allowed
    <3> QED BY <1>1, <2>3, <3>1, <3>2 DEF Reacted
  <2>4. CASE k \notin W!Navigation \cup {"ENTER", "SPACE"}
    <3>1. W!Leaves(k) BY <2>1, <2>4 DEF W!SelectKeys
    <3> QED BY <1>1, <3>1, LeavesOnAKey DEF Reacted
  <2> QED BY <2>2, <2>3, <2>4
<1>3. CASE widget = "multi"
  <2>1. W!MultiKeys(k) BY <1>3 DEF W!React
  <2>2. CASE k \in W!Navigation
    <3>1. cursor' = W!Move(k) /\ UNCHANGED <<marked, typed, status, answer>> BY <2>1, <2>2 DEF W!MultiKeys, W!Navigation
    <3>2. k # "ESC" BY <2>2 DEF W!Navigation
    <3> QED BY <1>1, <3>1, <3>2, MoveStays DEF Reacted
  <2>3. CASE k = "SPACE"
    <3>1. marked' = W!Toggled /\ UNCHANGED <<cursor, typed, status, answer>> BY <2>1, <2>3 DEF W!MultiKeys, W!Navigation
    <3> QED BY <1>1, <2>3, <3>1 DEF Reacted, W!Toggled
  <2>4. CASE k = "a"
    <3>1. marked' = W!Everything /\ UNCHANGED <<cursor, typed, status, answer>> BY <2>1, <2>4 DEF W!MultiKeys, W!Navigation
    <3> QED BY <1>1, <2>4, <3>1 DEF Reacted, W!Everything
  <2>5. CASE k = "ENTER"
    <3>1. IF marked # {} \/ anything THEN W!Ends("answered", W!Ticked) ELSE W!Stays
      BY <2>1, <2>5, Zenon DEF W!MultiKeys, W!Navigation
    <3>2. CASE marked # {} \/ anything
      <4>1. W!Ends("answered", W!Ticked) BY <3>1, <3>2, Zenon
      <4>2. status' = "answered" /\ answer' = W!Ticked /\ UNCHANGED <<cursor, marked>> BY <4>1 DEF W!Ends
      <4>3. W!ToSet(answer') \subseteq 0 .. count - 1 /\ W!IsInjective(answer') /\ (marked # {} => answer' # <<>>)
        BY <4>2, TickedIs
      <4>4. anything' \/ answer' # <<>> BY <3>2, <4>3, Zenon
      <4>5. widget' = "multi" /\ count' = count BY <1>3
      <4>6. W!Allowed' BY <4>3, <4>4, <4>5 DEF W!Allowed
      <4> QED BY <1>1, <2>5, <4>2, <4>6 DEF Reacted
    <3>3. CASE ~(marked # {} \/ anything)
      <4>1. W!Stays BY <3>1, <3>3, Zenon
      <4> QED BY <1>1, <2>5, <4>1 DEF Reacted, W!Stays
    <3> QED BY <3>2, <3>3
  <2>6. CASE k \notin W!Navigation \cup {"SPACE", "a", "ENTER"}
    <3>1. W!Leaves(k) BY <2>1, <2>6 DEF W!MultiKeys
    <3> QED BY <1>1, <3>1, LeavesOnAKey DEF Reacted
  <2> QED BY <2>2, <2>3, <2>4, <2>5, <2>6
<1>4. CASE widget = "text"
  <2>1. W!TextKeys(k) BY <1>4 DEF W!React
  <2>2. CASE k = "ENTER"
    <3> DEFINE value == IF typed = <<>> /\ anything THEN W!Default ELSE typed
    <3>1. IF anything \/ W!Valid(value) THEN W!Ends("answered", value)
          ELSE typed' = <<>> /\ UNCHANGED <<cursor, marked, status, answer>>
      BY <2>1, <2>2, Zenon DEF W!TextKeys, W!Characters
    <3> HIDE DEF value
    <3>2. CASE anything \/ W!Valid(value)
      <4>1. W!Ends("answered", value) BY <3>1, <3>2, Zenon
      <4>2. status' = "answered" /\ answer' = value /\ UNCHANGED <<cursor, marked>> BY <4>1 DEF W!Ends
      <4>3. anything' \/ W!Valid(answer') BY <3>2, <4>2, Zenon
      <4>4. widget' = "text" BY <1>4
      <4>5. W!Allowed' BY <4>3, <4>4 DEF W!Allowed, W!Valid
      <4> QED BY <1>1, <2>2, <4>2, <4>5 DEF Reacted
    <3>3. CASE ~(anything \/ W!Valid(value))
      <4>1. UNCHANGED <<cursor, marked, status, answer>> BY <3>1, <3>3, Zenon
      <4> QED BY <1>1, <2>2, <4>1 DEF Reacted
    <3> QED BY <3>2, <3>3
  <2>3. CASE k = "ESC"
    <3>1. W!Ends("back", <<>>) BY <2>1, <2>3 DEF W!TextKeys, W!Characters
    <3> QED BY <1>1, <2>3, <3>1 DEF Reacted, W!Ends
  <2>4. CASE k = "CTRL_C"
    <3>1. W!Ends("quit", <<>>) BY <2>1, <2>4 DEF W!TextKeys, W!Characters
    <3> QED BY <1>1, <2>4, <3>1 DEF Reacted, W!Ends
  <2>5. CASE k \notin {"ENTER", "ESC", "CTRL_C"}
    <3>1. UNCHANGED <<cursor, marked, status, answer>> BY <2>1, <2>5 DEF W!TextKeys, W!Stays
    <3> QED BY <1>1, <2>5, <3>1 DEF Reacted
  <2> QED BY <2>2, <2>3, <2>4, <2>5
<1> QED BY <1>1, <1>2, <1>3, <1>4

-----------------------------------------------------------------------------
\* What is typed at a prompt: each number that was named, where it was first.
LEMMA SelectionIs ==
    ASSUME Asked, NEW line \in W!Lines, \A i \in DOMAIN line : W!InRange(line[i])
    PROVE  W!ToSet(W!parse_selection(line)) \subseteq 0 .. count - 1 /\ W!IsInjective(W!parse_selection(line))
<1> DEFINE named == W!Indexes(line)
           firsts == {i \in DOMAIN named : \A j \in DOMAIN named : j < i => named[j] # named[i]}
           order == W!Ordered(firsts)
<1>1. count \in Nat \ {0} BY DEF Asked
<1>2. \A t \in W!Tokens : t.lo \in Nat /\ t.hi \in Nat BY <1>1 DEF W!Tokens
<1>3. ASSUME NEW t \in W!Tokens, W!InRange(t)
      PROVE  W!From(t) \in Seq(0 .. count - 1)
  <2>1. t.lo \in Nat /\ t.hi \in Nat /\ 1 <= t.lo /\ t.lo <= t.hi /\ t.hi <= count BY <1>2, <1>3 DEF W!InRange
  <2>2. t.hi - t.lo + 1 \in Nat /\ \A i \in 1 .. t.hi - t.lo + 1 : t.lo + i - 2 \in 0 .. count - 1 BY <1>1, <2>1
  <2>3. W!From(t) \in [1 .. t.hi - t.lo + 1 -> 0 .. count - 1] BY <2>2 DEF W!From
  <2> QED BY <2>2, <2>3, Listed
<1>4. named \in Seq(0 .. count - 1)
  <2>1. CASE line = <<>> BY <2>1 DEF W!Indexes
  <2>2. CASE \E t \in W!Tokens : line = <<t>>
    <3>1. PICK t \in W!Tokens : line = <<t>> BY <2>2
    <3>2. Len(line) = 1 /\ line[1] = t /\ 1 \in DOMAIN line BY <3>1
    <3> QED BY <1>3, <3>2 DEF W!Indexes
  <2>3. CASE \E t, u \in W!Tokens : line = <<t, u>>
    <3>1. PICK t, u \in W!Tokens : line = <<t, u>> BY <2>3
    <3>2. Len(line) = 2 /\ line[1] = t /\ line[2] = u /\ 1 \in DOMAIN line /\ 2 \in DOMAIN line BY <3>1
    <3>3. W!From(t) \in Seq(0 .. count - 1) /\ W!From(u) \in Seq(0 .. count - 1) BY <1>3, <3>2
    <3>4. named = W!From(t) \o W!From(u) BY <3>2 DEF W!Indexes
    <3> HIDE DEF named
    <3> QED BY <3>3, <3>4
  <2> QED BY <2>1, <2>2, <2>3 DEF W!Lines
<1> HIDE DEF named
<1>5. DOMAIN named = 1 .. Len(named) /\ Len(named) \in Nat /\ \A i \in DOMAIN named : named[i] \in 0 .. count - 1 BY <1>4, Elements
<1>6. firsts \in SUBSET Nat /\ IsFiniteSet(firsts)
  <2>1. firsts \in SUBSET (1 .. Len(named)) /\ firsts \in SUBSET Nat BY <1>5
  <2>2. IsFiniteSet(1 .. Len(named)) BY <1>5, FS_Interval
  <2> HIDE DEF firsts
  <2> QED BY <2>1, <2>2, FS_Subset
<1>7. /\ DOMAIN order = 1 .. Cardinality(firsts) /\ Cardinality(firsts) \in Nat
      /\ \A n \in DOMAIN order : order[n] \in firsts
      /\ \A n, m \in DOMAIN order : order[n] = order[m] => n = m
  <2> HIDE DEF firsts
  <2> QED BY <1>6, OrderedIs
<1>8. W!parse_selection(line) = [n \in DOMAIN order |-> named[order[n]]] BY Zenon DEF W!parse_selection, named
<1> HIDE DEF order
<1>9. W!ToSet(W!parse_selection(line)) \subseteq 0 .. count - 1 BY <1>5, <1>7, <1>8 DEF W!ToSet
<1>10. ASSUME NEW n \in DOMAIN order, NEW m \in DOMAIN order, named[order[n]] = named[order[m]] PROVE n = m
  <2>1. order[n] \in firsts /\ order[m] \in firsts /\ order[n] \in Nat /\ order[m] \in Nat BY <1>6, <1>7
  <2>2. ~(order[n] < order[m]) /\ ~(order[m] < order[n]) BY <1>10, <2>1
  <2>3. order[n] = order[m] BY <2>1, <2>2
  <2> QED BY <1>7, <2>3
<1>11. W!IsInjective(W!parse_selection(line)) BY <1>8, <1>10 DEF W!IsInjective
<1> QED BY <1>9, <1>11

\* An answer that is typed is one the question allows.
LEMMA Prompts ==
    ASSUME Asked, W!Type, status = "asking"
    PROVE  UNCHANGED <<cursor, marked>> /\ (status' = "answered" => W!Allowed')
<1>1. /\ widget \in {"select", "multi", "text"} /\ count \in Nat \ {0} /\ UNCHANGED <<widget, count, anything>>
  BY DEF Asked, W!Type
<1>2. \A t \in W!Tokens : t.lo \in Nat /\ t.hi \in Nat BY <1>1 DEF W!Tokens
<1>3. CASE W!Ends("back", <<>>) \/ W!Ends("quit", <<>>) BY <1>3 DEF W!Ends
<1>4. CASE W!Stays BY <1>4 DEF W!Stays
<1>5. CASE widget = "multi" /\ W!Ends("answered", W!Options)
  <2>1. answer' = W!Options /\ UNCHANGED <<cursor, marked>> BY <1>5 DEF W!Ends
  <2>2. DOMAIN W!Options = 1 .. count /\ \A i \in 1 .. count : W!Options[i] = i - 1 BY DEF W!Options
  <2>3. W!ToSet(W!Options) \subseteq 0 .. count - 1 BY <1>1, <2>2 DEF W!ToSet
  <2>4. W!IsInjective(W!Options) BY <1>1, <2>2 DEF W!IsInjective
  <2>5. W!Options # <<>> BY <1>1, <2>2, EmptyDomain
  <2> QED BY <1>1, <1>5, <2>1, <2>3, <2>4, <2>5 DEF W!Allowed
<1>6. ASSUME NEW line \in W!Lines, widget = "select", W!SelectTyped(line)
      PROVE  UNCHANGED <<cursor, marked>> /\ (status' = "answered" => W!Allowed')
  <2>1. CASE Len(line) = 1 /\ line[1].lo = line[1].hi /\ W!InRange(line[1])
    <3>1. status' = "answered" /\ answer' = <<line[1].lo - 1>> /\ UNCHANGED <<cursor, marked>>
      BY <1>6, <2>1 DEF W!SelectTyped, W!Ends
    <3>2. line[1] \in W!Tokens BY <1>6, <2>1 DEF W!Lines
    <3>3. line[1].lo - 1 \in 0 .. count - 1 BY <1>1, <1>2, <2>1, <3>2 DEF W!InRange
    <3> QED BY <1>1, <1>6, <3>1, <3>3 DEF W!Allowed
  <2>2. CASE ~(Len(line) = 1 /\ line[1].lo = line[1].hi /\ W!InRange(line[1]))
    <3>1. W!Stays BY <1>6, <2>2 DEF W!SelectTyped
    <3> QED BY <1>4, <3>1
  <2> QED BY <2>1, <2>2
<1>7. ASSUME NEW line \in W!Lines, widget = "multi", W!MultiTyped(line)
      PROVE  UNCHANGED <<cursor, marked>> /\ (status' = "answered" => W!Allowed')
  <2> DEFINE chosen == IF line = <<>> THEN W!Ticked ELSE W!parse_selection(line)
             fine == (\A i \in DOMAIN line : W!InRange(line[i])) /\ (chosen # <<>> \/ anything)
  <2>1. IF fine THEN W!Ends("answered", chosen) ELSE W!Stays BY <1>7, Zenon DEF W!MultiTyped
  <2>2. CASE fine
    <3>1. W!Ends("answered", chosen) BY <2>1, <2>2, Zenon
    <3>2. answer' = chosen /\ UNCHANGED <<cursor, marked>> BY <3>1 DEF W!Ends
    <3>3. W!ToSet(chosen) \subseteq 0 .. count - 1 /\ W!IsInjective(chosen) BY <2>2, TickedIs, SelectionIs
    <3> HIDE DEF chosen
    <3>4. anything' \/ answer' # <<>> BY <1>1, <2>2, <3>2, Zenon
    <3>5. W!ToSet(answer') \subseteq 0 .. count' - 1 /\ W!IsInjective(answer') /\ widget' = "multi" BY <1>1, <1>7, <3>2, <3>3
    <3> QED BY <3>2, <3>4, <3>5 DEF W!Allowed
  <2>3. CASE ~fine
    <3>1. W!Stays BY <2>1, <2>3, Zenon
    <3> QED BY <1>4, <3>1
  <2> QED BY <2>2, <2>3
<1>8. ASSUME NEW line \in W!Lines, widget = "text", W!TextTyped(line)
      PROVE  UNCHANGED <<cursor, marked>> /\ (status' = "answered" => W!Allowed')
  <2>1. PICK value : IF anything \/ W!Valid(value) THEN W!Ends("answered", value) ELSE W!Stays
    BY <1>8, Zenon DEF W!TextTyped
  <2>2. CASE anything \/ W!Valid(value)
    <3>1. W!Ends("answered", value) BY <2>1, <2>2, Zenon
    <3>2. answer' = value /\ UNCHANGED <<cursor, marked>> BY <3>1 DEF W!Ends
    <3>3. anything' \/ W!Valid(answer') BY <1>1, <2>2, <3>2, Zenon
    <3>4. widget' = "text" BY <1>1, <1>8
    <3> QED BY <3>2, <3>3, <3>4 DEF W!Allowed, W!Valid
  <2>3. CASE ~(anything \/ W!Valid(value))
    <3>1. W!Stays BY <2>1, <2>3, Zenon
    <3> QED BY <1>4, <3>1
  <2> QED BY <2>2, <2>3
<1>9. \/ \E line \in W!Lines : CASE widget = "select" -> W!SelectTyped(line) [] widget = "multi" -> W!MultiTyped(line)
                                 [] OTHER -> W!TextTyped(line)
      \/ widget = "multi" /\ W!Ends("answered", W!Options)
      \/ W!Ends("back", <<>>) \/ W!Ends("quit", <<>>)
  BY DEF W!Type
<1>10. CASE \E line \in W!Lines : CASE widget = "select" -> W!SelectTyped(line) [] widget = "multi" -> W!MultiTyped(line)
                                 [] OTHER -> W!TextTyped(line)
  <2>1. PICK line \in W!Lines : CASE widget = "select" -> W!SelectTyped(line) [] widget = "multi" -> W!MultiTyped(line)
                                 [] OTHER -> W!TextTyped(line)
    BY <1>10
  <2>2. \/ widget = "select" /\ W!SelectTyped(line)
        \/ widget = "multi" /\ W!MultiTyped(line)
        \/ widget = "text" /\ W!TextTyped(line)
    BY <1>1, <2>1
  <2> QED BY <1>6, <1>7, <1>8, <2>2
<1> QED BY <1>3, <1>5, <1>9, <1>10

-----------------------------------------------------------------------------
\* Sequences over one set.
LEMMA JoinIs ==
    ASSUME NEW D, NEW s \in Seq(D), NEW t \in Seq(D)
    PROVE  /\ s \o t \in Seq(D) /\ Len(s \o t) = Len(s) + Len(t)
           /\ \A i \in 1 .. Len(s) : (s \o t)[i] = s[i]
           /\ \A i \in 1 .. Len(t) : (s \o t)[Len(s) + i] = t[i]
OBVIOUS

\* One more at the end.
LEMMA AppendIs ==
    ASSUME NEW D, NEW s \in Seq(D), NEW x \in D
    PROVE  /\ Append(s, x) \in Seq(D) /\ Len(Append(s, x)) = Len(s) + 1
           /\ \A i \in 1 .. Len(s) : Append(s, x)[i] = s[i]
           /\ Append(s, x)[Len(s) + 1] = x
OBVIOUS

\* All but the first.
LEMMA TailIs ==
    ASSUME NEW D, NEW s \in Seq(D), s # <<>>
    PROVE  /\ Len(s) \in Nat \ {0} /\ Head(s) = s[1] /\ Head(s) \in D
           /\ Tail(s) \in Seq(D) /\ Len(Tail(s)) = Len(s) - 1
           /\ \A i \in 1 .. Len(s) - 1 : Tail(s)[i] = s[i + 1]
OBVIOUS

\* A part of a sequence.
LEMMA PartIs ==
    ASSUME NEW D, NEW s \in Seq(D), NEW m \in 1 .. Len(s) + 1, NEW n \in m - 1 .. Len(s)
    PROVE  /\ SubSeq(s, m, n) \in Seq(D) /\ Len(SubSeq(s, m, n)) = n - m + 1
           /\ \A i \in 1 .. n - m + 1 : SubSeq(s, m, n)[i] = s[m + i - 1]
OBVIOUS

\* Two sequences with the same places are one.
LEMMA SameSequence ==
    ASSUME NEW D, NEW s \in Seq(D), NEW t \in Seq(D), Len(s) = Len(t), \A i \in 1 .. Len(s) : s[i] = t[i]
    PROVE  s = t
OBVIOUS

\* A sequence of one.
LEMMA OneElement ==
    ASSUME NEW D, NEW s \in Seq(D), NEW x \in D, Len(s) = 1, s[1] = x
    PROVE  s = <<x>>
<1>1. <<x>> \in Seq(D) /\ Len(<<x>>) = 1 /\ <<x>>[1] = x OBVIOUS
<1> QED BY <1>1, SameSequence

\* What is joined in two ways.
LEMMA JoinAssociates ==
    ASSUME NEW D, NEW s \in Seq(D), NEW t \in Seq(D), NEW u \in Seq(D)
    PROVE  (s \o t) \o u = s \o (t \o u)
<1> DEFINE l == (s \o t) \o u
           r == s \o (t \o u)
<1>1. Len(s) \in Nat /\ Len(t) \in Nat /\ Len(u) \in Nat OBVIOUS
<1>2. s \o t \in Seq(D) /\ t \o u \in Seq(D) /\ Len(s \o t) = Len(s) + Len(t) /\ Len(t \o u) = Len(t) + Len(u) BY JoinIs
<1>3. l \in Seq(D) /\ r \in Seq(D) /\ Len(l) = Len(s) + Len(t) + Len(u) /\ Len(r) = Len(l) BY <1>1, <1>2, JoinIs
<1>4. ASSUME NEW i \in 1 .. Len(l) PROVE l[i] = r[i]
  <2>1. CASE i \in 1 .. Len(s)
    <3>1. i \in 1 .. Len(s \o t) BY <1>1, <1>2, <2>1
    <3>2. l[i] = (s \o t)[i] /\ (s \o t)[i] = s[i] /\ r[i] = s[i] BY <1>2, <2>1, <3>1, JoinIs
    <3> QED BY <3>2
  <2>2. CASE i - Len(s) \in 1 .. Len(t)
    <3> DEFINE k == i - Len(s)
    <3>1. k \in 1 .. Len(t) /\ i = Len(s) + k /\ i \in 1 .. Len(s \o t) /\ k \in 1 .. Len(t \o u) BY <1>1, <1>2, <2>2
    <3> HIDE DEF k
    <3>2. l[i] = (s \o t)[i] /\ (s \o t)[Len(s) + k] = t[k] BY <1>2, <3>1, JoinIs
    <3>3. r[Len(s) + k] = (t \o u)[k] /\ (t \o u)[k] = t[k] BY <1>2, <3>1, JoinIs
    <3> QED BY <3>1, <3>2, <3>3
  <2>3. CASE i - Len(s) - Len(t) \in 1 .. Len(u)
    <3> DEFINE k == i - Len(s) - Len(t)
    <3>1. /\ k \in 1 .. Len(u) /\ i = Len(s \o t) + k /\ i = Len(s) + (Len(t) + k) /\ Len(t) + k \in 1 .. Len(t \o u)
      BY <1>1, <1>2, <2>3
    <3> HIDE DEF k
    <3>2. l[Len(s \o t) + k] = u[k] BY <1>2, <3>1, JoinIs
    <3>3. r[Len(s) + (Len(t) + k)] = (t \o u)[Len(t) + k] /\ (t \o u)[Len(t) + k] = u[k] BY <1>2, <3>1, JoinIs
    <3> QED BY <3>1, <3>2, <3>3
  <2> QED BY <1>1, <1>3, <2>1, <2>2, <2>3
<1> HIDE DEF l, r
<1>5. l = r BY <1>3, <1>4, SameSequence
<1> QED BY <1>5 DEF l, r

\* Nothing is joined to a sequence.
LEMMA NothingJoined == ASSUME NEW D, NEW s \in Seq(D) PROVE <<>> \o s = s /\ s \o <<>> = s
<1>1. <<>> \in Seq(D) /\ Len(<<>>) = 0 OBVIOUS
<1>2. <<>> \o s \in Seq(D) /\ Len(<<>> \o s) = Len(s) /\ \A i \in 1 .. Len(s) : (<<>> \o s)[i] = s[i]
  <2>1. \A i \in 1 .. Len(s) : (<<>> \o s)[0 + i] = s[i] BY <1>1, JoinIs
  <2>2. \A i \in 1 .. Len(s) : 0 + i = i OBVIOUS
  <2>3. <<>> \o s \in Seq(D) /\ Len(<<>> \o s) = 0 + Len(s) /\ 0 + Len(s) = Len(s) BY <1>1, JoinIs
  <2> QED BY <2>1, <2>2, <2>3
<1>3. s \o <<>> \in Seq(D) /\ Len(s \o <<>>) = Len(s) /\ \A i \in 1 .. Len(s) : (s \o <<>>)[i] = s[i]
  <2>1. Len(s) + 0 = Len(s) OBVIOUS
  <2> QED BY <1>1, <2>1, JoinIs
<1> QED BY <1>2, <1>3, SameSequence

\* The first of what comes after goes to the end of what comes before.
LEMMA HeadMoves ==
    ASSUME NEW D, NEW s \in Seq(D), NEW t \in Seq(D), t # <<>>
    PROVE  Append(s, Head(t)) \o Tail(t) = s \o t
<1> DEFINE a == Append(s, Head(t))
           l == a \o Tail(t)
           r == s \o t
<1>1. /\ Len(t) \in Nat \ {0} /\ Head(t) = t[1] /\ Head(t) \in D /\ Tail(t) \in Seq(D) /\ Len(Tail(t)) = Len(t) - 1
      /\ \A i \in 1 .. Len(t) - 1 : Tail(t)[i] = t[i + 1]
  BY TailIs
<1>2. a \in Seq(D) /\ Len(a) = Len(s) + 1 /\ (\A i \in 1 .. Len(s) : a[i] = s[i]) /\ a[Len(s) + 1] = t[1] /\ Len(s) \in Nat
  BY <1>1, AppendIs
<1> HIDE DEF a
<1>3. l \in Seq(D) /\ r \in Seq(D) /\ Len(l) = Len(s) + Len(t) /\ Len(r) = Len(l)
  <2>1. l \in Seq(D) /\ Len(l) = Len(a) + Len(Tail(t)) BY <1>1, <1>2, JoinIs
  <2>2. r \in Seq(D) /\ Len(r) = Len(s) + Len(t) BY JoinIs
  <2> QED BY <1>1, <1>2, <2>1, <2>2
<1>4. ASSUME NEW i \in 1 .. Len(l) PROVE l[i] = r[i]
  <2>1. CASE i \in 1 .. Len(s)
    <3>1. i \in 1 .. Len(a) BY <1>2, <2>1
    <3>2. l[i] = a[i] BY <1>1, <1>2, <3>1, JoinIs
    <3>3. r[i] = s[i] BY <2>1, JoinIs
    <3> QED BY <1>2, <2>1, <3>2, <3>3
  <2>2. CASE i = Len(s) + 1
    <3>1. i \in 1 .. Len(a) /\ 1 \in 1 .. Len(t) BY <1>1, <1>2, <2>2
    <3>2. l[i] = a[i] BY <1>1, <1>2, <3>1, JoinIs
    <3>3. r[Len(s) + 1] = t[1] BY <3>1, JoinIs
    <3> QED BY <1>2, <2>2, <3>2, <3>3
  <2>3. CASE i - Len(a) \in 1 .. Len(t) - 1
    <3> DEFINE k == i - Len(a)
    <3>1. k \in 1 .. Len(Tail(t)) /\ k \in 1 .. Len(t) - 1 /\ i = Len(a) + k /\ i = Len(s) + (k + 1) /\ k + 1 \in 1 .. Len(t)
      BY <1>1, <1>2, <2>3
    <3> HIDE DEF k
    <3>2. l[Len(a) + k] = Tail(t)[k] BY <1>1, <1>2, <3>1, JoinIs
    <3>3. r[Len(s) + (k + 1)] = t[k + 1] BY <3>1, JoinIs
    <3> QED BY <1>1, <3>1, <3>2, <3>3
  <2> QED BY <1>1, <1>2, <1>3, <2>1, <2>2, <2>3
<1> HIDE DEF l, r
<1>5. l = r BY <1>3, <1>4, SameSequence
<1> QED BY <1>5 DEF l, r, a

\* The two parts of a sequence make it up.
LEMMA PartsJoin ==
    ASSUME NEW D, NEW s \in Seq(D), NEW n \in 1 .. Len(s)
    PROVE  SubSeq(s, 1, n) \o SubSeq(s, n + 1, Len(s)) = s
<1> DEFINE a == SubSeq(s, 1, n)
           b == SubSeq(s, n + 1, Len(s))
           l == a \o b
<1>1. Len(s) \in Nat /\ n \in Nat OBVIOUS
<1>2. a \in Seq(D) /\ Len(a) = n /\ \A i \in 1 .. n : a[i] = s[i]
  <2>1. 1 \in 1 .. Len(s) + 1 /\ n \in 1 - 1 .. Len(s) /\ n - 1 + 1 = n BY <1>1
  <2>2. a \in Seq(D) /\ Len(a) = n - 1 + 1 /\ \A i \in 1 .. n - 1 + 1 : a[i] = s[1 + i - 1] BY <2>1, PartIs
  <2>3. \A i \in 1 .. n : 1 + i - 1 = i OBVIOUS
  <2> HIDE DEF a
  <2> QED BY <2>1, <2>2, <2>3
<1>3. b \in Seq(D) /\ Len(b) = Len(s) - n /\ \A i \in 1 .. Len(s) - n : b[i] = s[n + i]
  <2>1. n + 1 \in 1 .. Len(s) + 1 /\ Len(s) \in (n + 1) - 1 .. Len(s) /\ Len(s) - (n + 1) + 1 = Len(s) - n BY <1>1
  <2>2. b \in Seq(D) /\ Len(b) = Len(s) - (n + 1) + 1 /\ \A i \in 1 .. Len(s) - (n + 1) + 1 : b[i] = s[(n + 1) + i - 1]
    BY <2>1, PartIs
  <2>3. \A i \in 1 .. Len(s) - n : (n + 1) + i - 1 = n + i OBVIOUS
  <2> HIDE DEF b
  <2> QED BY <2>1, <2>2, <2>3
<1> HIDE DEF a, b
<1>4. l \in Seq(D) /\ Len(l) = Len(s)
  <2>1. l \in Seq(D) /\ Len(l) = Len(a) + Len(b) BY <1>2, <1>3, JoinIs
  <2> QED BY <1>1, <1>2, <1>3, <2>1
<1>5. ASSUME NEW i \in 1 .. Len(s) PROVE l[i] = s[i]
  <2>1. CASE i \in 1 .. n
    <3>1. i \in 1 .. Len(a) BY <1>2, <2>1
    <3>2. l[i] = a[i] BY <1>2, <1>3, <3>1, JoinIs
    <3> QED BY <1>2, <2>1, <3>2
  <2>2. CASE i - n \in 1 .. Len(s) - n
    <3> DEFINE k == i - n
    <3>1. k \in 1 .. Len(b) /\ k \in 1 .. Len(s) - n /\ i = Len(a) + k /\ i = n + k BY <1>1, <1>2, <1>3, <2>2
    <3> HIDE DEF k
    <3>2. l[Len(a) + k] = b[k] BY <1>2, <1>3, <3>1, JoinIs
    <3> QED BY <1>3, <3>1, <3>2
  <2>3. i \in 1 .. n \/ i - n \in 1 .. Len(s) - n BY <1>1
  <2> QED BY <2>1, <2>2, <2>3, Zenon
<1> HIDE DEF l
<1>6. l = s BY <1>4, <1>5, SameSequence
<1> QED BY <1>6 DEF l, a, b

-----------------------------------------------------------------------------
\* The bytes of the keys, and those that end one of several.
Alphabet ==
    {"esc", "[", "O", "A", "B", "D", "F", "5", "6", "~", "1", "semicolon", "cr", "del", "nak", "etx", " ", "a", "q", "2", "c3", "a9"}
Finals == {"A", "B", "D", "F", "~"}

\* What a byte or more of them may be called.
Words == W!Keys \cup Alphabet \cup {"none"}

\* Bytes that the reader takes together, and does not take for less.
Chunk(x) ==
    /\ x \in Seq(Alphabet) /\ Len(x) >= 1 /\ x[1] \notin {"[", "O"}
    /\ x = <<"esc">> \/ W!Complete(x)
    /\ \A t \in Seq(Alphabet) :
          Len(t) >= 1 /\ Len(t) < Len(x) /\ (\A i \in 1 .. Len(t) : t[i] = x[i]) => ~W!Complete(t)

\* A key whose bytes are taken together has the name it is known by.
Spells(x, k) ==
    /\ Chunk(x) /\ W!Key(x) = (IF k \in W!Understood THEN k ELSE "none")
    /\ \A j \in 1 .. Len(x) : (x[j] = "q" => k = "q") /\ (x[j] = "etx" => k = "CTRL_C")

\* When the reader has enough, by the number of bytes.
LEMMA EnoughIs ==
    ASSUME NEW t \in Seq(Alphabet), Len(t) >= 1
    PROVE  /\ Len(t) = 1 => (W!Complete(t) <=> t[1] # "esc")
           /\ Len(t) = 2 => (W!Complete(t) <=> t[2] \notin {"[", "O"})
           /\ Len(t) > 2 => (W!Complete(t) <=> t[Len(t)] \in Finals \/ Len(t) = 10)
BY DEF W!Complete, W!Last, Finals

\* A byte of its own.
LEMMA OneByte ==
    ASSUME NEW b \in Alphabet \ {"[", "O"}
    PROVE  Chunk(<<b>>) /\ W!Key(<<b>>) = (IF b = "esc" THEN "ESC" ELSE W!Single(b))
<1> DEFINE x == <<b>>
<1>1. x \in Seq(Alphabet) /\ Len(x) = 1 /\ x[1] = b OBVIOUS
<1>2. b = "esc" => x = <<"esc">> OBVIOUS
<1> HIDE DEF x
<1>3. b = "esc" \/ W!Complete(x) BY <1>1, EnoughIs
<1>4. \A t \in Seq(Alphabet) : ~(Len(t) >= 1 /\ Len(t) < Len(x)) BY <1>1
<1>5. Chunk(x) BY <1>1, <1>2, <1>3, <1>4 DEF Chunk
<1>6. W!Key(x) = (IF b = "esc" THEN "ESC" ELSE W!Single(b)) BY <1>1 DEF W!Key
<1> QED BY <1>5, <1>6 DEF x

\* A number of bytes is one, two or more.
LEMMA OneTwoMore == ASSUME NEW n \in Nat, n >= 1 PROVE n = 1 \/ n = 2 \/ n > 2
OBVIOUS

\* A key of several bytes.
LEMMA SeveralBytes ==
    ASSUME NEW x \in Seq(Alphabet), Len(x) \in 3 .. 9, x[1] = "esc", x[2] \in {"[", "O"},
           \A j \in 3 .. Len(x) : x[j] \in Finals <=> j = Len(x)
    PROVE  Chunk(x) /\ W!Key(x) = W!Named(SubSeq(x, 3, Len(x)))
<1>1. W!Complete(x) BY EnoughIs
<1>2. ASSUME NEW t \in Seq(Alphabet), Len(t) >= 1, Len(t) < Len(x), \A i \in 1 .. Len(t) : t[i] = x[i]
      PROVE  ~W!Complete(t)
  <2>1. CASE Len(t) = 1
    <3>1. t[1] = "esc" BY <1>2, <2>1
    <3> QED BY <2>1, <3>1, EnoughIs
  <2>2. CASE Len(t) = 2
    <3>1. t[2] \in {"[", "O"} BY <1>2, <2>2
    <3>2. W!Complete(t) <=> t[2] \notin {"[", "O"} BY <1>2, <2>2, EnoughIs
    <3> QED BY <3>1, <3>2
  <2>3. CASE Len(t) > 2
    <3>1. Len(t) \in 3 .. Len(x) /\ Len(t) # Len(x) /\ Len(t) # 10 BY <1>2, <2>3
    <3>2. t[Len(t)] = x[Len(t)] BY <1>2, <3>1
    <3>3. t[Len(t)] \notin Finals BY <3>1, <3>2
    <3>4. Len(t) >= 1 /\ Len(t) > 2 BY <1>2, <2>3
    <3>5. Len(t) # 10 BY <3>1
    <3>6. W!Complete(t) <=> t[Len(t)] \in Finals \/ Len(t) = 10 BY <3>4, EnoughIs
    <3> QED BY <3>3, <3>5, <3>6
  <2>4. Len(t) \in Nat BY Elements
  <2>6. Len(t) >= 1 BY <1>2
  <2>5. Len(t) = 1 \/ Len(t) = 2 \/ Len(t) > 2 BY ONLY <2>4, <2>6, OneTwoMore
  <2> QED BY <2>1, <2>2, <2>3, <2>5
<1>3. W!Key(x) = W!Named(SubSeq(x, 3, Len(x))) BY DEF W!Key
<1> QED BY <1>1, <1>2, <1>3 DEF Chunk

\* All but the first two.
LEMMA WithoutTwo ==
    ASSUME NEW D, NEW s \in Seq(D), Len(s) >= 2
    PROVE  /\ SubSeq(s, 3, Len(s)) \in Seq(D) /\ Len(SubSeq(s, 3, Len(s))) = Len(s) - 2
           /\ \A i \in 1 .. Len(s) - 2 : SubSeq(s, 3, Len(s))[i] = s[i + 2]
<1> DEFINE r == SubSeq(s, 3, Len(s))
<1>1. Len(s) \in Nat OBVIOUS
<1>2. 3 \in 1 .. Len(s) + 1 /\ Len(s) \in 3 - 1 .. Len(s) /\ Len(s) - 3 + 1 = Len(s) - 2 BY <1>1
<1>3. r \in Seq(D) /\ Len(r) = Len(s) - 3 + 1 /\ \A i \in 1 .. Len(s) - 3 + 1 : r[i] = s[3 + i - 1] BY <1>2, PartIs
<1> HIDE DEF r
<1>4. \A i \in 1 .. Len(s) - 2 : 3 + i - 1 = i + 2 OBVIOUS
<1>5. r \in Seq(D) /\ Len(r) = Len(s) - 2 /\ \A i \in 1 .. Len(s) - 2 : r[i] = s[i + 2] BY <1>2, <1>3, <1>4
<1> QED BY <1>5 DEF r

\* Six in a row.
LEMMA SixInARow ==
    ASSUME NEW D, NEW a \in D, NEW b \in D, NEW c \in D, NEW d \in D, NEW e \in D, NEW f \in D, NEW x,
           x = <<a, b, c, d, e, f>>
    PROVE  /\ x \in Seq(D) /\ Len(x) = 6
           /\ x[1] = a /\ x[2] = b /\ x[3] = c /\ x[4] = d /\ x[5] = e /\ x[6] = f
OBVIOUS

\* What the ends of the keys of several bytes are called.
LEMMA NamesAre ==
    /\ W!Named(<<"A">>) = "UP" /\ W!Named(<<"B">>) = "DOWN" /\ W!Named(<<"D">>) = "LEFT" /\ W!Named(<<"F">>) = "END"
    /\ W!Named(<<"5", "~">>) = "PGUP" /\ W!Named(<<"6", "~">>) = "PGDN"
    /\ W!Named(<<"1", "semicolon", "5", "A">>) = "none"
<1>1. \A t : Len(t) # 1 => t \notin {<<y>> : y \in DOMAIN W!Names} OBVIOUS
<1>2. \A c \in {"A", "B", "D", "F"} : <<c>> \in {<<y>> : y \in DOMAIN W!Names} /\ <<c>>[1] = c BY DEF W!Names
<1>3. /\ W!Names["A"] = "UP" /\ W!Names["B"] = "DOWN" /\ W!Names["D"] = "LEFT" /\ W!Names["F"] = "END"
  BY DEF W!Names
<1>4. \A c \in {"A", "B", "D", "F"} : <<c>> # <<"5", "~">> /\ <<c>> # <<"6", "~">> OBVIOUS
<1>5. \A c \in {"A", "B", "D", "F"} : W!Named(<<c>>) = W!Names[c] BY <1>2, <1>4 DEF W!Named
<1>6. Len(<<"5", "~">>) = 2 /\ Len(<<"6", "~">>) = 2 /\ Len(<<"1", "semicolon", "5", "A">>) = 4 /\ <<"5", "~">> # <<"6", "~">> OBVIOUS
<1>7. <<"1", "semicolon", "5", "A">> # <<"5", "~">> /\ <<"1", "semicolon", "5", "A">> # <<"6", "~">> BY <1>6
<1>8. W!Named(<<"5", "~">>) = "PGUP" BY <1>1, <1>6 DEF W!Named
<1>9. W!Named(<<"6", "~">>) = "PGDN" BY <1>1, <1>6 DEF W!Named
<1>10. W!Named(<<"1", "semicolon", "5", "A">>) = "none" BY <1>1, <1>6, <1>7 DEF W!Named
<1> QED BY <1>3, <1>5, <1>8, <1>9, <1>10

\* An arrow or End.
LEMMA ThreeBytes ==
    ASSUME NEW b \in {"[", "O"}, NEW c \in {"A", "B", "D", "F"}, NEW k \in W!Understood, W!Named(<<c>>) = k
    PROVE  Spells(<<"esc", b, c>>, k)
<1> DEFINE x == <<"esc", b, c>>
<1>1. "esc" \in Alphabet /\ b \in Alphabet /\ c \in Alphabet BY DEF Alphabet
<1>2. x \in Seq(Alphabet) /\ Len(x) = 3 /\ x[1] = "esc" /\ x[2] = b /\ x[3] = c BY <1>1
<1> HIDE DEF x
<1>3. Len(x) \in 3 .. 9 /\ x[2] \in {"[", "O"} /\ \A j \in 3 .. Len(x) : x[j] \in Finals <=> j = Len(x)
  <2>1. \A j \in 3 .. Len(x) : j = 3 BY <1>2
  <2>2. c \in Finals BY DEF Finals
  <2> QED BY <1>2, <2>1, <2>2
<1>4. Chunk(x) /\ W!Key(x) = W!Named(SubSeq(x, 3, Len(x))) BY <1>2, <1>3, SeveralBytes
<1>5. SubSeq(x, 3, Len(x)) = <<c>>
  <2>1. SubSeq(x, 3, Len(x)) \in Seq(Alphabet) /\ Len(SubSeq(x, 3, Len(x))) = 1 /\ SubSeq(x, 3, Len(x))[1] = c
    BY <1>2, WithoutTwo
  <2> QED BY <1>1, <2>1, OneElement
<1>6. \A j \in 1 .. Len(x) : x[j] \notin {"q", "etx"}
  <2>1. \A j \in 1 .. Len(x) : j = 1 \/ j = 2 \/ j = 3 BY <1>2
  <2> QED BY <1>2, <2>1
<1>7. Spells(x, k) BY <1>4, <1>5, <1>6 DEF Spells
<1> QED BY <1>7 DEF x

\* Page up and down.
LEMMA FourBytes ==
    ASSUME NEW c \in {"5", "6"}, NEW k \in W!Understood, W!Named(<<c, "~">>) = k
    PROVE  Spells(<<"esc", "[", c, "~">>, k)
<1> DEFINE x == <<"esc", "[", c, "~">>
<1>1. "esc" \in Alphabet /\ "[" \in Alphabet /\ c \in Alphabet /\ "~" \in Alphabet BY DEF Alphabet
<1>2. x \in Seq(Alphabet) /\ Len(x) = 4 /\ x[1] = "esc" /\ x[2] = "[" /\ x[3] = c /\ x[4] = "~" BY <1>1
<1> HIDE DEF x
<1>3. Len(x) \in 3 .. 9 /\ x[2] \in {"[", "O"} /\ \A j \in 3 .. Len(x) : x[j] \in Finals <=> j = Len(x)
  <2>1. \A j \in 3 .. Len(x) : j = 3 \/ j = 4 BY <1>2
  <2>2. c \notin Finals /\ "~" \in Finals BY DEF Finals
  <2> QED BY <1>2, <2>1, <2>2
<1>4. Chunk(x) /\ W!Key(x) = W!Named(SubSeq(x, 3, Len(x))) BY <1>2, <1>3, SeveralBytes
<1>5. SubSeq(x, 3, Len(x)) = <<c, "~">>
  <2> DEFINE y == SubSeq(x, 3, Len(x))
  <2>1. y \in Seq(Alphabet) /\ Len(y) = 2 /\ y[1] = c /\ y[2] = "~" BY <1>2, WithoutTwo
  <2> HIDE DEF y
  <2>2. y = <<c, "~">> BY <2>1
  <2> QED BY <2>2 DEF y
<1>6. \A j \in 1 .. Len(x) : x[j] \notin {"q", "etx"}
  <2>1. \A j \in 1 .. Len(x) : j = 1 \/ j = 2 \/ j = 3 \/ j = 4 BY <1>2
  <2> QED BY <1>2, <2>1
<1>7. Spells(x, k) BY <1>4, <1>5, <1>6 DEF Spells
<1> QED BY <1>7 DEF x

\* A key with parameters, which has no name.
LEMMA SixBytes == Spells(<<"esc", "[", "1", "semicolon", "5", "A">>, "CTRL_UP")
<1> DEFINE x == <<"esc", "[", "1", "semicolon", "5", "A">>
<1>1. \A b \in {"esc", "[", "1", "semicolon", "5", "A"} : b \in Alphabet BY DEF Alphabet
<1>2. /\ x \in Seq(Alphabet) /\ Len(x) = 6 /\ x[1] = "esc" /\ x[2] = "[" /\ x[3] = "1" /\ x[4] = "semicolon" /\ x[5] = "5"
      /\ x[6] = "A"
  BY <1>1, SixInARow
<1> HIDE DEF x
<1>3. Len(x) \in 3 .. 9 /\ x[2] \in {"[", "O"} /\ \A j \in 3 .. Len(x) : x[j] \in Finals <=> j = Len(x)
  <2>1. \A j \in 3 .. 6 : j = 3 \/ j = 4 \/ j = 5 \/ j = 6 OBVIOUS
  <2>2. "1" \notin Finals /\ "semicolon" \notin Finals /\ "5" \notin Finals /\ "A" \in Finals BY DEF Finals
  <2> QED BY <1>2, <2>1, <2>2
<1>4. Chunk(x) /\ W!Key(x) = W!Named(SubSeq(x, 3, Len(x))) BY <1>2, <1>3, SeveralBytes
<1>5. SubSeq(x, 3, Len(x)) = <<"1", "semicolon", "5", "A">>
  <2> DEFINE y == SubSeq(x, 3, Len(x))
  <2>1. Len(x) - 2 = 4 /\ Len(x) >= 2 BY <1>2
  <2>5. x \in Seq(Alphabet) BY <1>2
  <2>6. y \in Seq(Alphabet) /\ Len(y) = Len(x) - 2 /\ \A i \in 1 .. Len(x) - 2 : y[i] = x[i + 2] BY <2>1, <2>5, WithoutTwo
  <2>2. y \in Seq(Alphabet) /\ Len(y) = 4 /\ \A i \in 1 .. 4 : y[i] = x[i + 2] BY <2>1, <2>6
  <2> HIDE DEF y
  <2>3. y[1] = x[3] /\ y[2] = x[4] /\ y[3] = x[5] /\ y[4] = x[6] BY <2>2
  <2>4. y = <<"1", "semicolon", "5", "A">> BY <1>2, <2>2, <2>3
  <2> QED BY <2>4 DEF y
<1>6. \A j \in 1 .. Len(x) : x[j] \notin {"q", "etx"}
  <2>1. \A j \in 1 .. 6 : j = 1 \/ j = 2 \/ j = 3 \/ j = 4 \/ j = 5 \/ j = 6 OBVIOUS
  <2> QED BY <1>2, <2>1
<1>7. "CTRL_UP" \notin W!Understood BY DEF W!Understood
<1>8. Spells(x, "CTRL_UP") BY <1>4, <1>5, <1>6, <1>7, NamesAre DEF Spells
<1> QED BY <1>8 DEF x

\* Every key but the accent spells its name.
LEMMA KeysSpell ==
    /\ \A k \in W!Keys \ {"accent"} : Spells(W!Bytes[k], k)
    /\ W!Bytes["accent"] = <<"c3", "a9">>
    /\ Chunk(<<"c3">>) /\ Chunk(<<"a9">>) /\ W!Key(<<"c3">>) = "none" /\ W!Key(<<"a9">>) = "none"
<1>1. /\ W!Keys = {"UP", "DOWN", "LEFT", "END", "PGUP", "PGDN", "CTRL_UP", "ESC", "ENTER", "BACKSPACE", "CTRL_U",
                   "CTRL_C", "SPACE", "a", "q", "two", "accent"}
      /\ W!Understood = W!Keys \ {"CTRL_UP", "accent"}
  BY DEF W!Keys, W!Bytes, W!Understood
<1>2. /\ W!Bytes["UP"] = <<"esc", "[", "A">> /\ W!Bytes["DOWN"] = <<"esc", "[", "B">>
      /\ W!Bytes["LEFT"] = <<"esc", "[", "D">> /\ W!Bytes["END"] = <<"esc", "O", "F">>
  BY DEF W!Bytes
<1>3. W!Bytes["PGUP"] = <<"esc", "[", "5", "~">> /\ W!Bytes["PGDN"] = <<"esc", "[", "6", "~">> BY DEF W!Bytes
<1>4. W!Bytes["CTRL_UP"] = <<"esc", "[", "1", "semicolon", "5", "A">> BY DEF W!Bytes
<1>5. /\ W!Bytes["ESC"] = <<"esc">> /\ W!Bytes["ENTER"] = <<"cr">> /\ W!Bytes["BACKSPACE"] = <<"del">>
      /\ W!Bytes["CTRL_U"] = <<"nak">> /\ W!Bytes["CTRL_C"] = <<"etx">> /\ W!Bytes["SPACE"] = <<" ">>
      /\ W!Bytes["a"] = <<"a">> /\ W!Bytes["q"] = <<"q">> /\ W!Bytes["two"] = <<"2">>
      /\ W!Bytes["accent"] = <<"c3", "a9">>
  BY DEF W!Bytes
<1>6. /\ W!Single("cr") = "ENTER" /\ W!Single("del") = "BACKSPACE" /\ W!Single("nak") = "CTRL_U"
      /\ W!Single("etx") = "CTRL_C" /\ W!Single(" ") = "SPACE" /\ W!Single("a") = "a" /\ W!Single("q") = "q"
      /\ W!Single("2") = "two" /\ W!Single("c3") = "none" /\ W!Single("a9") = "none"
  BY DEF W!Single
<1> DEFINE Says(b, k) ==
           /\ b \in Alphabet \ {"[", "O"} /\ k \in W!Understood
           /\ k = (IF b = "esc" THEN "ESC" ELSE W!Single(b))
           /\ b = "q" => k = "q"
           /\ b = "etx" => k = "CTRL_C"
<1>7. ASSUME NEW b, NEW k, Says(b, k) PROVE Spells(<<b>>, k)
  <2>1. Len(<<b>>) = 1 /\ <<b>>[1] = b OBVIOUS
  <2>2. \A j \in 1 .. Len(<<b>>) : <<b>>[j] = b BY <2>1
  <2> QED BY <1>7, <2>2, OneByte DEF Spells
<1>8. {"esc", "cr", "del", "nak", "etx", " ", "a", "q", "2", "c3", "a9"} \subseteq Alphabet \ {"[", "O"} BY DEF Alphabet
<1>9. Chunk(<<"c3">>) /\ Chunk(<<"a9">>) /\ W!Key(<<"c3">>) = "none" /\ W!Key(<<"a9">>) = "none"
  BY <1>6, <1>8, OneByte
<1>11. {"ESC", "ENTER", "BACKSPACE", "CTRL_U", "CTRL_C", "SPACE", "a", "q", "two"} \subseteq W!Understood BY <1>1
<1>21. Spells(<<"esc">>, "ESC")
  <2>1. Says("esc", "ESC") BY <1>6, <1>8, <1>11
  <2> HIDE DEF Says
  <2> QED BY <1>7, <2>1
<1>22. Spells(<<"cr">>, "ENTER")
  <2>1. Says("cr", "ENTER") BY <1>6, <1>8, <1>11
  <2> HIDE DEF Says
  <2> QED BY <1>7, <2>1
<1>23. Spells(<<"del">>, "BACKSPACE")
  <2>1. Says("del", "BACKSPACE") BY <1>6, <1>8, <1>11
  <2> HIDE DEF Says
  <2> QED BY <1>7, <2>1
<1>24. Spells(<<"nak">>, "CTRL_U")
  <2>1. Says("nak", "CTRL_U") BY <1>6, <1>8, <1>11
  <2> HIDE DEF Says
  <2> QED BY <1>7, <2>1
<1>25. Spells(<<"etx">>, "CTRL_C")
  <2>1. Says("etx", "CTRL_C") BY <1>6, <1>8, <1>11
  <2> HIDE DEF Says
  <2> QED BY <1>7, <2>1
<1>26. Spells(<<" ">>, "SPACE")
  <2>1. Says(" ", "SPACE") BY <1>6, <1>8, <1>11
  <2> HIDE DEF Says
  <2> QED BY <1>7, <2>1
<1>27. Spells(<<"a">>, "a")
  <2>1. Says("a", "a") BY <1>6, <1>8, <1>11
  <2> HIDE DEF Says
  <2> QED BY <1>7, <2>1
<1>28. Spells(<<"q">>, "q")
  <2>1. Says("q", "q") BY <1>6, <1>8, <1>11
  <2> HIDE DEF Says
  <2> QED BY <1>7, <2>1
<1>29. Spells(<<"2">>, "two")
  <2>1. Says("2", "two") BY <1>6, <1>8, <1>11
  <2> HIDE DEF Says
  <2> QED BY <1>7, <2>1
<1>10. ASSUME NEW k \in W!Keys \ {"accent"} PROVE Spells(W!Bytes[k], k)
  <2>1. CASE k = "UP" BY <1>1, <1>2, <2>1, ThreeBytes, NamesAre
  <2>2. CASE k = "DOWN" BY <1>1, <1>2, <2>2, ThreeBytes, NamesAre
  <2>3. CASE k = "LEFT" BY <1>1, <1>2, <2>3, ThreeBytes, NamesAre
  <2>4. CASE k = "END" BY <1>1, <1>2, <2>4, ThreeBytes, NamesAre
  <2>5. CASE k = "PGUP" BY <1>1, <1>3, <2>5, FourBytes, NamesAre
  <2>6. CASE k = "PGDN" BY <1>1, <1>3, <2>6, FourBytes, NamesAre
  <2>7. CASE k = "CTRL_UP" BY <1>4, <2>7, SixBytes
  <2>8. CASE k = "ESC" BY <1>5, <1>21, <2>8
  <2>9. CASE k = "ENTER" BY <1>5, <1>22, <2>9
  <2>10. CASE k = "BACKSPACE" BY <1>5, <1>23, <2>10
  <2>11. CASE k = "CTRL_U" BY <1>5, <1>24, <2>11
  <2>12. CASE k = "CTRL_C" BY <1>5, <1>25, <2>12
  <2>13. CASE k = "SPACE" BY <1>5, <1>26, <2>13
  <2>14. CASE k = "a" BY <1>5, <1>27, <2>14
  <2>15. CASE k = "q" BY <1>5, <1>28, <2>15
  <2>16. CASE k = "two" BY <1>5, <1>29, <2>16
  <2> QED BY <1>1, <2>1, <2>2, <2>3, <2>4, <2>5, <2>6, <2>7, <2>8, <2>9, <2>10, <2>11, <2>12, <2>13, <2>14, <2>15, <2>16
<1> HIDE DEF Says
<1> QED BY <1>5, <1>9, <1>10

\* A name that says to leave comes of a byte of its own; and one that says
\* to go back, of a byte or the end of several.
LEMMA LeavingKeys ==
    ASSUME NEW t \in Seq(Alphabet), Len(t) >= 1
    PROVE  /\ W!Key(t) = "q" => t[1] = "q"
           /\ W!Key(t) = "CTRL_C" => t[1] = "etx"
           /\ W!Key(t) \in Words
<1>0. /\ \A b \in Alphabet : W!Single(b) \in {"ENTER", "BACKSPACE", "CTRL_U", "CTRL_C", "SPACE", "two", "none", b}
      /\ {"UP", "DOWN", "LEFT", "END", "PGUP", "PGDN", "ESC", "ENTER", "BACKSPACE", "CTRL_U", "CTRL_C", "SPACE", "two"}
             \subseteq W!Keys
  BY DEF W!Single, W!Keys, W!Bytes
<1>1. CASE Len(t) = 1
  <2>1. t[1] \in Alphabet BY <1>1, Elements
  <2>2. W!Single(t[1]) = "q" => t[1] = "q" BY <2>1 DEF W!Single, Alphabet
  <2>3. W!Single(t[1]) = "CTRL_C" => t[1] = "etx" BY <2>1 DEF W!Single, Alphabet
  <2>4. W!Single(t[1]) \in Words BY <1>0, <2>1 DEF Words
  <2>5. W!Key(t) = "ESC" \/ W!Key(t) = W!Single(t[1]) BY <1>1 DEF W!Key
  <2>6. "ESC" \in Words BY <1>0 DEF Words
  <2> QED BY <2>2, <2>3, <2>4, <2>5, <2>6
<1>2. CASE Len(t) # 1
  <2>1. \A u : W!Named(u) \in {"UP", "DOWN", "LEFT", "END", "PGUP", "PGDN", "none"}
    <3>1. ASSUME NEW u, u \in {<<y>> : y \in DOMAIN W!Names} PROVE W!Names[u[1]] \in {"UP", "DOWN", "LEFT", "END"}
      <4>1. PICK y \in DOMAIN W!Names : u = <<y>> BY <3>1
      <4>2. u[1] = y BY <4>1
      <4> QED BY <4>2 DEF W!Names
    <3>2. ASSUME NEW u PROVE W!Named(u) \in {"UP", "DOWN", "LEFT", "END", "PGUP", "PGDN", "none"}
      <4>1. CASE u \in {<<y>> : y \in DOMAIN W!Names} BY <3>1, <4>1 DEF W!Named
      <4>2. CASE u \notin {<<y>> : y \in DOMAIN W!Names} BY <4>2 DEF W!Named
      <4> QED BY <4>1, <4>2
    <3> QED BY <3>2
  <2>2. W!Key(t) = "ESC" \/ W!Key(t) = W!Named(SubSeq(t, 3, Len(t))) BY <1>2 DEF W!Key
  <2>3. {"UP", "DOWN", "LEFT", "END", "PGUP", "PGDN", "none", "ESC"} \subseteq Words BY <1>0 DEF Words
  <2> QED BY <2>1, <2>2, <2>3
<1> QED BY <1>1, <1>2

-----------------------------------------------------------------------------
\* The bytes of x stand in S from b to c, and its name in p from a to d.
Stands(S, p, x, b, c, a, d) ==
    /\ Chunk(x) /\ c = b + Len(x) /\ c <= Len(S)
    /\ \A i \in 1 .. Len(x) : S[b + i] = x[i]
    /\ IF W!Key(x) = "none" THEN d = a ELSE d = a + 1 /\ d <= Len(p) /\ p[d] = W!Key(x)

\* The bytes S are those of the keys of p that follow the first h, and of keys without a name.
SpellsOut(S, h, p, n, x, b, a) ==
    /\ b[1] = 0 /\ b[n + 1] = Len(S) /\ a[1] = h /\ a[n + 1] = Len(p)
    /\ \A j, k \in 1 .. n + 1 : j <= k => b[j] <= b[k]
    /\ \A j \in 1 .. n : Stands(S, p, x[j], b[j], b[j + 1], a[j], a[j + 1])

\* So they are, and m of them are taken: not yet all of a key, or an escape.
Outstanding(m, S, h, p) ==
    \E n \in Nat : \E x \in [1 .. n -> Seq(Alphabet)] : \E b, a \in [1 .. n + 1 -> Nat] :
        /\ SpellsOut(S, h, p, n, x, b, a)
        /\ m > 0 => n >= 1 /\ (m < Len(x[1]) \/ (m = 1 /\ x[1] = <<"esc">>))

\* Nothing is outstanding at first.
LEMMA NothingYet ==
    ASSUME NEW p \in Seq(Words)
    PROVE  Outstanding(0, <<>>, Len(p), p)
<1> DEFINE x == [j \in 1 .. 0 |-> <<>>]
           b == [j \in 1 .. 1 |-> 0]
           a == [j \in 1 .. 1 |-> Len(p)]
<1>1. x \in [1 .. 0 -> Seq(Alphabet)] /\ b \in [1 .. 0 + 1 -> Nat] /\ a \in [1 .. 0 + 1 -> Nat]
  <2>1. Len(p) \in Nat BY Elements
  <2>2. 1 .. 0 = {} /\ 0 + 1 = 1 OBVIOUS
  <2> QED BY <2>1, <2>2
<1>2. b[1] = 0 /\ a[1] = Len(p) OBVIOUS
<1> HIDE DEF x, b, a
<1>3. SpellsOut(<<>>, Len(p), p, 0, x, b, a)
  <2>1. Len(<<>>) = 0 /\ 0 + 1 = 1 OBVIOUS
  <2>2. \A j, k \in 1 .. 1 : b[j] <= b[k] BY <1>2
  <2>3. 1 .. 0 = {} OBVIOUS
  <2> QED BY <1>2, <2>1, <2>2, <2>3 DEF SpellsOut
<1>4. ~(0 > 0) /\ 0 \in Nat OBVIOUS
<1> QED BY <1>1, <1>3, <1>4 DEF Outstanding

\* What is placed stays so when both sequences grow.
LEMMA StandsStill ==
    ASSUME NEW S \in Seq(Alphabet), NEW p \in Seq(Words), NEW T \in Seq(Alphabet), NEW q \in Seq(Words),
           Len(S) <= Len(T), \A i \in 1 .. Len(S) : T[i] = S[i],
           Len(p) <= Len(q), \A i \in 1 .. Len(p) : q[i] = p[i],
           NEW x \in Seq(Alphabet), NEW b \in Nat, NEW c \in Nat, NEW a \in Nat, NEW d \in Nat,
           Stands(S, p, x, b, c, a, d)
    PROVE  Stands(T, q, x, b, c, a, d)
<1>1. Len(S) \in Nat /\ Len(T) \in Nat /\ Len(p) \in Nat /\ Len(q) \in Nat /\ Len(x) \in Nat BY Elements
<1>2. Chunk(x) /\ c = b + Len(x) /\ c <= Len(S) BY DEF Stands
<1>3. \A i \in 1 .. Len(x) : b + i \in 1 .. Len(S) BY <1>1, <1>2
<1>4. \A i \in 1 .. Len(x) : T[b + i] = x[i] BY <1>3 DEF Stands
<1>5. W!Key(x) = "none" => d = a BY DEF Stands
<1>6. W!Key(x) # "none" => d = a + 1 /\ d <= Len(p) /\ p[d] = W!Key(x) BY DEF Stands
<1>7. W!Key(x) # "none" => d <= Len(q) /\ q[d] = W!Key(x)
  <2> SUFFICES ASSUME W!Key(x) # "none" PROVE d <= Len(q) /\ q[d] = W!Key(x) OBVIOUS
  <2>1. d \in 1 .. Len(p) BY <1>1, <1>6
  <2> QED BY <1>1, <1>6, <2>1
<1>8. c <= Len(T) BY <1>1, <1>2
<1> QED BY <1>2, <1>4, <1>5, <1>6, <1>7, <1>8 DEF Stands

\* A chunk more at the end.
LEMMA OneMore ==
    ASSUME NEW S \in Seq(Alphabet), NEW p \in Seq(Words), NEW m \in Nat, NEW h \in Nat, Outstanding(m, S, h, p),
           NEW y \in Seq(Alphabet), Chunk(y), W!Key(y) \in Words, NEW q,
           q = (IF W!Key(y) = "none" THEN p ELSE Append(p, W!Key(y)))
    PROVE  q \in Seq(Words) /\ S \o y \in Seq(Alphabet) /\ Outstanding(m, S \o y, h, q)
<1> DEFINE T == S \o y
<1>1. /\ T \in Seq(Alphabet) /\ Len(T) = Len(S) + Len(y)
      /\ \A i \in 1 .. Len(S) : T[i] = S[i]
      /\ \A i \in 1 .. Len(y) : T[Len(S) + i] = y[i]
  BY JoinIs
<1>2. Len(S) \in Nat /\ Len(y) \in Nat /\ Len(p) \in Nat BY Elements
<1>3. q \in Seq(Words) /\ Len(q) \in Nat /\ Len(p) <= Len(q) /\ \A i \in 1 .. Len(p) : q[i] = p[i]
  BY <1>2, AppendIs, Elements
<1>4. IF W!Key(y) = "none" THEN Len(q) = Len(p) ELSE Len(q) = Len(p) + 1 /\ q[Len(q)] = W!Key(y)
  BY <1>2, AppendIs
<1> HIDE DEF T
<1>0. PICK n \in Nat : \E x \in [1 .. n -> Seq(Alphabet)] : \E b, a \in [1 .. n + 1 -> Nat] :
          /\ SpellsOut(S, h, p, n, x, b, a)
          /\ m > 0 => n >= 1 /\ (m < Len(x[1]) \/ (m = 1 /\ x[1] = <<"esc">>))
  BY DEF Outstanding
<1>5. PICK x \in [1 .. n -> Seq(Alphabet)], b \in [1 .. n + 1 -> Nat], a \in [1 .. n + 1 -> Nat] :
          /\ SpellsOut(S, h, p, n, x, b, a)
          /\ m > 0 => n >= 1 /\ (m < Len(x[1]) \/ (m = 1 /\ x[1] = <<"esc">>))
  BY <1>0
<1> DEFINE x2 == [j \in 1 .. n + 1 |-> IF j <= n THEN x[j] ELSE y]
           b2 == [j \in 1 .. n + 1 + 1 |-> IF j <= n + 1 THEN b[j] ELSE Len(T)]
           a2 == [j \in 1 .. n + 1 + 1 |-> IF j <= n + 1 THEN a[j] ELSE Len(q)]
<1>6. x2 \in [1 .. n + 1 -> Seq(Alphabet)]
  <2>1. \A j \in 1 .. n + 1 : j <= n => x[j] \in Seq(Alphabet) OBVIOUS
  <2> QED BY <2>1
<1>7. Len(T) \in Nat BY <1>1, <1>2
<1>8. b2 \in [1 .. n + 1 + 1 -> Nat] /\ a2 \in [1 .. n + 1 + 1 -> Nat]
  <2>1. \A j \in 1 .. n + 1 + 1 : j <= n + 1 => b[j] \in Nat /\ a[j] \in Nat OBVIOUS
  <2> QED BY <1>3, <1>7, <2>1
<1>9. /\ \A j \in 1 .. n : x2[j] = x[j]
      /\ \A j \in 1 .. n + 1 : b2[j] = b[j] /\ a2[j] = a[j]
      /\ x2[n + 1] = y /\ b2[n + 1 + 1] = Len(T) /\ a2[n + 1 + 1] = Len(q)
  OBVIOUS
<1> HIDE DEF x2, b2, a2
<1>10. b[1] = 0 /\ b[n + 1] = Len(S) /\ a[1] = h /\ a[n + 1] = Len(p) BY <1>5 DEF SpellsOut
<1>11. \A j, k \in 1 .. n + 1 : j <= k => b[j] <= b[k] BY <1>5 DEF SpellsOut
<1>12. \A j \in 1 .. n : Stands(S, p, x[j], b[j], b[j + 1], a[j], a[j + 1]) BY <1>5 DEF SpellsOut
<1>13. b2[1] = 0 /\ a2[1] = h BY <1>9, <1>10
<1>14. ASSUME NEW j \in 1 .. n + 1 + 1, NEW k \in 1 .. n + 1 + 1, j <= k PROVE b2[j] <= b2[k]
  <2>1. CASE k <= n + 1
    <3>1. j \in 1 .. n + 1 /\ k \in 1 .. n + 1 BY <1>14, <2>1
    <3>2. b[j] <= b[k] BY <1>11, <1>14, <3>1
    <3> QED BY <1>9, <3>1, <3>2
  <2>2. CASE k = n + 1 + 1 /\ j = k BY <1>7, <1>9, <2>2
  <2>3. CASE k = n + 1 + 1 /\ j <= n + 1
    <3>1. j \in 1 .. n + 1 /\ n + 1 \in 1 .. n + 1 BY <2>3
    <3>2. b[j] <= Len(S) BY <1>10, <1>11, <3>1
    <3>3. b[j] \in Nat BY <3>1
    <3>4. b[j] <= Len(T) BY <1>1, <1>2, <3>2, <3>3
    <3> QED BY <1>9, <2>3, <3>1, <3>4
  <2> QED BY <1>14, <2>1, <2>2, <2>3
<1>15. ASSUME NEW j \in 1 .. n + 1 PROVE Stands(T, q, x2[j], b2[j], b2[j + 1], a2[j], a2[j + 1])
  <2>1. CASE j <= n
    <3>1. j \in 1 .. n /\ j \in 1 .. n + 1 /\ j + 1 \in 1 .. n + 1 BY <2>1
    <3>2. Stands(S, p, x[j], b[j], b[j + 1], a[j], a[j + 1]) BY <1>12, <3>1
    <3>3. x[j] \in Seq(Alphabet) /\ b[j] \in Nat /\ b[j + 1] \in Nat /\ a[j] \in Nat /\ a[j + 1] \in Nat BY <3>1
    <3>4. Len(S) <= Len(T) BY <1>1, <1>2
    <3>6. T \in Seq(Alphabet) /\ \A i \in 1 .. Len(S) : T[i] = S[i] BY <1>1
    <3>7. q \in Seq(Words) /\ Len(p) <= Len(q) /\ \A i \in 1 .. Len(p) : q[i] = p[i] BY <1>3
    <3> DEFINE xj == x[j] bj == b[j] bk == b[j + 1] aj == a[j] ak == a[j + 1]
    <3>8. /\ xj \in Seq(Alphabet) /\ bj \in Nat /\ bk \in Nat /\ aj \in Nat /\ ak \in Nat
          /\ Stands(S, p, xj, bj, bk, aj, ak)
      BY <3>2, <3>3
    <3> HIDE DEF xj, bj, bk, aj, ak
    <3>9. Stands(T, q, xj, bj, bk, aj, ak) BY <3>4, <3>6, <3>7, <3>8, StandsStill
    <3>5. Stands(T, q, x[j], b[j], b[j + 1], a[j], a[j + 1]) BY <3>9 DEF xj, bj, bk, aj, ak
    <3> QED BY <1>9, <3>1, <3>5
  <2>2. CASE j = n + 1
    <3>1. Stands(T, q, y, Len(S), Len(T), Len(p), Len(q))
      <4>1. Len(T) <= Len(T) BY <1>7
      <4>2. W!Key(y) # "none" => Len(q) <= Len(q) BY <1>3
      <4> QED BY <1>1, <1>4, <4>1, <4>2 DEF Stands
    <3>2. n + 1 \in 1 .. n + 1 OBVIOUS
    <3>3. x2[j] = y /\ b2[j] = Len(S) /\ b2[j + 1] = Len(T) /\ a2[j] = Len(p) /\ a2[j + 1] = Len(q)
      BY <1>9, <1>10, <2>2, <3>2
    <3> QED BY <3>1, <3>3
  <2> QED BY <2>1, <2>2
<1>16. SpellsOut(T, h, q, n + 1, x2, b2, a2) BY <1>9, <1>13, <1>14, <1>15 DEF SpellsOut
<1>17. m > 0 => n + 1 >= 1 /\ (m < Len(x2[1]) \/ (m = 1 /\ x2[1] = <<"esc">>))
  <2> SUFFICES ASSUME m > 0 PROVE n + 1 >= 1 /\ (m < Len(x2[1]) \/ (m = 1 /\ x2[1] = <<"esc">>)) OBVIOUS
  <2>1. 1 \in 1 .. n BY <1>5
  <2>2. x2[1] = x[1] BY <1>9, <2>1
  <2> QED BY <1>5, <2>2
<1>18. n + 1 \in Nat OBVIOUS
<1>19. Outstanding(m, T, h, q) BY <1>6, <1>8, <1>16, <1>17, <1>18 DEF Outstanding
<1> QED BY <1>1, <1>3, <1>19 DEF T

\* What is placed after a first chunk is so in what follows it.
LEMMA StandsEarlier ==
    ASSUME NEW S \in Seq(Alphabet), NEW p \in Seq(Words), NEW T \in Seq(Alphabet), NEW l \in Nat,
           Len(T) = Len(S) - l, \A i \in 1 .. Len(T) : T[i] = S[i + l],
           NEW x \in Seq(Alphabet), NEW b \in Nat, NEW c \in Nat, NEW a \in Nat, NEW d \in Nat,
           b >= l, Stands(S, p, x, b, c, a, d)
    PROVE  Stands(T, p, x, b - l, c - l, a, d)
<1>1. Len(S) \in Nat /\ Len(T) \in Nat /\ Len(x) \in Nat BY Elements
<1>2. Chunk(x) /\ c = b + Len(x) /\ c <= Len(S) BY DEF Stands
<1>3. c - l = (b - l) + Len(x) /\ c - l <= Len(T) BY <1>1, <1>2
<1>4. ASSUME NEW i \in 1 .. Len(x) PROVE T[(b - l) + i] = x[i]
  <2>1. (b - l) + i \in 1 .. Len(T) /\ ((b - l) + i) + l = b + i BY <1>1, <1>2
  <2>2. T[(b - l) + i] = S[b + i] BY <2>1
  <2>3. S[b + i] = x[i] BY DEF Stands
  <2> QED BY <2>2, <2>3
<1>5. IF W!Key(x) = "none" THEN d = a ELSE d = a + 1 /\ d <= Len(p) /\ p[d] = W!Key(x) BY DEF Stands
<1> QED BY <1>2, <1>3, <1>4, <1>5 DEF Stands

\* Differences.
LEMMA Less ==
    ASSUME NEW l \in Nat, NEW b \in Nat, NEW c \in Nat
    PROVE  (b >= l => b - l \in Nat) /\ (b <= c => b - l <= c - l) /\ (b = l => b - l = 0)
OBVIOUS

\* A chunk less at the front.
LEMMA OneLess ==
    ASSUME NEW S \in Seq(Alphabet), NEW p \in Seq(Words), NEW h \in Nat,
           NEW n \in Nat, n >= 1, NEW x \in [1 .. n -> Seq(Alphabet)],
           NEW b \in [1 .. n + 1 -> Nat], NEW a \in [1 .. n + 1 -> Nat], SpellsOut(S, h, p, n, x, b, a),
           NEW T \in Seq(Alphabet), Len(T) = Len(S) - Len(x[1]), \A i \in 1 .. Len(T) : T[i] = S[i + Len(x[1])]
    PROVE  Outstanding(0, T, a[2], p)
<1> DEFINE l == Len(x[1])
           k == n - 1
           x2 == [j \in 1 .. k |-> x[j + 1]]
           b2 == [j \in 1 .. k + 1 |-> b[j + 1] - l]
           a2 == [j \in 1 .. k + 1 |-> a[j + 1]]
<1>1. l \in Nat /\ Len(S) \in Nat /\ Len(T) \in Nat /\ k \in Nat /\ n = k + 1
  <2>1. x[1] \in Seq(Alphabet) OBVIOUS
  <2> QED BY <2>1, Elements
<1> HIDE DEF l, k
<1>2. b[1] = 0 /\ b[n + 1] = Len(S) /\ a[1] = h /\ a[n + 1] = Len(p) BY DEF SpellsOut
<1>3. \A i, j \in 1 .. n + 1 : i <= j => b[i] <= b[j] BY DEF SpellsOut
<1>4. \A j \in 1 .. n : Stands(S, p, x[j], b[j], b[j + 1], a[j], a[j + 1]) BY DEF SpellsOut
<1>5. b[2] = l
  <2>1. 1 \in 1 .. n /\ 1 + 1 = 2 OBVIOUS
  <2>2. Stands(S, p, x[1], b[1], b[2], a[1], a[2]) BY <1>4, <2>1
  <2>3. b[2] = 0 + Len(x[1]) BY <1>2, <2>2 DEF Stands
  <2> QED BY <1>1, <2>3 DEF l
<1>6. \A j \in 2 .. n + 1 : b[j] >= l /\ b[j] \in Nat
  <2> SUFFICES ASSUME NEW j \in 2 .. n + 1 PROVE b[j] >= l /\ b[j] \in Nat OBVIOUS
  <2>1. 2 \in 1 .. n + 1 /\ j \in 1 .. n + 1 /\ 2 <= j OBVIOUS
  <2>2. b[2] <= b[j] BY <1>3, <2>1
  <2>3. b[j] \in Nat BY <2>1
  <2> QED BY <1>1, <1>5, <2>2, <2>3
<1>7. x2 \in [1 .. k -> Seq(Alphabet)]
  <2>1. \A j \in 1 .. k : j + 1 \in 1 .. n BY <1>1
  <2> QED BY <2>1
<1>8. b2 \in [1 .. k + 1 -> Nat] /\ a2 \in [1 .. k + 1 -> Nat]
  <2>1. \A j \in 1 .. k + 1 : j + 1 \in 2 .. n + 1 /\ j + 1 \in 1 .. n + 1 BY <1>1
  <2>2. ASSUME NEW j \in 1 .. k + 1 PROVE b[j + 1] - l \in Nat
    <3>1. b[j + 1] >= l /\ b[j + 1] \in Nat BY <1>6, <2>1
    <3> QED BY <1>1, <3>1, Less
  <2> QED BY <2>1, <2>2
<1>9. /\ \A j \in 1 .. k : x2[j] = x[j + 1]
      /\ \A j \in 1 .. k + 1 : b2[j] = b[j + 1] - l /\ a2[j] = a[j + 1]
  OBVIOUS
<1> HIDE DEF x2, b2, a2
<1>10. b2[1] = 0 /\ a2[1] = a[2] /\ b2[k + 1] = Len(T) /\ a2[k + 1] = Len(p)
  <2>1. 1 \in 1 .. k + 1 /\ k + 1 \in 1 .. k + 1 /\ 1 + 1 = 2 /\ k + 1 + 1 = n + 1 BY <1>1
  <2>4. b2[1] = b[1 + 1] - l /\ a2[1] = a[1 + 1] BY <1>9, <2>1
  <2>5. b2[k + 1] = b[k + 1 + 1] - l /\ a2[k + 1] = a[k + 1 + 1] BY <1>9, <2>1
  <2>2. b2[1] = b[2] - l /\ a2[1] = a[2] /\ b2[k + 1] = b[n + 1] - l /\ a2[k + 1] = a[n + 1] BY <2>1, <2>4, <2>5
  <2>3. Len(T) = Len(S) - l BY DEF l
  <2>6. b2[1] = 0 BY <1>1, <1>5, <2>2, Less
  <2>7. b2[k + 1] = Len(T) BY <1>2, <2>2, <2>3
  <2> QED BY <1>2, <2>2, <2>6, <2>7
<1>11. ASSUME NEW i \in 1 .. k + 1, NEW j \in 1 .. k + 1, i <= j PROVE b2[i] <= b2[j]
  <2>1. i + 1 \in 1 .. n + 1 /\ j + 1 \in 1 .. n + 1 /\ i + 1 <= j + 1 BY <1>1, <1>11
  <2>2. b[i + 1] <= b[j + 1] /\ b[i + 1] \in Nat /\ b[j + 1] \in Nat BY <1>3, <2>1
  <2>3. b2[i] = b[i + 1] - l /\ b2[j] = b[j + 1] - l BY <1>9
  <2>4. b[i + 1] - l <= b[j + 1] - l BY <1>1, <2>2, Less
  <2> QED BY <2>3, <2>4
<1>12. ASSUME NEW j \in 1 .. k PROVE Stands(T, p, x2[j], b2[j], b2[j + 1], a2[j], a2[j + 1])
  <2>1. j + 1 \in 1 .. n /\ j + 1 \in 2 .. n + 1 /\ j + 1 \in 1 .. n + 1 /\ j + 1 + 1 \in 1 .. n + 1
        /\ j \in 1 .. k + 1 /\ j + 1 \in 1 .. k + 1
    BY <1>1
  <2>2. Stands(S, p, x[j + 1], b[j + 1], b[j + 1 + 1], a[j + 1], a[j + 1 + 1]) BY <1>4, <2>1
  <2>3. /\ x[j + 1] \in Seq(Alphabet) /\ b[j + 1] \in Nat /\ b[j + 1 + 1] \in Nat
        /\ a[j + 1] \in Nat /\ a[j + 1 + 1] \in Nat /\ b[j + 1] >= l
    BY <1>6, <2>1
  <2>4. Len(T) = Len(S) - l /\ \A i \in 1 .. Len(T) : T[i] = S[i + l] BY DEF l
  <2>5. Stands(T, p, x[j + 1], b[j + 1] - l, b[j + 1 + 1] - l, a[j + 1], a[j + 1 + 1])
    BY <1>1, <2>2, <2>3, <2>4, StandsEarlier
  <2>6. /\ x2[j] = x[j + 1] /\ b2[j] = b[j + 1] - l /\ b2[j + 1] = b[j + 1 + 1] - l
        /\ a2[j] = a[j + 1] /\ a2[j + 1] = a[j + 1 + 1]
    BY <1>9, <2>1
  <2> QED BY <2>5, <2>6
<1>13. SpellsOut(T, a[2], p, k, x2, b2, a2) BY <1>10, <1>11, <1>12 DEF SpellsOut
<1>14. ~(0 > 0) OBVIOUS
<1> QED BY <1>1, <1>7, <1>8, <1>13, <1>14 DEF Outstanding

\* A chunk that starts the bytes S and is the next of p, with what follows it.
First(S, h, p, x) ==
    /\ Chunk(x) /\ Len(x) <= Len(S) /\ \A i \in 1 .. Len(x) : S[i] = x[i]
    /\ W!Key(x) # "none" => h + 1 <= Len(p) /\ p[h + 1] = W!Key(x)
    /\ Len(S) > Len(x) => S[Len(x) + 1] \notin {"[", "O"}
    /\ \A T \in Seq(Alphabet) :
          Len(T) = Len(S) - Len(x) /\ (\A i \in 1 .. Len(T) : T[i] = S[i + Len(x)])
             => Outstanding(0, T, IF W!Key(x) = "none" THEN h ELSE h + 1, p)
    /\ \A k \in Nat : k < Len(x) \/ (k = 1 /\ x = <<"esc">>) => Outstanding(k, S, h, p)

\* Where something is outstanding there is such a chunk.
LEMMA FirstIs ==
    ASSUME NEW S \in Seq(Alphabet), NEW p \in Seq(Words), NEW m \in Nat, NEW h \in Nat, Outstanding(m, S, h, p), Len(S) >= 1
    PROVE  \E y \in Seq(Alphabet) : First(S, h, p, y) /\ (m > 0 => m < Len(y) \/ (m = 1 /\ y = <<"esc">>))
<1>0. PICK n \in Nat : \E x \in [1 .. n -> Seq(Alphabet)] : \E b, a \in [1 .. n + 1 -> Nat] :
          /\ SpellsOut(S, h, p, n, x, b, a)
          /\ m > 0 => n >= 1 /\ (m < Len(x[1]) \/ (m = 1 /\ x[1] = <<"esc">>))
  BY DEF Outstanding
<1>1. PICK x \in [1 .. n -> Seq(Alphabet)], b \in [1 .. n + 1 -> Nat], a \in [1 .. n + 1 -> Nat] :
          /\ SpellsOut(S, h, p, n, x, b, a)
          /\ m > 0 => n >= 1 /\ (m < Len(x[1]) \/ (m = 1 /\ x[1] = <<"esc">>))
  BY <1>0
<1>2. b[1] = 0 /\ b[n + 1] = Len(S) /\ a[1] = h BY <1>1 DEF SpellsOut
<1>3. n >= 1
  <2>1. n # 0
    <3> SUFFICES ASSUME n = 0 PROVE FALSE OBVIOUS
    <3>1. n + 1 = 1 OBVIOUS
    <3>2. Len(S) = 0 BY <1>2, <3>1
    <3> QED BY <3>2
  <2> QED BY <2>1
<1> DEFINE y == x[1]
<1>4. y \in Seq(Alphabet) /\ Len(y) \in Nat /\ Len(S) \in Nat
  <2>1. y \in Seq(Alphabet) BY <1>3
  <2> QED BY <2>1, Elements
<1>5. Stands(S, p, y, 0, b[2], h, a[2])
  <2>1. 1 \in 1 .. n /\ 1 + 1 = 2 BY <1>3
  <2>2. Stands(S, p, x[1], b[1], b[1 + 1], a[1], a[1 + 1]) BY <1>1, <2>1 DEF SpellsOut
  <2> QED BY <1>2, <2>1, <2>2
<1>6. Chunk(y) /\ b[2] = Len(y) /\ Len(y) <= Len(S) BY <1>4, <1>5 DEF Stands
<1>7. \A i \in 1 .. Len(y) : S[i] = y[i]
  <2>1. \A i \in 1 .. Len(y) : S[0 + i] = y[i] BY <1>5 DEF Stands
  <2>2. \A i \in 1 .. Len(y) : 0 + i = i BY <1>4
  <2> QED BY <2>1, <2>2
<1>8. a[2] = (IF W!Key(y) = "none" THEN h ELSE h + 1) /\ (W!Key(y) # "none" => h + 1 <= Len(p) /\ p[h + 1] = W!Key(y))
  BY <1>5 DEF Stands
<1>9. Len(S) > Len(y) => S[Len(y) + 1] \notin {"[", "O"}
  <2> SUFFICES ASSUME Len(S) > Len(y) PROVE S[Len(y) + 1] \notin {"[", "O"} OBVIOUS
  <2>1. n >= 2
    <3>1. n # 1
      <4> SUFFICES ASSUME n = 1 PROVE FALSE OBVIOUS
      <4>1. n + 1 = 2 OBVIOUS
      <4>2. Len(S) = Len(y) BY <1>2, <1>6, <4>1
      <4> QED BY <1>4, <4>2
    <3> QED BY <1>3, <3>1
  <2>2. 2 \in 1 .. n BY <2>1
  <2>3. Stands(S, p, x[2], b[2], b[2 + 1], a[2], a[2 + 1]) BY <1>1, <2>2 DEF SpellsOut
  <2>4. Chunk(x[2]) /\ \A i \in 1 .. Len(x[2]) : S[b[2] + i] = x[2][i] BY <2>3 DEF Stands
  <2>5. Len(x[2]) >= 1 /\ x[2][1] \notin {"[", "O"} /\ Len(x[2]) \in Nat
    <3>1. x[2] \in Seq(Alphabet) BY <2>2
    <3> QED BY <2>4, <3>1, Elements DEF Chunk
  <2>6. S[b[2] + 1] = x[2][1]
    <3>1. 1 \in 1 .. Len(x[2]) BY <2>5
    <3> QED BY <2>4, <3>1
  <2> QED BY <1>6, <2>5, <2>6
<1>10. ASSUME NEW T \in Seq(Alphabet), Len(T) = Len(S) - Len(y), \A i \in 1 .. Len(T) : T[i] = S[i + Len(y)]
       PROVE  Outstanding(0, T, IF W!Key(y) = "none" THEN h ELSE h + 1, p)
  <2>1. Outstanding(0, T, a[2], p) BY <1>1, <1>3, <1>10, OneLess
  <2> QED BY <1>8, <2>1
<1>11. ASSUME NEW k \in Nat, k < Len(y) \/ (k = 1 /\ y = <<"esc">>) PROVE Outstanding(k, S, h, p)
  BY <1>1, <1>3, <1>11 DEF Outstanding
<1> HIDE DEF y
<1>12. First(S, h, p, y) BY <1>6, <1>7, <1>8, <1>9, <1>10, <1>11 DEF First
<1>13. m > 0 => m < Len(y) \/ (m = 1 /\ y = <<"esc">>) BY <1>1 DEF y
<1> QED BY <1>4, <1>12, <1>13

-----------------------------------------------------------------------------
Stream == (taken \o wire) \o rest
In(q) == {q[i] : i \in 1 .. Len(q)}
PressedKeys == In(pressed)

\* The bytes of s that leave a screen are those of keys in P.
Leaving(s, P) == \A i \in 1 .. Len(s) : (s[i] = "q" => "q" \in P) /\ (s[i] = "etx" => "CTRL_C" \in P)

Streams == Seq(Alphabet)

\* So bytes are joined.
LEMMA BytesJoin == \A u, v, w \in Streams : (u \o v) \o w = u \o (v \o w)
<1> SUFFICES ASSUME NEW u \in Seq(Alphabet), NEW v \in Seq(Alphabet), NEW w \in Seq(Alphabet)
             PROVE  (u \o v) \o w = u \o (v \o w)
  BY DEF Streams
<1> QED BY JoinAssociates

\* The same bytes are the same sequence.
LEMMA SameBytes ==
    ASSUME NEW u \in Seq(Alphabet), NEW v \in Seq(Alphabet), NEW l \in Nat, Len(u) = l, Len(v) = l,
           \A i \in 1 .. l : u[i] = v[i]
    PROVE  u = v
BY SameSequence

\* What has been heard of the keys, and what will be.
Listens ==
    /\ taken \in Seq(Alphabet) /\ wire \in Seq(Alphabet) /\ rest \in Seq(Alphabet)
    /\ pressed \in Seq(Words) /\ heard \in Seq(Words)
    /\ Leaving(taken, PressedKeys) /\ Leaving(wire, PressedKeys) /\ Leaving(rest, PressedKeys)
    /\ status = "quit" /\ ~typing => "q" \in PressedKeys \/ "CTRL_C" \in PressedKeys
    /\ status = "back" /\ ~typing /\ ~cut => "ESC" \in PressedKeys \/ "LEFT" \in PressedKeys
    /\ ~cut => Len(heard) <= Len(pressed) /\ \A i \in 1 .. Len(heard) : heard[i] = pressed[i]
    /\ ~cut /\ status = "asking" => Outstanding(Len(taken), Stream, Len(heard), pressed)

\* Bytes that are joined leave as their parts do.
LEMMA LeavingParts ==
    ASSUME NEW P, NEW s \in Seq(Alphabet), NEW t \in Seq(Alphabet), Leaving(s, P), Leaving(t, P)
    PROVE  Leaving(s \o t, P)
<1>1. /\ Len(s \o t) = Len(s) + Len(t)
      /\ \A i \in 1 .. Len(s) : (s \o t)[i] = s[i]
      /\ \A i \in 1 .. Len(t) : (s \o t)[Len(s) + i] = t[i]
  BY JoinIs
<1>2. Len(s) \in Nat /\ Len(t) \in Nat BY Elements
<1> SUFFICES ASSUME NEW i \in 1 .. Len(s \o t)
             PROVE  /\ (s \o t)[i] = "q" => "q" \in P
                    /\ (s \o t)[i] = "etx" => "CTRL_C" \in P
  BY DEF Leaving
<1>3. CASE i <= Len(s)
  <2>1. i \in 1 .. Len(s) BY <1>1, <1>2, <1>3
  <2> QED BY <1>1, <2>1 DEF Leaving
<1>4. CASE i > Len(s)
  <2>1. i - Len(s) \in 1 .. Len(t) /\ Len(s) + (i - Len(s)) = i BY <1>1, <1>2, <1>4
  <2>2. (s \o t)[i] = t[i - Len(s)] BY <1>1, <2>1
  <2> QED BY <2>1, <2>2 DEF Leaving
<1> QED BY <1>1, <1>2, <1>3, <1>4

\* A part of bytes leaves as the whole does.
LEMMA LeavingPart ==
    ASSUME NEW P, NEW s \in Seq(Alphabet), Leaving(s, P), NEW m \in 1 .. Len(s) + 1, NEW n \in m - 1 .. Len(s)
    PROVE  Leaving(SubSeq(s, m, n), P)
<1>1. Len(SubSeq(s, m, n)) = n - m + 1 /\ \A i \in 1 .. n - m + 1 : SubSeq(s, m, n)[i] = s[m + i - 1] BY PartIs
<1>2. Len(s) \in Nat BY Elements
<1> SUFFICES ASSUME NEW i \in 1 .. n - m + 1
             PROVE  (s[m + i - 1] = "q" => "q" \in P) /\ (s[m + i - 1] = "etx" => "CTRL_C" \in P)
  BY <1>1 DEF Leaving
<1>3. m + i - 1 \in 1 .. Len(s) BY <1>2
<1> QED BY <1>3 DEF Leaving

\* A screen that is not yet looked at.
LEMMA ListensAtFirst ==
    ASSUME W!Init
    PROVE  Listens
<1>1. /\ taken = <<>> /\ wire = <<>> /\ rest = <<>> /\ pressed = <<>> /\ heard = <<>> /\ status = "asking" BY DEF W!Init
<1>2. <<>> \in Seq(Alphabet) /\ <<>> \in Seq(Words) /\ Len(<<>>) = 0 OBVIOUS
<1>3. Stream = <<>>
  <2>1. <<>> \o <<>> = <<>> BY <1>2, NothingJoined
  <2> QED BY <1>1, <2>1 DEF Stream
<1>4. Outstanding(0, <<>>, Len(pressed), pressed)
  <2>1. pressed \in Seq(Words) BY <1>1, <1>2
  <2> QED BY <2>1, NothingYet
<1>5. Leaving(<<>>, PressedKeys) BY <1>2 DEF Leaving
<1>6. Outstanding(Len(taken), Stream, Len(heard), pressed) BY <1>1, <1>2, <1>3, <1>4
<1>7. Len(heard) <= Len(pressed) /\ \A i \in 1 .. Len(heard) : heard[i] = pressed[i] BY <1>1, <1>2
<1> QED BY <1>1, <1>2, <1>5, <1>6, <1>7 DEF Listens

\* Nothing of the keys changes, or a prompt is answered.
LEMMA ListensStill ==
    ASSUME Listens, UNCHANGED <<taken, wire, rest, pressed, heard, cut, typing>>,
           UNCHANGED status \/ (typing /\ status = "asking")
    PROVE  Listens'
<1>1. Stream' = Stream /\ PressedKeys' = PressedKeys BY DEF Stream, PressedKeys
<1>2. CASE UNCHANGED status BY <1>1, <1>2, Zenon DEF Listens
<1>3. CASE typing /\ status = "asking"
  <2>1. Outstanding(Len(taken), Stream, Len(heard), pressed) \/ cut BY <1>3, Zenon DEF Listens
  <2> QED BY <1>1, <1>3, <2>1, Zenon DEF Listens
<1> QED BY <1>2, <1>3

\* The rest of a key arrives.
LEMMA ListensOnArrival ==
    ASSUME Listens, W!Arrive
    PROVE  Listens'
<1>1. /\ taken \in Seq(Alphabet) /\ wire \in Seq(Alphabet) /\ rest \in Seq(Alphabet)
      /\ wire' = wire \o rest /\ rest' = <<>>
      /\ UNCHANGED <<taken, pressed, heard, cut, typing, status>>
  BY DEF Listens, W!Arrive
<1>2. wire' \in Seq(Alphabet) /\ rest' \in Seq(Alphabet) BY <1>1, JoinIs
<1>3. PressedKeys' = PressedKeys BY <1>1 DEF PressedKeys
<1>4. Stream' = Stream
  <2>1. (taken \o wire) \o rest = taken \o (wire \o rest)
    <3>1. taken \in Streams /\ wire \in Streams /\ rest \in Streams BY <1>1 DEF Streams
    <3> QED BY ONLY <3>1, BytesJoin
  <2>2. taken \o wire' \in Seq(Alphabet) BY <1>1, <1>2, JoinIs
  <2>3. (taken \o wire') \o <<>> = taken \o wire' BY <2>2, NothingJoined
  <2> QED BY <1>1, <2>1, <2>3 DEF Stream
<1>5. Leaving(wire', PressedKeys)
  <2>1. Leaving(wire, PressedKeys) /\ Leaving(rest, PressedKeys) BY DEF Listens
  <2> QED BY <1>1, <2>1, LeavingParts
<1>6. Leaving(rest', PressedKeys)
  <2>1. Len(<<>>) = 0 OBVIOUS
  <2> QED BY <1>1, <2>1 DEF Leaving
<1> QED BY <1>1, <1>2, <1>3, <1>4, <1>5, <1>6, Zenon DEF Listens

\* The bytes y bring p to q.
Brings(y, p, q) ==
    \A S \in Seq(Alphabet), m, h \in Nat : Outstanding(m, S, h, p) => Outstanding(m, S \o y, h, q)

\* The bytes of a key that is pressed.
LEMMA KeysAreChunks ==
    ASSUME NEW k \in W!Keys, NEW p \in Seq(Words), NEW q,
           q = (IF k \in W!Understood THEN Append(p, k) ELSE p)
    PROVE  /\ W!Bytes[k] \in Seq(Alphabet) /\ Len(W!Bytes[k]) >= 1
           /\ q \in Seq(Words) /\ Len(p) <= Len(q) /\ \A i \in 1 .. Len(p) : q[i] = p[i]
           /\ Leaving(W!Bytes[k], In(q)) /\ Brings(W!Bytes[k], p, q)
<1> DEFINE y == W!Bytes[k]
<1>1. k \in Words /\ Len(p) \in Nat /\ "none" \in Words BY Elements DEF Words
<1>2. /\ q \in Seq(Words) /\ Len(p) <= Len(q) /\ \A i \in 1 .. Len(p) : q[i] = p[i]
      /\ k \in W!Understood => Len(q) = Len(p) + 1 /\ q[Len(p) + 1] = k
  BY <1>1, AppendIs, Elements
<1>3. CASE k # "accent"
  <2>1. Spells(y, k) BY <1>3, KeysSpell
  <2>2. y \in Seq(Alphabet) /\ Len(y) >= 1 /\ Chunk(y) BY <2>1 DEF Spells, Chunk
  <2>3. k # "none" BY DEF W!Keys, W!Bytes
  <2>4. W!Key(y) \in Words /\ q = (IF W!Key(y) = "none" THEN p ELSE Append(p, W!Key(y)))
    <3>1. CASE k \in W!Understood BY <1>1, <2>1, <2>3, <3>1 DEF Spells
    <3>2. CASE k \notin W!Understood BY <1>1, <2>1, <3>2 DEF Spells
    <3> QED BY <3>1, <3>2
  <2>5. ASSUME NEW S \in Seq(Alphabet), NEW m \in Nat, NEW h \in Nat, Outstanding(m, S, h, p)
        PROVE  Outstanding(m, S \o y, h, q)
    BY <2>2, <2>4, <2>5, OneMore
  <2>6. Leaving(y, In(q))
    <3> SUFFICES ASSUME NEW j \in 1 .. Len(y)
                 PROVE  /\ y[j] = "q" => "q" \in In(q)
                        /\ y[j] = "etx" => "CTRL_C" \in In(q)
      BY DEF Leaving
    <3>1. (y[j] = "q" => k = "q") /\ (y[j] = "etx" => k = "CTRL_C") BY <2>1 DEF Spells
    <3>2. {"q", "CTRL_C"} \subseteq W!Understood BY DEF W!Understood, W!Keys, W!Bytes
    <3>3. ASSUME k \in W!Understood PROVE k \in In(q)
      <4>1. Len(p) + 1 \in 1 .. Len(q) BY <1>1, <1>2, <3>3
      <4> QED BY <1>2, <3>3, <4>1 DEF In
    <3> QED BY <3>1, <3>2, <3>3
  <2>7. Brings(y, p, q) BY <2>5 DEF Brings
  <2> QED BY <1>2, <2>2, <2>6, <2>7
<1>4. CASE k = "accent"
  <2> DEFINE c == <<"c3">> d == <<"a9">>
  <2>1. y = <<"c3", "a9">> /\ Chunk(c) /\ Chunk(d) /\ W!Key(c) = "none" /\ W!Key(d) = "none" BY <1>4, KeysSpell
  <2>2. q = p BY <1>4 DEF W!Understood
  <2>3. c \in Seq(Alphabet) /\ d \in Seq(Alphabet) BY <2>1 DEF Chunk
  <2>4. y \in Seq(Alphabet) /\ Len(y) = 2 /\ y[1] = "c3" /\ y[2] = "a9"
    <3>1. "c3" \in Alphabet /\ "a9" \in Alphabet BY DEF Alphabet
    <3> QED BY <2>1, <3>1
  <2>5. c \o d = y
    <3>1. Len(c) = 1 /\ Len(d) = 1 /\ c[1] = "c3" /\ d[1] = "a9" OBVIOUS
    <3> HIDE DEF c, d, y
    <3>2. /\ c \o d \in Seq(Alphabet) /\ Len(c \o d) = Len(c) + Len(d)
          /\ \A i \in 1 .. Len(c) : (c \o d)[i] = c[i]
          /\ \A i \in 1 .. Len(d) : (c \o d)[Len(c) + i] = d[i]
      BY <2>3, JoinIs
    <3>3. Len(c \o d) = 2 BY <3>1, <3>2
    <3>4. (c \o d)[1] = "c3"
      <4>1. 1 \in 1 .. Len(c) BY <3>1
      <4> QED BY <3>1, <3>2, <4>1
    <3>5. (c \o d)[2] = "a9"
      <4>1. 1 \in 1 .. Len(d) /\ Len(c) + 1 = 2 BY <3>1
      <4>2. (c \o d)[Len(c) + 1] = d[1] BY <3>2, <4>1
      <4> QED BY <3>1, <4>1, <4>2
    <3>6. \A i \in 1 .. 2 : i = 1 \/ i = 2 OBVIOUS
    <3>7. \A i \in 1 .. 2 : (c \o d)[i] = y[i] BY <2>4, <3>4, <3>5, <3>6
    <3>8. 2 \in Nat /\ Len(y) = 2 /\ y \in Seq(Alphabet) /\ c \o d \in Seq(Alphabet) BY <2>4, <3>2
    <3> QED BY <3>3, <3>7, <3>8, SameBytes
  <2> HIDE DEF c, d
  <2>6. ASSUME NEW S \in Seq(Alphabet), NEW m \in Nat, NEW h \in Nat, Outstanding(m, S, h, p)
        PROVE  Outstanding(m, S \o y, h, q)
    <3>1. S \o c \in Seq(Alphabet) /\ Outstanding(m, S \o c, h, p)
      <4>1. p = (IF W!Key(c) = "none" THEN p ELSE Append(p, W!Key(c))) /\ W!Key(c) \in Words BY <1>1, <2>1
      <4> QED BY <2>1, <2>3, <2>6, <4>1, OneMore
    <3>2. Outstanding(m, (S \o c) \o d, h, p)
      <4>1. p = (IF W!Key(d) = "none" THEN p ELSE Append(p, W!Key(d))) /\ W!Key(d) \in Words BY <1>1, <2>1
      <4> QED BY <2>1, <2>3, <3>1, <4>1, OneMore
    <3>5. S \in Streams /\ c \in Streams /\ d \in Streams BY <2>3 DEF Streams
    <3>4. (S \o c) \o d = S \o (c \o d) BY ONLY <3>5, BytesJoin
    <3>3. (S \o c) \o d = S \o y BY <2>5, <3>4
    <3> QED BY <2>2, <3>2, <3>3
  <2>7. Leaving(y, In(q))
    <3>1. \A i \in 1 .. 2 : i = 1 \/ i = 2 OBVIOUS
    <3> QED BY <2>4, <3>1 DEF Leaving
  <2>8. Len(y) >= 1 BY <2>4
  <2>9. Brings(y, p, q) BY <2>6 DEF Brings
  <2> QED BY <1>2, <2>4, <2>7, <2>8, <2>9
<1> QED BY <1>3, <1>4

\* A key is pressed.
LEMMA ListensOnPress ==
    ASSUME Listens, W!Press
    PROVE  Listens'
<1>1. /\ taken \in Seq(Alphabet) /\ wire \in Seq(Alphabet) /\ heard \in Seq(Words) /\ pressed \in Seq(Words)
      /\ rest = <<>> /\ status = "asking"
      /\ UNCHANGED <<taken, heard, cut, typing, status>>
  BY DEF Listens, W!Press
<1>0. PICK k \in W!Keys : \E n \in {1, Len(W!Bytes[k]) - 1, Len(W!Bytes[k])} \ {0} :
          /\ pressed' = IF k \in W!Understood THEN Append(pressed, k) ELSE pressed
          /\ wire' = wire \o SubSeq(W!Bytes[k], 1, n)
          /\ rest' = SubSeq(W!Bytes[k], n + 1, Len(W!Bytes[k]))
  BY DEF W!Press
<1>2. PICK n \in {1, Len(W!Bytes[k]) - 1, Len(W!Bytes[k])} \ {0} :
          /\ pressed' = IF k \in W!Understood THEN Append(pressed, k) ELSE pressed
          /\ wire' = wire \o SubSeq(W!Bytes[k], 1, n)
          /\ rest' = SubSeq(W!Bytes[k], n + 1, Len(W!Bytes[k]))
  BY <1>0
<1> DEFINE y == W!Bytes[k]
           u == SubSeq(y, 1, n)
           v == SubSeq(y, n + 1, Len(y))
           P == In(pressed')
<1>3. /\ y \in Seq(Alphabet) /\ Len(y) >= 1 /\ Leaving(y, P)
      /\ pressed' \in Seq(Words) /\ Len(pressed) <= Len(pressed')
      /\ \A i \in 1 .. Len(pressed) : pressed'[i] = pressed[i]
      /\ Brings(y, pressed, pressed')
  <2>1. pressed' = IF k \in W!Understood THEN Append(pressed, k) ELSE pressed BY <1>2
  <2> DEFINE q == pressed'
  <2>2. pressed \in Seq(Words) /\ q = IF k \in W!Understood THEN Append(pressed, k) ELSE pressed BY <1>1, <2>1
  <2> HIDE DEF q
  <2>3. /\ W!Bytes[k] \in Seq(Alphabet) /\ Len(W!Bytes[k]) >= 1
        /\ q \in Seq(Words) /\ Len(pressed) <= Len(q) /\ \A i \in 1 .. Len(pressed) : q[i] = pressed[i]
        /\ Leaving(W!Bytes[k], In(q)) /\ Brings(W!Bytes[k], pressed, q)
    <3>1. k \in W!Keys BY <1>0
    <3> QED BY <2>2, <3>1, KeysAreChunks
  <2> QED BY <2>3 DEF q
<1>4. Len(y) \in Nat /\ Len(taken) \in Nat /\ Len(heard) \in Nat /\ Len(pressed) \in Nat /\ Len(pressed') \in Nat
  BY <1>1, <1>3, Elements
<1>5. n \in 1 .. Len(y)
  <2>1. n \in {1, Len(y) - 1, Len(y)} \ {0} OBVIOUS
  <2> HIDE DEF y
  <2> QED BY <1>3, <1>4, <2>1
<1>6. wire' = wire \o u /\ rest' = v BY <1>2
<1>7. PressedKeys' = P BY DEF PressedKeys
<1>8. PressedKeys \subseteq P
  <2>1. \A i \in 1 .. Len(pressed) : i \in 1 .. Len(pressed') BY <1>3, <1>4
  <2> QED BY <1>3, <2>1 DEF PressedKeys, In, P
<1> HIDE DEF y, P
<1>9. u \in Seq(Alphabet) /\ v \in Seq(Alphabet) /\ u \o v = y /\ Leaving(u, P) /\ Leaving(v, P)
  <2>1. 1 \in 1 .. Len(y) + 1 /\ n \in 1 - 1 .. Len(y) BY <1>4, <1>5
  <2>2. n + 1 \in 1 .. Len(y) + 1 /\ Len(y) \in (n + 1) - 1 .. Len(y) BY <1>4, <1>5
  <2>3. u \in Seq(Alphabet) /\ Leaving(u, P) BY <1>3, <2>1, PartIs, LeavingPart
  <2>4. v \in Seq(Alphabet) /\ Leaving(v, P) BY <1>3, <2>2, PartIs, LeavingPart
  <2>5. u \o v = y BY <1>3, <1>5, PartsJoin
  <2> QED BY <2>3, <2>4, <2>5
<1> HIDE DEF u, v
<1>10. taken \o wire \in Seq(Alphabet) /\ wire' \in Seq(Alphabet) /\ rest' \in Seq(Alphabet) BY <1>1, <1>6, <1>9, JoinIs
<1>11. Stream = taken \o wire BY <1>1, <1>10, NothingJoined DEF Stream
<1>12. Stream' = Stream \o y
  <2>4. taken \in Streams /\ wire \in Streams /\ u \in Streams /\ v \in Streams BY <1>1, <1>9 DEF Streams
  <2>1. (taken \o wire) \o u = taken \o (wire \o u) BY ONLY <2>4, BytesJoin
  <2>5. taken \o wire \in Streams BY <1>10 DEF Streams
  <2>2. ((taken \o wire) \o u) \o v = (taken \o wire) \o (u \o v) BY ONLY <2>4, <2>5, BytesJoin
  <2>3. Stream' = (taken \o wire') \o rest' BY <1>1 DEF Stream
  <2> QED BY <1>6, <1>9, <1>11, <2>1, <2>2, <2>3
<1>13. ASSUME ~cut PROVE Outstanding(Len(taken), Stream', Len(heard), pressed')
  <2>1. Outstanding(Len(taken), Stream, Len(heard), pressed) BY <1>1, <1>13, Zenon DEF Listens
  <2>2. Stream \in Seq(Alphabet) BY <1>10, <1>11
  <2> QED BY <1>3, <1>4, <1>12, <2>1, <2>2 DEF Brings
<1>14. ASSUME ~cut PROVE Len(heard) <= Len(pressed') /\ \A i \in 1 .. Len(heard) : heard[i] = pressed'[i]
  <2>1. Len(heard) <= Len(pressed) /\ \A i \in 1 .. Len(heard) : heard[i] = pressed[i] BY <1>13, <1>14, Zenon DEF Listens
  <2>2. \A i \in 1 .. Len(heard) : i \in 1 .. Len(pressed) BY <1>4, <2>1
  <2> QED BY <1>3, <1>4, <2>1, <2>2
<1>15. Leaving(taken, P) /\ Leaving(wire', P) /\ Leaving(rest', P)
  <2>1. Leaving(taken, PressedKeys) /\ Leaving(wire, PressedKeys) BY DEF Listens
  <2>2. Leaving(taken, P) /\ Leaving(wire, P) BY <1>8, <2>1 DEF Leaving
  <2>3. Leaving(wire \o u, P) BY <1>1, <1>9, <2>2, LeavingParts
  <2> QED BY <1>6, <1>9, <2>2, <2>3
<1>16. taken' \in Seq(Alphabet) /\ heard' \in Seq(Words) /\ status' = "asking" /\ status' # "quit" /\ status' # "back" BY <1>1
<1>17. (~cut)' => ~cut BY <1>1
<1>18. Leaving(taken', P) BY <1>1, <1>15
<1>19. ~cut' => Len(heard') <= Len(pressed') /\ \A i \in 1 .. Len(heard') : heard'[i] = pressed'[i]
  BY <1>1, <1>14, Zenon
<1>20. ~cut' => Outstanding(Len(taken'), Stream', Len(heard'), pressed')
  BY <1>1, <1>13, Zenon
<1> QED BY <1>3, <1>7, <1>10, <1>15, <1>16, <1>18, <1>19, <1>20, Zenon DEF Listens

\* The bytes t that the reader has taken, of those that start with the chunk y.
LEMMA Takes ==
    ASSUME NEW S \in Seq(Alphabet), NEW h \in Nat, NEW p, NEW y \in Seq(Alphabet), First(S, h, p, y),
           NEW m \in Nat, m > 0 => m < Len(y) \/ (m = 1 /\ y = <<"esc">>),
           NEW t \in Seq(Alphabet), Len(t) = m + 1, Len(t) <= Len(S), \A i \in 1 .. Len(t) : t[i] = S[i]
    PROVE  /\ ~W!Complete(t) => Outstanding(Len(t), S, h, p)
           /\ W!Complete(t) => t = y \/ (W!Key(t) = "ESC" /\ W!Key(y) = "ESC")
<1>1. Len(y) \in Nat /\ Len(S) \in Nat /\ Len(t) \in Nat /\ Len(t) >= 1 BY Elements
<1>2. Chunk(y) /\ Len(y) <= Len(S) /\ \A i \in 1 .. Len(y) : S[i] = y[i] BY DEF First
<1>3. Len(y) >= 1 /\ (y = <<"esc">> \/ W!Complete(y)) BY <1>2 DEF Chunk
<1>4. Len(<<"esc">>) = 1 /\ <<"esc">>[1] = "esc" OBVIOUS
<1>5. CASE Len(t) < Len(y)
  <2>1. \A i \in 1 .. Len(t) : i \in 1 .. Len(y) BY <1>1, <1>5
  <2>2. \A i \in 1 .. Len(t) : t[i] = y[i] BY <1>2, <2>1
  <2>3. ~W!Complete(t) BY <1>1, <1>2, <1>5, <2>2 DEF Chunk
  <2>4. Outstanding(Len(t), S, h, p) BY <1>1, <1>5 DEF First
  <2> QED BY <2>3, <2>4
<1>6. CASE Len(t) = Len(y)
  <2>1. \A i \in 1 .. Len(t) : t[i] = y[i] BY <1>2, <1>6
  <2>2. t = y BY <1>6, <2>1, SameSequence
  <2>3. ASSUME ~W!Complete(t) PROVE Outstanding(Len(t), S, h, p)
    <3>1. y = <<"esc">> BY <1>3, <2>2, <2>3
    <3>2. Len(t) = 1 BY <1>4, <2>2, <3>1
    <3> QED BY <1>1, <3>1, <3>2 DEF First
  <2> QED BY <2>2, <2>3
<1>7. CASE Len(t) > Len(y)
  <2>1. m = 1 /\ y = <<"esc">> BY <1>1, <1>3, <1>7
  <2>2. Len(y) = 1 /\ y[1] = "esc" /\ Len(t) = 2 /\ Len(S) > Len(y) BY <1>1, <1>4, <1>7, <2>1
  <2>3. S[2] \notin {"[", "O"}
    <3>1. S[Len(y) + 1] \notin {"[", "O"} BY <2>2 DEF First
    <3>2. Len(y) + 1 = 2 BY <2>2
    <3> QED BY <3>1, <3>2
  <2>4. t[2] \notin {"[", "O"}
    <3>2. Len(t) = 2 BY <2>2
    <3>1. 2 \in 1 .. Len(t) BY ONLY <3>2
    <3> QED BY <2>3, <3>1
  <2>5. W!Complete(t)
    <3>1. W!Complete(t) <=> t[2] \notin {"[", "O"} BY <1>1, <2>2, EnoughIs
    <3> QED BY <2>4, <3>1
  <2>9. Len(t) = 2 BY <2>2
  <2>6. Len(t) # 1 BY ONLY <2>9
  <2>7. W!Key(t) = "ESC" BY <2>4, <2>6 DEF W!Key
  <2>8. W!Key(y) = "ESC" BY <2>2 DEF W!Key
  <2> QED BY <2>5, <2>7, <2>8
<1> QED BY <1>1, <1>5, <1>6, <1>7

\* The widget reacts to the name of what has been taken.
LEMMA ListensOnHearing ==
    ASSUME Listens, status = "asking", NEW t \in Seq(Alphabet), Len(t) >= 1, Leaving(t, PressedKeys),
           Reacted(W!Key(t)), W!Key(t) \in Words,
           taken' = <<>>, heard' = (IF W!Key(t) = "none" THEN heard ELSE Append(heard, W!Key(t))),
           UNCHANGED <<pressed, typing>>,
           wire' \in Seq(Alphabet), Leaving(wire', PressedKeys), rest' \in Seq(Alphabet), Leaving(rest', PressedKeys),
           ~cut' => ~cut /\ \E y \in Seq(Alphabet) :
              /\ First(Stream, Len(heard), pressed, y)
              /\ t = y \/ (W!Key(t) = "ESC" /\ W!Key(y) = "ESC")
              /\ Stream' \in Seq(Alphabet) /\ Len(Stream') = Len(Stream) - Len(t)
              /\ \A i \in 1 .. Len(Stream') : Stream'[i] = Stream[i + Len(t)]
    PROVE  Listens'
<1> DEFINE k == W!Key(t)
<1>1. heard \in Seq(Words) /\ pressed \in Seq(Words) BY DEF Listens
<1>2. Len(heard) \in Nat /\ Len(pressed) \in Nat BY <1>1, Elements
<1>3. heard' \in Seq(Words) BY <1>1, AppendIs
<1>4. PressedKeys' = PressedKeys BY DEF PressedKeys
<1>5. taken' \in Seq(Alphabet) /\ Len(taken') = 0 /\ Leaving(taken', PressedKeys)
  <2>1. <<>> \in Seq(Alphabet) /\ Len(<<>>) = 0 OBVIOUS
  <2> QED BY <2>1 DEF Leaving
<1>6. status' = "quit" => "q" \in PressedKeys \/ "CTRL_C" \in PressedKeys
  <2> SUFFICES ASSUME status' = "quit" PROVE "q" \in PressedKeys \/ "CTRL_C" \in PressedKeys OBVIOUS
  <2>1. k \in {"q", "CTRL_C"} BY DEF Reacted
  <2>2. t[1] = "q" \/ t[1] = "etx" BY <2>1, LeavingKeys
  <2>3. 1 \in 1 .. Len(t)
    <3>1. Len(t) \in Nat BY Elements
    <3> QED BY <3>1
  <2> QED BY <2>2, <2>3 DEF Leaving
<1>7. ASSUME ~cut'
      PROVE  /\ Len(heard') <= Len(pressed) /\ \A i \in 1 .. Len(heard') : heard'[i] = pressed[i]
             /\ status' = "back" => "ESC" \in PressedKeys \/ "LEFT" \in PressedKeys
             /\ status' = "asking" => Outstanding(0, Stream', Len(heard'), pressed)
  <2>1. ~cut BY <1>7, Zenon
  <2>2. PICK y \in Seq(Alphabet) :
              /\ First(Stream, Len(heard), pressed, y)
              /\ t = y \/ (W!Key(t) = "ESC" /\ W!Key(y) = "ESC")
              /\ Stream' \in Seq(Alphabet) /\ Len(Stream') = Len(Stream) - Len(t)
              /\ \A i \in 1 .. Len(Stream') : Stream'[i] = Stream[i + Len(t)]
    BY <1>7, Zenon
  <2>3. Len(heard) <= Len(pressed) /\ \A i \in 1 .. Len(heard) : heard[i] = pressed[i] BY <2>1, Zenon DEF Listens
  <2>4. W!Key(y) = k BY <2>2
  <2>5. k # "none" => Len(heard) + 1 <= Len(pressed) /\ pressed[Len(heard) + 1] = k BY <2>2, <2>4 DEF First
  <2>6. Len(heard') = IF k = "none" THEN Len(heard) ELSE Len(heard) + 1 BY <1>1, AppendIs
  <2>7. Len(heard') <= Len(pressed) BY <2>3, <2>5, <2>6
  <2>8. ASSUME NEW i \in 1 .. Len(heard') PROVE heard'[i] = pressed[i]
    <3>1. CASE k = "none" BY <2>3, <3>1
    <3>2. CASE k # "none" /\ i <= Len(heard)
      <4>1. i \in 1 .. Len(heard) BY <1>2, <3>2
      <4>2. heard'[i] = heard[i] BY <1>1, <3>2, <4>1, AppendIs
      <4> QED BY <2>3, <4>1, <4>2
    <3>3. CASE k # "none" /\ i = Len(heard) + 1
      <4>1. heard'[i] = k BY <1>1, <3>3, AppendIs
      <4> QED BY <2>5, <3>3, <4>1
    <3>4. k # "none" => i <= Len(heard) \/ i = Len(heard) + 1 BY <1>2, <2>6
    <3> QED BY <3>1, <3>2, <3>3, <3>4
  <2>9. ASSUME status' = "back" PROVE "ESC" \in PressedKeys \/ "LEFT" \in PressedKeys
    <3>1. k \in {"ESC", "LEFT"} BY <2>9 DEF Reacted
    <3>2. Len(heard) + 1 \in 1 .. Len(pressed) /\ pressed[Len(heard) + 1] = k BY <1>2, <2>5, <3>1
    <3>3. k \in PressedKeys BY <3>2 DEF PressedKeys, In
    <3> QED BY <3>1, <3>3
  <2>10. ASSUME status' = "asking" PROVE Outstanding(0, Stream', Len(heard'), pressed)
    <3>1. k # "ESC" BY <2>10 DEF Reacted
    <3>2. t = y BY <2>2, <3>1
    <3>3. Outstanding(0, Stream', IF W!Key(y) = "none" THEN Len(heard) ELSE Len(heard) + 1, pressed)
      BY <2>2, <3>2 DEF First
    <3>4. Len(heard') = IF W!Key(y) = "none" THEN Len(heard) ELSE Len(heard) + 1 BY <2>4, <2>6
    <3> QED BY <3>3, <3>4
  <2> QED BY <2>7, <2>8, <2>9, <2>10
<1>8. /\ Leaving(wire', PressedKeys') /\ Leaving(rest', PressedKeys') /\ Leaving(taken', PressedKeys')
      /\ pressed' = pressed /\ pressed' \in Seq(Words)
  BY <1>1, <1>4, <1>5
<1>9. ~cut' /\ status' = "asking" => Outstanding(Len(taken'), Stream', Len(heard'), pressed') BY <1>5, <1>7, <1>8
<1>10. ~cut' => Len(heard') <= Len(pressed') /\ \A i \in 1 .. Len(heard') : heard'[i] = pressed'[i] BY <1>7, <1>8
<1>11. status' = "back" /\ ~cut' => "ESC" \in PressedKeys' \/ "LEFT" \in PressedKeys' BY <1>4, <1>7
<1>12. status' = "quit" => "q" \in PressedKeys' \/ "CTRL_C" \in PressedKeys' BY <1>4, <1>6
<1> HIDE DEF k
<1> QED BY <1>3, <1>5, <1>8, <1>9, <1>10, <1>11, <1>12, Zenon DEF Listens

\* A byte is read.
LEMMA ListensOnRead ==
    ASSUME Listens, W!Read, W!Complete(Append(taken, Head(wire))) => Reacted(W!Key(Append(taken, Head(wire))))
    PROVE  Listens'
<1> DEFINE t == Append(taken, Head(wire))
           T == Tail(wire) \o rest
<1>1. /\ taken \in Seq(Alphabet) /\ wire \in Seq(Alphabet) /\ rest \in Seq(Alphabet)
      /\ heard \in Seq(Words) /\ pressed \in Seq(Words)
      /\ status = "asking" /\ wire # <<>> /\ wire' = Tail(wire)
      /\ UNCHANGED <<typing, rest, pressed, cut>>
  BY DEF Listens, W!Read
<1>2. /\ Len(wire) \in Nat \ {0} /\ Head(wire) = wire[1] /\ Head(wire) \in Alphabet
      /\ Tail(wire) \in Seq(Alphabet) /\ Len(Tail(wire)) = Len(wire) - 1
      /\ \A i \in 1 .. Len(wire) - 1 : Tail(wire)[i] = wire[i + 1]
  BY <1>1, TailIs
<1>3. /\ t \in Seq(Alphabet) /\ Len(t) = Len(taken) + 1 /\ Len(taken) \in Nat /\ Len(heard) \in Nat
      /\ \A i \in 1 .. Len(taken) : t[i] = taken[i]
      /\ t[Len(taken) + 1] = wire[1]
  BY <1>1, <1>2, AppendIs, Elements
<1>4. T \in Seq(Alphabet) /\ Len(T) \in Nat BY <1>1, <1>2, JoinIs, Elements
<1>5. Stream = t \o T
  <2>1. taken \o wire = t \o Tail(wire) BY <1>1, HeadMoves
  <2>2. (t \o Tail(wire)) \o rest = t \o T
    <3> DEFINE a == Tail(wire)
    <3>1. t \in Streams /\ a \in Streams /\ rest \in Streams BY <1>1, <1>2, <1>3 DEF Streams
    <3> HIDE DEF t, a
    <3>2. (t \o a) \o rest = t \o (a \o rest) BY ONLY <3>1, BytesJoin
    <3> QED BY <3>2 DEF a
  <2> QED BY <2>1, <2>2 DEF Stream
<1>6. Leaving(t, PressedKeys) /\ Leaving(wire', PressedKeys) /\ Leaving(rest', PressedKeys)
  <2>1. Leaving(taken, PressedKeys) /\ Leaving(wire, PressedKeys) /\ Leaving(rest, PressedKeys) BY DEF Listens
  <2>2. Leaving(t, PressedKeys)
    <3> SUFFICES ASSUME NEW i \in 1 .. Len(t)
                 PROVE  (t[i] = "q" => "q" \in PressedKeys) /\ (t[i] = "etx" => "CTRL_C" \in PressedKeys)
      BY DEF Leaving
    <3>1. CASE i \in 1 .. Len(taken) BY <1>3, <2>1, <3>1 DEF Leaving
    <3>2. CASE i = Len(taken) + 1
      <4>1. 1 \in 1 .. Len(wire) BY <1>2
      <4> QED BY <1>3, <2>1, <3>2, <4>1 DEF Leaving
    <3>3. i \in 1 .. Len(taken) \/ i = Len(taken) + 1 BY <1>3
    <3> QED BY <3>1, <3>2, <3>3
  <2>3. Leaving(Tail(wire), PressedKeys)
    <3>1. \A i \in 1 .. Len(wire) - 1 : i + 1 \in 1 .. Len(wire) BY <1>2
    <3> QED BY <1>2, <2>1, <3>1 DEF Leaving
  <2> QED BY <1>1, <2>1, <2>2, <2>3
<1>7. W!Key(t) \in Words
  <2>1. Len(t) >= 1 BY <1>3
  <2> QED BY <1>3, <2>1, LeavingKeys
<1>8. Len(Stream) = Len(t) + Len(T) /\ Stream \in Seq(Alphabet) /\ (\A i \in 1 .. Len(t) : Stream[i] = t[i])
      /\ \A i \in 1 .. Len(T) : Stream[Len(t) + i] = T[i]
  BY <1>3, <1>4, <1>5, JoinIs
<1>9. ASSUME ~cut
      PROVE  \E y \in Seq(Alphabet) :
                /\ First(Stream, Len(heard), pressed, y)
                /\ ~W!Complete(t) => Outstanding(Len(t), Stream, Len(heard), pressed)
                /\ W!Complete(t) => t = y \/ (W!Key(t) = "ESC" /\ W!Key(y) = "ESC")
  <2>1. Outstanding(Len(taken), Stream, Len(heard), pressed) BY <1>1, <1>9, Zenon DEF Listens
  <2>2. Len(Stream) >= 1 /\ Len(t) <= Len(Stream) BY <1>3, <1>4, <1>8
  <2>3. PICK y \in Seq(Alphabet) :
             /\ First(Stream, Len(heard), pressed, y)
             /\ Len(taken) > 0 => Len(taken) < Len(y) \/ (Len(taken) = 1 /\ y = <<"esc">>)
    <3> HIDE DEF t, T
    <3>1. Stream \in Seq(Alphabet) /\ pressed \in Seq(Words) /\ Len(taken) \in Nat /\ Len(heard) \in Nat BY <1>1, <1>3, <1>8
    <3> DEFINE m == Len(taken) h == Len(heard)
    <3> HIDE DEF m, h
    <3>2. m \in Nat /\ h \in Nat /\ Outstanding(m, Stream, h, pressed) BY <2>1, <3>1 DEF m, h
    <3>3. Len(Stream) >= 1 BY <2>2
    <3>4. \E y \in Seq(Alphabet) : First(Stream, h, pressed, y) /\ (m > 0 => m < Len(y) \/ (m = 1 /\ y = <<"esc">>))
      BY <3>1, <3>2, <3>3, FirstIs
    <3> QED BY <3>4 DEF m, h
  <2> HIDE DEF t, T
  <2>4. \A i \in 1 .. Len(t) : t[i] = Stream[i] BY <1>8
  <2>5. Stream \in Seq(Alphabet) /\ t \in Seq(Alphabet) /\ Len(t) = Len(taken) + 1 /\ Len(taken) \in Nat /\ Len(heard) \in Nat
    BY <1>3, <1>8
  <2>6. /\ ~W!Complete(t) => Outstanding(Len(t), Stream, Len(heard), pressed)
        /\ W!Complete(t) => t = y \/ (W!Key(t) = "ESC" /\ W!Key(y) = "ESC")
    <3> DEFINE m == Len(taken) h == Len(heard)
    <3>1. m \in Nat /\ h \in Nat /\ Len(t) = m + 1 BY <2>5
    <3>2. First(Stream, h, pressed, y) BY <2>3
    <3>3. m > 0 => m < Len(y) \/ (m = 1 /\ y = <<"esc">>) BY <2>3
    <3> HIDE DEF m, h
    <3>4. /\ ~W!Complete(t) => Outstanding(Len(t), Stream, h, pressed)
          /\ W!Complete(t) => t = y \/ (W!Key(t) = "ESC" /\ W!Key(y) = "ESC")
      BY <2>2, <2>4, <2>5, <3>1, <3>2, <3>3, Takes
    <3> QED BY <3>4 DEF h
  <2> QED BY <2>3, <2>6
<1>10. CASE ~W!Complete(t)
  <2>1. taken' = t /\ UNCHANGED <<heard, status>> BY <1>10 DEF W!Read
  <2>2. Stream' = Stream
    <3>2. taken \o wire = t \o Tail(wire) BY <1>1, HeadMoves
    <3>1. (t \o Tail(wire)) \o rest = (taken \o wire) \o rest BY <3>2
    <3> QED BY <1>1, <2>1, <3>1 DEF Stream
  <2>3. PressedKeys' = PressedKeys BY <1>1 DEF PressedKeys
  <2> HIDE DEF t, T
  <2>4. ~cut' => Outstanding(Len(taken'), Stream', Len(heard'), pressed')
    <3>1. ~cut => Outstanding(Len(t), Stream, Len(heard), pressed) BY <1>9, <1>10
    <3> QED BY <1>1, <2>1, <2>2, <3>1, Zenon
  <2>5. ~cut' => Len(heard') <= Len(pressed') /\ \A i \in 1 .. Len(heard') : heard'[i] = pressed'[i]
    BY <1>1, <2>1, Zenon DEF Listens
  <2>6. status' # "quit" /\ status' # "back" BY <1>1, <2>1
  <2>7. /\ taken' \in Seq(Alphabet) /\ wire' \in Seq(Alphabet) /\ rest' \in Seq(Alphabet)
        /\ heard' \in Seq(Words) /\ pressed' \in Seq(Words)
    BY <1>1, <1>2, <1>3, <2>1
  <2>8. Leaving(taken', PressedKeys') /\ Leaving(wire', PressedKeys') /\ Leaving(rest', PressedKeys')
    BY <1>6, <2>1, <2>3
  <2> QED BY <2>4, <2>5, <2>6, <2>7, <2>8, Zenon DEF Listens
<1>11. CASE W!Complete(t)
  <2>1. /\ taken' = <<>> /\ heard' = (IF W!Key(t) = "none" THEN heard ELSE Append(heard, W!Key(t)))
        /\ Reacted(W!Key(t))
    BY <1>11 DEF W!Read, W!Hear
  <2>2. Stream' = T
    <3>1. <<>> \o Tail(wire) = Tail(wire) BY <1>2, NothingJoined
    <3> QED BY <1>1, <2>1, <3>1 DEF Stream
  <2> HIDE DEF t, T
  <2>3. Stream' \in Seq(Alphabet) /\ Len(Stream') = Len(Stream) - Len(t) BY <1>3, <1>4, <1>8, <2>2
  <2>4. \A i \in 1 .. Len(Stream') : Stream'[i] = Stream[i + Len(t)]
    <3>1. \A i \in 1 .. Len(T) : Len(t) + i = i + Len(t) BY <1>3, <1>4
    <3> QED BY <1>8, <2>2, <3>1
  <2>5. ~cut' => ~cut /\ \E y \in Seq(Alphabet) :
              /\ First(Stream, Len(heard), pressed, y)
              /\ t = y \/ (W!Key(t) = "ESC" /\ W!Key(y) = "ESC")
              /\ Stream' \in Seq(Alphabet) /\ Len(Stream') = Len(Stream) - Len(t)
              /\ \A i \in 1 .. Len(Stream') : Stream'[i] = Stream[i + Len(t)]
    <3>1. ~cut => \E y \in Seq(Alphabet) :
              /\ First(Stream, Len(heard), pressed, y)
              /\ t = y \/ (W!Key(t) = "ESC" /\ W!Key(y) = "ESC")
      BY <1>9, <1>11, Zenon
    <3> QED BY <1>1, <2>3, <2>4, <3>1, Zenon
  <2>6. Len(t) >= 1 BY <1>3
  <2>7. wire' \in Seq(Alphabet) /\ rest' \in Seq(Alphabet) /\ UNCHANGED <<pressed, typing>> BY <1>1, <1>2
  <2> QED BY <1>1, <1>3, <1>6, <1>7, <2>1, <2>5, <2>6, <2>7, ListensOnHearing
<1> QED BY <1>10, <1>11

\* The reader waits no longer.
LEMMA ListensOnExpiry ==
    ASSUME Listens, W!Expire, Reacted(W!Key(taken))
    PROVE  Listens'
<1>1. /\ taken \in Seq(Alphabet) /\ wire \in Seq(Alphabet) /\ rest \in Seq(Alphabet)
      /\ heard \in Seq(Words) /\ pressed \in Seq(Words)
      /\ status = "asking" /\ taken # <<>> /\ wire = <<>>
      /\ UNCHANGED <<typing, wire, rest, pressed>>
      /\ taken' = <<>> /\ heard' = (IF W!Key(taken) = "none" THEN heard ELSE Append(heard, W!Key(taken)))
  BY DEF Listens, W!Expire, W!Hear
<1>2. Len(taken) \in Nat \ {0} /\ Len(heard) \in Nat BY <1>1, TailIs, Elements
<1>3. /\ Leaving(taken, PressedKeys) /\ Leaving(wire', PressedKeys) /\ Leaving(rest', PressedKeys)
  BY <1>1 DEF Listens
<1>4. Len(taken) >= 1 /\ W!Key(taken) \in Words
  <2>1. Len(taken) >= 1 BY <1>2
  <2> QED BY <1>1, <2>1, LeavingKeys
<1>5. ~cut' => ~cut /\ rest = <<>>
  <2>1. cut' = (cut \/ rest # <<>>) BY DEF W!Expire
  <2> QED BY <2>1, Zenon
<1>6. ASSUME ~cut, rest = <<>>
      PROVE  \E y \in Seq(Alphabet) :
              /\ First(Stream, Len(heard), pressed, y)
              /\ taken = y \/ (W!Key(taken) = "ESC" /\ W!Key(y) = "ESC")
              /\ Stream' \in Seq(Alphabet) /\ Len(Stream') = Len(Stream) - Len(taken)
              /\ \A i \in 1 .. Len(Stream') : Stream'[i] = Stream[i + Len(taken)]
  <2>1. Outstanding(Len(taken), Stream, Len(heard), pressed) BY <1>1, <1>6, Zenon DEF Listens
  <2>2. Stream = taken
    <3>1. taken \o <<>> = taken BY <1>1, NothingJoined
    <3> QED BY <1>1, <1>6, <3>1 DEF Stream
  <2>3. PICK y \in Seq(Alphabet) :
             /\ First(Stream, Len(heard), pressed, y)
             /\ Len(taken) > 0 => Len(taken) < Len(y) \/ (Len(taken) = 1 /\ y = <<"esc">>)
    BY <1>1, <1>2, <1>4, <2>1, <2>2, FirstIs
  <2>4. Len(y) <= Len(taken) /\ Len(y) \in Nat /\ \A i \in 1 .. Len(y) : taken[i] = y[i]
    BY <2>2, <2>3, Elements DEF First
  <2>5. Len(taken) = 1 /\ y = <<"esc">> BY <1>2, <2>3, <2>4
  <2>6. Len(<<"esc">>) = 1 OBVIOUS
  <2>7. taken = y
    <3>1. Len(y) = 1 BY <2>5, <2>6
    <3>2. Len(taken) = Len(y) /\ \A i \in 1 .. Len(taken) : taken[i] = y[i] BY <2>4, <2>5, <3>1
    <3> QED BY <1>1, <3>2, SameSequence
  <2>8. Stream' = <<>>
    <3>1. <<>> \in Seq(Alphabet) OBVIOUS
    <3>2. <<>> \o <<>> = <<>> BY <3>1, NothingJoined
    <3> QED BY <1>1, <1>6, <3>2 DEF Stream
  <2>9. Stream' \in Seq(Alphabet) /\ Len(Stream') = 0 BY <2>8
  <2>10. Len(Stream') = Len(Stream) - Len(taken) /\ \A i \in 1 .. Len(Stream') : Stream'[i] = Stream[i + Len(taken)]
    BY <1>2, <2>2, <2>9
  <2> QED BY <2>3, <2>7, <2>9, <2>10
<1>7. ~cut' => ~cut /\ \E y \in Seq(Alphabet) :
              /\ First(Stream, Len(heard), pressed, y)
              /\ taken = y \/ (W!Key(taken) = "ESC" /\ W!Key(y) = "ESC")
              /\ Stream' \in Seq(Alphabet) /\ Len(Stream') = Len(Stream) - Len(taken)
              /\ \A i \in 1 .. Len(Stream') : Stream'[i] = Stream[i + Len(taken)]
  BY <1>5, <1>6, Zenon
<1>8. wire' \in Seq(Alphabet) /\ rest' \in Seq(Alphabet) BY <1>1
<1> QED BY <1>1, <1>3, <1>4, <1>7, <1>8, ListensOnHearing

-----------------------------------------------------------------------------
\* The cursor is in the slice of the options that is shown.
LEMMA CursorIsShown ==
    ASSUME Asked
    PROVE  cursor \in W!Window
<1>1. count \in Nat \ {0} /\ cursor \in 0 .. count - 1 BY DEF Asked
<1>2. Room \in Nat \ {0} BY ScreensAssumption
<1> DEFINE half == Room \div 2
           start == IF cursor - half < count - Room THEN cursor - half ELSE count - Room
           top == IF start < 0 THEN 0 ELSE start
<1>3. half \in 0 .. Room - 1 BY <1>2
<1>4. W!Window = IF count <= Room THEN 0 .. count - 1 ELSE top .. top + Room - 1 BY DEF W!Window
<1> HIDE DEF half
<1>5. ~(count <= Room) => cursor \in top .. top + Room - 1 BY <1>1, <1>2, <1>3
<1> HIDE DEF start, top
<1> QED BY <1>1, <1>4, <1>5

\* A question that is not yet answered.
LEMMA AskedAtFirst ==
    ASSUME W!Init
    PROVE  Asked
<1>1. count \in Nat \ {0} BY ScreensAssumption DEF W!Init
<1>2. widget \in {"select", "multi", "text"} /\ cursor = 0 /\ status = "asking" /\ marked \subseteq 0 .. count - 1
  BY DEF W!Init
<1> QED BY <1>1, <1>2 DEF Asked

\* A question that nothing is done about.
LEMMA AskedStill ==
    ASSUME Asked, UNCHANGED <<widget, count, anything, cursor, marked>>,
           UNCHANGED <<status, answer>> \/ status' # "answered" \/ W!Allowed'
    PROVE  Asked'
<1>1. UNCHANGED <<status, answer>> => (W!Allowed' <=> W!Allowed)
  BY Zenon DEF W!Allowed, W!Valid, W!ToSet, W!IsInjective
<1> QED BY <1>1 DEF Asked

\* A key that is heard.
LEMMA AskedOnHearing ==
    ASSUME Asked, UNCHANGED <<widget, count, anything>>, NEW k, Reacted(k)
    PROVE  Asked'
BY DEF Asked, Reacted

\* What holds of every question.
Screens == Asked /\ Listens

\* A step of a screen.
LEMMA ScreensStep ==
    ASSUME Screens, W!Next
    PROVE  Screens'
<1>1. Asked /\ Listens BY DEF Screens
<1>2. CASE W!Press
  <2>1. UNCHANGED <<widget, count, anything, cursor, marked, status, answer>> BY <1>2 DEF W!Press
  <2>2. Asked' BY <1>1, <2>1, AskedStill
  <2>3. Listens' BY <1>1, <1>2, ListensOnPress
  <2> QED BY <2>2, <2>3 DEF Screens
<1>3. CASE W!Arrive
  <2>1. UNCHANGED <<widget, count, anything, cursor, marked, status, answer>> BY <1>3 DEF W!Arrive
  <2>2. Asked' BY <1>1, <2>1, AskedStill
  <2>3. Listens' BY <1>1, <1>3, ListensOnArrival
  <2> QED BY <2>2, <2>3 DEF Screens
<1>4. CASE W!Read
  <2> DEFINE t == Append(taken, Head(wire))
  <2>1. UNCHANGED <<widget, count, anything>> /\ status = "asking" BY <1>4 DEF W!Read
  <2>2. W!Complete(t) => W!React(W!Key(t)) BY <1>4 DEF W!Read, W!Hear
  <2>3. ~W!Complete(t) => UNCHANGED <<cursor, marked, status, answer>> BY <1>4 DEF W!Read
  <2> HIDE DEF t
  <2>4. W!Complete(t) => Reacted(W!Key(t)) BY <1>1, <2>1, <2>2, Reacts
  <2>5. Asked'
    <3>1. CASE W!Complete(t) BY <1>1, <2>1, <2>4, <3>1, AskedOnHearing
    <3>2. CASE ~W!Complete(t) BY <1>1, <2>1, <2>3, <3>2, AskedStill
    <3> QED BY <3>1, <3>2
  <2>6. Listens' BY <1>1, <1>4, <2>4, ListensOnRead DEF t
  <2> QED BY <2>5, <2>6 DEF Screens
<1>5. CASE W!Expire
  <2>1. UNCHANGED <<widget, count, anything>> /\ status = "asking" /\ W!React(W!Key(taken)) BY <1>5 DEF W!Expire, W!Hear
  <2>2. Reacted(W!Key(taken)) BY <1>1, <2>1, Reacts
  <2>3. Asked' BY <1>1, <2>1, <2>2, AskedOnHearing
  <2>4. Listens' BY <1>1, <1>5, <2>2, ListensOnExpiry
  <2> QED BY <2>3, <2>4 DEF Screens
<1>6. CASE W!Type
  <2>1. /\ UNCHANGED <<widget, count, anything, typing, taken, wire, rest, pressed, heard, cut>>
        /\ typing /\ status = "asking"
    BY <1>6, Zenon DEF W!Type, W!keyVars
  <2>2. UNCHANGED <<cursor, marked>> /\ (status' = "answered" => W!Allowed') BY <1>1, <1>6, <2>1, Prompts
  <2>3. Asked' BY <1>1, <2>1, <2>2, AskedStill
  <2>4. Listens' BY <1>1, <2>1, ListensStill, Zenon
  <2> QED BY <2>3, <2>4 DEF Screens
<1>7. CASE W!Superscript
  <2>1. /\ UNCHANGED <<widget, count, anything, typing, taken, wire, rest, pressed, heard, cut>>
        /\ typing /\ status = "asking" /\ status' = "raised" /\ UNCHANGED <<cursor, marked>>
    BY <1>7, Zenon DEF W!Superscript, W!keyVars, W!Ends
  <2>2. status' # "answered" BY <2>1
  <2>3. Asked' BY <1>1, <2>1, <2>2, AskedStill
  <2>4. Listens' BY <1>1, <2>1, ListensStill, Zenon
  <2> QED BY <2>3, <2>4 DEF Screens
<1>8. CASE W!Idle
  <2>1. /\ UNCHANGED <<widget, count, anything, typing, taken, wire, rest, pressed, heard, cut>>
        /\ UNCHANGED <<cursor, marked, status, answer>>
    BY <1>8 DEF W!Idle, W!vars
  <2>2. Asked' BY <1>1, <2>1, AskedStill
  <2>3. Listens' BY <1>1, <2>1, ListensStill
  <2> QED BY <2>2, <2>3 DEF Screens
<1> QED BY <1>2, <1>3, <1>4, <1>5, <1>6, <1>7, <1>8 DEF W!Next

\* What a question that is asked so returns.
LEMMA ScreensAreTrue ==
    ASSUME Screens
    PROVE  AnswersAreTheUsers
<1>1. Asked /\ Listens BY DEF Screens
<1>2. status = "answered" => W!Allowed BY <1>1 DEF Asked
<1>3. cursor \in W!Window BY <1>1, CursorIsShown
<1>4. heard \in Seq(Words) /\ pressed \in Seq(Words) BY <1>1 DEF Listens
<1>5. W!ToSet(pressed) = PressedKeys
  <2>1. DOMAIN pressed = 1 .. Len(pressed) BY <1>4, Elements
  <2> QED BY <2>1 DEF W!ToSet, PressedKeys, In
<1>6. ~cut => W!IsPrefix(heard, pressed)
  <2> SUFFICES ASSUME ~cut PROVE W!IsPrefix(heard, pressed) OBVIOUS
  <2>1. Len(heard) <= Len(pressed) /\ \A i \in 1 .. Len(heard) : heard[i] = pressed[i] BY <1>1, Zenon DEF Listens
  <2>2. Len(heard) \in Nat /\ Len(pressed) \in Nat BY <1>4, Elements
  <2> DEFINE l == Len(heard) a == SubSeq(heard, 1, l) b == SubSeq(pressed, 1, l)
  <2>3. l \in Nat /\ 1 \in 1 .. Len(heard) + 1 /\ l \in 1 - 1 .. Len(heard) /\ l \in 1 - 1 .. Len(pressed)
        /\ 1 \in 1 .. Len(pressed) + 1 /\ (l - 1) + 1 = l
    BY <2>1, <2>2
  <2> HIDE DEF l
  <2>4. a \in Seq(Words) /\ Len(a) = l - 1 + 1 /\ \A i \in 1 .. l - 1 + 1 : a[i] = heard[1 + i - 1] BY <1>4, <2>3, PartIs
  <2>5. b \in Seq(Words) /\ Len(b) = l - 1 + 1 /\ \A i \in 1 .. l - 1 + 1 : b[i] = pressed[1 + i - 1] BY <1>4, <2>3, PartIs
  <2> HIDE DEF a, b
  <2>6. \A i \in 1 .. l : a[i] = b[i]
    <3> SUFFICES ASSUME NEW i \in 1 .. l PROVE a[i] = b[i] OBVIOUS
    <3>1. i \in 1 .. l - 1 + 1 /\ 1 + i - 1 = i BY <2>3
    <3>2. heard[i] = pressed[i] BY <2>1 DEF l
    <3> QED BY <2>4, <2>5, <3>1, <3>2
  <2>7. Len(a) = l /\ Len(b) = l BY <2>3, <2>4, <2>5
  <2>8. a = b BY <2>4, <2>5, <2>6, <2>7, SameSequence
  <2> QED BY <2>1, <2>8 DEF W!IsPrefix, a, b, l
<1>7. status = "quit" /\ ~typing => {"q", "CTRL_C"} \cap W!ToSet(pressed) # {}
  <2>1. status = "quit" /\ ~typing => "q" \in PressedKeys \/ "CTRL_C" \in PressedKeys BY <1>1, Zenon DEF Listens
  <2> QED BY <1>5, <2>1, Zenon
<1>8. status = "back" /\ ~typing => cut \/ {"ESC", "LEFT"} \cap W!ToSet(pressed) # {}
  <2>1. status = "back" /\ ~typing /\ ~cut => "ESC" \in PressedKeys \/ "LEFT" \in PressedKeys BY <1>1, Zenon DEF Listens
  <2> QED BY <1>5, <2>1, Zenon
<1> QED BY <1>2, <1>3, <1>6, <1>7, <1>8, Zenon DEF AnswersAreTheUsers, W!AnswersAreTheUsers

(* What a screen returns is what its user chose, however many options it   *)
(* has, whatever fits on the screen, and however many keys are pressed     *)
(* and in whatever pieces they arrive (tui.py 126-155, 244-516).           *)
THEOREM TheAnswersAreTheUsers == AllSpec => []AnswersAreTheUsers
<1>1. AllInit => Screens
  <2> SUFFICES ASSUME AllInit PROVE Screens OBVIOUS
  <2>1. W!Init BY DEF AllInit
  <2> QED BY <2>1, AskedAtFirst, ListensAtFirst DEF Screens
<1>2. Screens /\ [AllNext]_allVars => Screens'
  <2> SUFFICES ASSUME Screens, [AllNext]_allVars PROVE Screens' OBVIOUS
  <2>1. CASE Asks BY <2>1, ScreensStep DEF Asks
  <2>2. CASE UNCHANGED screen
    <3>1. Asked /\ Listens BY DEF Screens
    <3>2. /\ UNCHANGED <<widget, count, anything, typing, taken, wire, rest, pressed, heard, cut>>
          /\ UNCHANGED <<cursor, marked, status, answer>>
      BY <2>2 DEF screen
    <3>3. Asked' BY <3>1, <3>2, AskedStill
    <3>4. Listens' BY <3>1, <3>2, ListensStill
    <3> QED BY <3>3, <3>4 DEF Screens
  <2>3. CASE Invokes \/ ChecksUp BY <2>2, <2>3 DEF Invokes, ChecksUp
  <2>4. CASE UNCHANGED allVars BY <2>2, <2>4 DEF allVars
  <2> QED BY <2>1, <2>3, <2>4 DEF AllNext
<1>3. Screens => AnswersAreTheUsers BY ScreensAreTrue
<1> QED BY <1>1, <1>2, <1>3, PTL DEF AllSpec
=============================================================================
