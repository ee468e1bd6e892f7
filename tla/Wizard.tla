------------------------------- MODULE Wizard -------------------------------
(***************************************************************************)
(* The guided menu (wizard.py) and the terminal it owns (tui.py): screens  *)
(* that are answered, skipped or left, the record their answers are kept   *)
(* in, and the command line made of it. A command line is the set of its   *)
(* words; an answer stands for every text that has the same effect.        *)
(***************************************************************************)
EXTENDS Integers, Sequences, TLC

VARIABLES
    flow,     \* the entry of the main menu that was chosen, or "main"
    step,     \* the step of the flow
    way,      \* 1 or -1: the way _run_steps moves
    sub,      \* a screen that a step opens, or ""
    answers,  \* state: what the steps have written in it
    standing, \* the answers that were given on the way to this screen
    status,   \* run() is asking, has returned a command or nothing, or raised
    command,
    leaving   \* the user does nothing any more but go back

vars == <<flow, step, way, sub, answers, standing, status, command, leaving>>

Flows == {"checkup", "benchmark", "stats", "watch", "health", "network", "history", "shortcuts"}
Steps ==
    [checkup |-> <<"kind", "confirm">>,
     benchmark |-> <<"kind", "scope", "depth", "extras", "reports", "confirm">>,
     stats |-> <<"sections", "format", "confirm">>,
     watch |-> <<"kind", "duration", "options", "confirm">>,
     health |-> <<"kind", "size", "confirm">>,
     network |-> <<"kind", "host", "confirm">>,
     history |-> <<"kind", "confirm">>,
     shortcuts |-> <<"kind">>]
Step == Steps[flow][step]
OneWay == flow \in {"checkup", "shortcuts"}   \* not walked by _run_steps

Focused == {"datascience", "io", "standards"}
\* _bench_kind and the screens it opens: every branch sets mode, select and depth.
Kinds ==
    [quick |-> [mode |-> "suite", select |-> {"--quick"}, depth |-> "quick"],
     full |-> [mode |-> "suite", select |-> {}, depth |-> "unasked"],
     profile |-> [mode |-> "suite", select |-> {"--profile"}, depth |-> "unasked"],
     tests |-> [mode |-> "suite", select |-> {"--only"}, depth |-> "unasked"],
     datascience |-> [mode |-> "datascience", select |-> {}, depth |-> "unasked"],
     io |-> [mode |-> "io", select |-> {}, depth |-> "unasked"],
     standards |-> [mode |-> "standards", select |-> {}, depth |-> "unasked"],
     drives |-> [mode |-> "drive_speed", select |-> {"--drive-speed"}, depth |-> "unasked"]]
ScopesLoose == [no |-> [select |-> {"--only", "--quick"}, depth |-> "quick"], yes |-> [select |-> {}]]
Scopes ==
    [no |-> [select |-> {"--only", "--quick"}, depth |-> "quick"],
     yes |-> [select |-> {}, depth |-> "unasked"]]

\* What the screens of each flow may be answered; those of Opens lead to a
\* further screen.
BenchmarkChoices ==
    CASE Step = "kind" -> DOMAIN Kinds
      [] Step = "scope" -> DOMAIN Scopes
      [] Step = "depth" -> {"quick", "standard", "thorough", "custom"}
      [] Step = "extras" -> SUBSET {"--sustained", "--force"}
      [] OTHER -> SUBSET {"--html", "--no-save"}
StatsChoices == IF Step = "sections" THEN {"all", "some"} ELSE {"report", "json"}
WatchChoices ==
    CASE Step = "kind" -> {"--monitor", "--sustained", "--soak"}
      [] Step = "duration" -> {answers["duration"], "90"}
      [] OTHER -> SUBSET IF answers["kind"] = "--monitor" THEN {"--monitor-power"} ELSE {"--force", "suite first"}
HealthChoices == IF Step = "kind" THEN {"read", "ram"} ELSE {"256", "64"}
NetworkChoices ==
    IF Step = "kind" THEN {"--internet", "--network-host", "loopback", "--net-server", "--net-client"}
    ELSE {"peer", "-x"}
HistoryChoices == {"table", "every", "pair"}
CheckupChoices == {"full", "settings"}
Shortcuts == {"--checkup", "--soak"}
Choices ==
    CASE flow = "benchmark" -> BenchmarkChoices
      [] flow = "stats" -> StatsChoices
      [] flow = "watch" -> WatchChoices
      [] flow = "health" -> HealthChoices
      [] flow = "network" -> NetworkChoices
      [] flow = "history" -> HistoryChoices
      [] flow = "checkup" -> CheckupChoices
      [] OTHER -> Shortcuts

Opens(a) ==
    CASE flow = "benchmark" /\ Step = "kind" /\ a \in {"profile", "tests", "drives"} -> a
      [] flow = "benchmark" /\ Step = "depth" /\ a = "custom" -> "seconds"
      [] flow = "history" /\ Step = "kind" /\ a = "pair" -> "baseline"
      [] OTHER -> ""
Then == IF sub = "seconds" THEN "repeats" ELSE IF sub = "baseline" THEN "candidate" ELSE ""
Answered == CASE sub = "repeats" -> "custom" [] sub = "candidate" -> "pair" [] OTHER -> sub

\* What a step writes in the record.
Written(a) ==
    CASE flow = "benchmark" /\ Step = "kind" -> Kinds[a]
      [] flow = "benchmark" /\ Step = "scope" -> Scopes[a]
      [] flow = "benchmark" /\ Step = "reports" -> [reports |-> IF "--no-save" \in a THEN {"--no-save"} ELSE a]
      [] flow = "watch" /\ Step = "kind" -> [kind |-> a, duration |-> "default"]
      [] OTHER -> Step :> a

-----------------------------------------------------------------------------
Skips ==
    CASE flow = "benchmark" ->
           \/ Step = "scope" /\ answers["mode"] \notin Focused
           \/ Step = "depth" /\ (answers["depth"] = "quick" \/ answers["mode"] = "drive_speed")
           \/ Step \in {"extras", "reports"} /\ answers["mode"] = "drive_speed"
      [] flow = "health" -> Step = "size" /\ answers["kind"] # "ram"
      [] flow = "network" -> Step = "host" /\ answers["kind"] \notin {"--network-host", "--net-client"}
      [] OTHER -> FALSE

\* The command line that the last step of each flow makes of the record.
Get(k) == IF k \in DOMAIN answers THEN answers[k] ELSE {}
BenchmarkLine ==
    answers["select"]
    \cup (CASE answers["depth"] = "quick" -> {"--quick"} [] answers["depth"] = "thorough" -> {"--seconds 6"}
            [] answers["depth"] = "custom" -> {"--seconds n"} [] OTHER -> {})
    \cup (CASE answers["mode"] = "datascience" -> {"--datascience"} [] answers["mode"] = "io" -> {"--io"} [] OTHER -> {})
    \cup (IF answers["mode"] = "drive_speed" THEN {} ELSE Get("extras") \cup Get("reports"))
StatsLine == {"--stats", answers["sections"]} \cup (IF answers["format"] = "json" THEN {"--json-stdout"} ELSE {})
WatchLine ==
    {answers["kind"], answers["duration"]} \cup (answers["options"] \ {"suite first"})
    \cup (IF answers["kind"] = "--monitor" \/ "suite first" \in answers["options"] THEN {} ELSE {"--only", "--quick"})
HealthLine == IF answers["kind"] = "ram" THEN {"--health", answers["size"], "--only", "--quick"} ELSE {"--stats"}
NetworkLine ==
    CASE answers["kind"] = "--network-host" -> {"--network-host", answers["host"], "--only", "--quick"}
      [] answers["kind"] = "--net-client" -> {"--net-client", answers["host"]}
      [] answers["kind"] = "loopback" -> {"--only", "--quick"}
      [] OTHER -> {answers["kind"]}
HistoryLine ==
    CASE answers["kind"] = "pair" -> {"--compare-runs"} [] answers["kind"] = "every" -> {"--compare", "--all-runs"}
      [] OTHER -> {"--compare"}
CheckupLine == {"--checkup"} \cup (IF answers["kind"] = "settings" THEN {"--no-measure"} ELSE {})
argv ==
    CASE flow = "benchmark" -> BenchmarkLine
      [] flow = "stats" -> StatsLine
      [] flow = "watch" -> WatchLine
      [] flow = "health" -> HealthLine
      [] flow = "network" -> NetworkLine
      [] flow = "history" -> HistoryLine
      [] OTHER -> CheckupLine

\* _validate, where a flow uses it.
Refuses == "-x" \in argv

-----------------------------------------------------------------------------
TypeOK ==
    /\ flow \in Flows \cup {"main"} /\ way \in {1, -1}
    /\ flow # "main" => step \in 1 .. Len(Steps[flow])
    /\ status \in {"asking", "command", "nothing", "raised"}
    /\ flow = "main" => sub = "" /\ DOMAIN standing = {}
    /\ leaving \in BOOLEAN

Init ==
    /\ flow = "main" /\ step = 1 /\ way = 1 /\ sub = ""
    /\ answers = <<>> /\ standing = <<>>
    /\ status = "asking" /\ command = {}
    /\ leaving = FALSE

Asking == status = "asking" /\ ~leaving
Shown == flow # "main" /\ (sub # "" \/ ~Skips)

\* run() is over; screen() puts the terminal back however its block ends.
End(s) ==
    /\ status' = s
    /\ UNCHANGED <<flow, step, way, sub, answers, standing, leaving>>

\* A handler starts, with an empty record.
Choose ==
    /\ Asking /\ flow = "main"
    /\ flow' \in Flows
    /\ step' = 1 /\ way' = 1
    /\ UNCHANGED <<sub, answers, standing, status, command, leaving>>

Home ==
    /\ flow' = "main" /\ step' = 1 /\ way' = 1
    /\ answers' = <<>> /\ standing' = <<>>

Forward(a) ==
    /\ answers' = Written(a) @@ answers
    /\ standing' = (Step :> a) @@ [t \in {Steps[flow][i] : i \in 1 .. step - 1} \cap DOMAIN standing |-> standing[t]]
    /\ sub' = "" /\ way' = 1 /\ step' = step + 1
    /\ UNCHANGED <<flow, status, command, leaving>>

Answer ==
    /\ Asking /\ Shown /\ sub = "" /\ Step # "confirm" /\ flow # "shortcuts"
    /\ \E a \in Choices :
          IF Opens(a) = "" THEN Forward(a)
          ELSE /\ sub' = Opens(a)
               /\ UNCHANGED <<flow, step, way, answers, standing, status, command, leaving>>

\* The screens a step opens: a profile, a text field, two saved runs.
AnswerSub ==
    /\ Asking /\ sub \notin {"", "problem", "too few"}
    /\ IF Then = "" THEN Forward(Answered)
       ELSE /\ sub' = Then
            /\ UNCHANGED <<flow, step, way, answers, standing, status, command, leaving>>

\* Fewer than two saved runs, or one that went away while they were listed.
NoPair ==
    /\ Asking /\ sub = "baseline"
    /\ \/ /\ sub' = "too few"
          /\ UNCHANGED <<flow, step, way, answers, standing, status, command, leaving>>
       \/ End("raised") /\ UNCHANGED command

ForwardAgain == 1
Onward == way
\* A step that does not apply: _run_steps moves on the way it was going.
Skip ==
    /\ status = "asking" /\ flow # "main" /\ sub = "" /\ Skips
    /\ answers' = IF Step = "reports" THEN (Step :> {}) @@ answers ELSE answers
    /\ way' = Onward
    /\ step' = step + Onward
    /\ UNCHANGED <<flow, sub, standing, status, command, leaving>>

LeavesFlow == OneWay \/ step = 1
\* _Back: out of a screen that a kind opened, to the kind; out of any other, to
\* the step before; out of the first step, to the main menu.
GoBack ==
    /\ sub' = ""
    /\ IF flow \in {"benchmark", "history"} /\ Step = "kind" /\ sub # ""
       THEN UNCHANGED <<flow, step, way, answers, standing>>
       ELSE IF LeavesFlow THEN Home
       ELSE way' = -1 /\ step' = step - 1 /\ UNCHANGED <<flow, answers, standing>>
    /\ UNCHANGED <<status, command, leaving>>

Back == status = "asking" /\ Shown /\ GoBack

\* _choose of the main menu stands outside the try of its loop.
BackAtMain == status = "asking" /\ flow = "main" /\ End("raised") /\ UNCHANGED command

Quit == Asking /\ (flow = "main" \/ Shown) /\ End("nothing") /\ UNCHANGED command

\* The last screen shows the command; one the parser would refuse, a problem.
Problem ==
    /\ Asking /\ Shown /\ Step = "confirm" /\ sub = ""
    /\ Refuses
    /\ sub' = "problem"
    /\ UNCHANGED <<flow, step, way, answers, standing, status, command, leaving>>

Confirm ==
    /\ Asking /\ Shown /\ Step = "confirm" /\ sub = ""
    /\ ~Refuses
    /\ command' = argv
    /\ End("command")

Shortcut ==
    /\ Asking /\ flow = "shortcuts"
    /\ \E a \in Choices : command' = {a}
    /\ End("command")

Leave ==
    /\ Asking /\ flow # "main"
    /\ leaving' = TRUE
    /\ UNCHANGED <<flow, step, way, sub, answers, standing, status, command>>

Over == status # "asking" /\ UNCHANGED vars

Next ==
    \/ Choose \/ Answer \/ AnswerSub \/ NoPair \/ Skip \/ Back \/ BackAtMain \/ Quit
    \/ Problem \/ Confirm \/ Shortcut \/ Leave \/ Over

Spec == Init /\ [][Next]_vars
FairSpec == Spec /\ WF_vars(Skip) /\ WF_vars(leaving /\ Back)

-----------------------------------------------------------------------------
\* A command line from the answers alone, as the screens explain them.
Meant ==
    LET k == standing["kind"]
        said(s) == IF s \in DOMAIN standing THEN standing[s] ELSE "unasked"
        ticked(s) == IF s \in DOMAIN standing THEN standing[s] ELSE {}
    IN CASE flow = "benchmark" ->
              (CASE k = "drives" -> {"--drive-speed"} [] k = "profile" -> {"--profile"} [] k = "tests" -> {"--only"}
                 [] k = "datascience" -> {"--datascience"} [] k = "io" -> {"--io"} [] OTHER -> {})
              \cup (IF said("scope") = "no" THEN {"--only"} ELSE {})
              \cup (IF k = "quick" \/ said("scope") = "no" \/ said("depth") = "quick" THEN {"--quick"} ELSE {})
              \cup (CASE said("depth") = "thorough" -> {"--seconds 6"} [] said("depth") = "custom" -> {"--seconds n"} [] OTHER -> {})
              \cup ticked("extras")
              \cup (IF "--no-save" \in ticked("reports") THEN {"--no-save"} ELSE ticked("reports"))
         [] flow = "watch" ->
              {k, standing["duration"]} \cup (ticked("options") \ {"suite first"})
              \cup (IF k # "--monitor" /\ "suite first" \notin ticked("options") THEN {"--only", "--quick"} ELSE {})
         [] flow = "network" ->
              (CASE k \in {"--network-host", "--net-client"} -> {k, standing["host"]} [] k = "loopback" -> {} [] OTHER -> {k})
              \cup (IF k \in {"--network-host", "loopback"} THEN {"--only", "--quick"} ELSE {})
         [] flow = "health" -> IF k = "ram" THEN {"--health", standing["size"], "--only", "--quick"} ELSE {"--stats"}

(* "The confirmation screen [...] prints the exact command line it         *)
(* assembled" (wizard.py 19): what runs is made of the answers given on    *)
(* the way to it, in whatever order screens were answered, left, skipped   *)
(* and answered again; an answer of a way not taken leaves nothing behind. *)
CommandIsTheAnswers == status = "command" /\ flow \in {"benchmark", "watch", "network", "health"} => command = Meant

(* "No answer is a trap, because every screen goes back" (wizard.py 16):   *)
(* who does nothing but go back comes to the main menu, also over screens  *)
(* that are skipped.                                                       *)
BackLeadsOut == leaving ~> (flow = "main" \/ status # "asking")

-----------------------------------------------------------------------------
(* Stated elsewhere, and not so.                                           *)

(* "Returns the argv to run, or None to do nothing" (wizard.py 877).       *)
MenuReturns == status # "raised"

(* "Nothing starts until the confirmation screen is accepted" (wizard.py   *)
(* 17).                                                                    *)
NothingUnconfirmed == status = "command" => Step = "confirm"
=============================================================================
