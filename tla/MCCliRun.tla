------------------------------ MODULE MCCliRun ------------------------------
(***************************************************************************)
(* One invocation, for TLC: main (CliRun), the checkup that one of its     *)
(* modes is (Checkup), or a question of the menu that it starts with       *)
(* (Widgets). One of them is looked at in a behaviour; the others stand    *)
(* still.                                                                  *)
(***************************************************************************)
EXTENDS CliRun, FiniteSets

CONSTANTS Subjects, Machines, Counts, Room, MaxKeys

VARIABLES
    subject,
    platform, measure, troubles, broken, at, stage, warm, evidence, absent, findings, verdict,
    widget, count, anything, typing, wire, rest, taken, keys, pressed, heard, cut, cursor, marked, typed, status, answer

K == INSTANCE Checkup WITH pc <- stage
W == INSTANCE Widgets

ASSUME ScreensAssumption == Counts \subseteq Nat \ {0} /\ Counts # {} /\ Room \in Nat \ {0} /\ MaxKeys \in Nat

checkup == <<platform, measure, troubles, broken, at, stage, warm, evidence, absent, findings, verdict>>
screen ==
    <<widget, count, anything, typing, wire, rest, taken, keys, pressed, heard, cut, cursor, marked, typed, status, answer>>
allVars == <<subject, vars, checkup, screen>>

CheckupStill == platform = "Linux" /\ measure = FALSE /\ troubles = {} /\ broken = {}
ScreenStill == widget = "select" /\ count = (CHOOSE n \in Counts : TRUE) /\ typing = TRUE
AllInit ==
    /\ subject \in Subjects
    /\ Init /\ (subject # "checkup" => CheckupStill)
    /\ (\E m \in Machines : troubles = m.troubles /\ broken = m.broken) /\ K!Init
    /\ (subject # "screen" => ScreenStill) /\ W!Init

Invokes == subject = "main" /\ Next /\ UNCHANGED <<subject, checkup, screen>>
ChecksUp == subject = "checkup" /\ K!Next /\ UNCHANGED <<subject, vars, screen>>
Asks == subject = "screen" /\ W!Next /\ UNCHANGED <<subject, vars, checkup>>

AllNext == Invokes \/ ChecksUp \/ Asks
AllSpec == AllInit /\ [][AllNext]_allVars

\* What main does between its calls is owed; nothing makes a call return, the
\* other run leave its probe, or the user interrupt.
FairAll == AllSpec /\ WF_allVars(subject = "main" /\ ~Calls /\ main /\ UNCHANGED <<subject, checkup, screen>>)

-----------------------------------------------------------------------------
(* What slows the machine and could be known is reported (checkup.py       *)
(* 546-549, 1145-1153).                                                    *)
NoBadNewsIsLost == K!NoBadNewsIsLost

(* The machine is not blamed for the load of the measurement (checkup.py   *)
(* 1163-1169).                                                             *)
OwnLoadIsNotBlamed == K!OwnLoadIsNotBlamed

(* The sentence, and with it the exit status, says "cause" when there is   *)
(* one (checkup.py 1182-1202).                                             *)
VerdictIsTheWorst == K!VerdictIsTheWorst

(* What a screen returns is what its user chose (tui.py 126-155, 244-516). *)
AnswersAreTheUsers == W!AnswersAreTheUsers

-----------------------------------------------------------------------------
(* Machines: sound, or with two troubles, two parts that fail, or one each. *)
Sound == {[troubles |-> {}, broken |-> {}]}

UpToTwo(S) == {{}} \cup {{s, t} : s, t \in S}
SomeMachines ==
    {m \in [troubles : UpToTwo(K!Facts), broken : UpToTwo(K!Parts)] :
        Cardinality(m.troubles) + Cardinality(m.broken) <= 2}

-----------------------------------------------------------------------------
(* Invocations.                                                            *)
Unsaid == {{}}

HasValue == {"only", "profile", "skip", "sustained", "soak", "assert", "fail_under", "io_job", "stats",
             "init_config", "monitor", "compare_runs", "config"}
Typable(F) == {<<"typed", f, "good">> : f \in F}
              \cup {<<"typed", f, v>> : f \in F \cap HasValue, v \in {"default", "bad"}}
Settable(F) == {<<s, f, v>> : s \in {"env", "file"}, f \in F, v \in {"default", "good", "bad"}}

InPairs == {"force", "no_save", "json_stdout", "only", "profile", "skip", "assert", "fail_under", "io_job",
            "soak", "compare", "stats", "checkup", "menu", "no_menu", "no_config", "no_plugins"}
Statements == Typable(InPairs) \cup Settable({"soak", "force", "fail_under"})
Consistent(S) == \A s, t \in S : s[1] = t[1] /\ s[2] = t[2] => s = t

\* Nothing, any one flag, and two settings of those that meet in main.
SomeInvocations ==
    {{}} \cup {{s} : s \in Typable(Flags) \cup Settable(Keys)}
    \cup {S \in {{s, t} : s, t \in Statements} : Consistent(S)}

\* Of the command lines the menu assembles (module Wizard).
SomeChoices == {{}, {"quick"}, {"checkup"}, {"stats"}, {"soak", "only", "quick"}}
=============================================================================
