------------------------------ MODULE MCHistory ------------------------------
(***************************************************************************)
(* What the ends of runs write, for TLC: the history of a results          *)
(* directory (History), what a run is told from it (Regression), and the   *)
(* exports (Exports). One of the three is looked at in a behaviour; the    *)
(* others stand still.                                                     *)
(***************************************************************************)
EXTENDS History

CONSTANTS MaxRuns, Exporters, Pids

ASSUME Bounds == MaxRuns \in Nat /\ Exporters # {} /\ Pids # {}

VARIABLES
    subject, history, worn, accused,
    at, pid, temps, prom, writer, pending, rows, summary, junit, told

R == INSTANCE Regression
X == INSTANCE Exports WITH Runs <- Exporters

verdicts == <<history, worn, accused>>
exports == <<at, pid, temps, prom, writer, pending, rows, summary, junit, told>>
allVars == <<subject, vars, verdicts, exports>>

\* One run has a newer version than the others.
TwoVersions == [r \in Runs |-> IF r = CHOOSE n \in Runs : TRUE THEN "new" ELSE "old"]

ExportsStill == pid = [r \in Exporters |-> CHOOSE p \in Pids : TRUE]
AllInit ==
    /\ subject \in {"written", "told", "exported"}
    /\ Init /\ R!Init
    /\ (subject # "exported" => ExportsStill) /\ X!Init

Enough == Len(history) = MaxRuns /\ UNCHANGED verdicts
Writes == subject = "written" /\ Next /\ UNCHANGED <<subject, verdicts, exports>>
Tells == subject = "told" /\ (R!Next \/ Enough) /\ UNCHANGED <<subject, vars, exports>>
Exporting == subject = "exported" /\ X!Next /\ UNCHANGED <<subject, vars, verdicts>>

AllNext == Writes \/ Tells \/ Exporting
AllSpec == AllInit /\ [][AllNext]_allVars

-----------------------------------------------------------------------------
(* A machine that has not changed is not accused in any test (regression.py *)
(* 32-51, 120-124).                                                        *)
SteadyIsNotAccused == R!SteadyIsNotAccused

(* A drive that lost half its speed is accused (regression.py 170-178).    *)
LossIsSeen == R!LossIsSeen

(* What collectors and queries find is whole, and what was reported as     *)
(* written is there (export.py 126-137, 257-298).                          *)
ExportsAreWhole == X!ExportsAreWhole

(* regression.py 121-124: "a changed --disk-mb never masquerades as        *)
(* failing hardware"; here of all columns, the composite among them.       *)
SettingsAreNoRegression == R!SettingsAreNoRegression
=============================================================================
