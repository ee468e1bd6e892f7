----------------------------- MODULE Regression -----------------------------
(***************************************************************************)
(* regression.analyze: a run against the earlier rows of its machine, once *)
(* per run, and what that makes of runs with other settings, another       *)
(* selection of tests, a busy moment or a drive that wears out.            *)
(*                                                                         *)
(* A column stands for those with the same dependencies; speeds are whole  *)
(* numbers. Runs have timestamps of their own.                             *)
(***************************************************************************)
EXTENDS Naturals, Sequences, FiniteSets

CONSTANT MaxRuns    \* bound: runs that are made

VARIABLES
    history,    \* the rows, oldest first
    worn,       \* the drive has lost half its speed
    accused     \* the columns that the last run was said to regress in

vars == <<history, worn, accused>>

Measured == {"disk", "cpu", "gpu"}
Columns == Measured \cup {"composite"}
Settings == {"disk_mb", "method_version", "python_version"}

CONFIG_DEPS ==
    [disk |-> {"disk_mb", "method_version"}, cpu |-> {"python_version"}, gpu |-> {},
     composite |-> {"method_version"}]
SELECTION_DEPS == {"composite"}

-----------------------------------------------------------------------------
(* A row: what was set (a setting that differs from the usual one), what   *)
(* ran, how fast it was, and, which no column tells, the moment.           *)

\* What the speed of a test depends on, besides the machine.
Affects == [disk |-> {"disk_mb", "method_version"}, cpu |-> {"python_version"}, gpu |-> {}]

AtRest(c, changed, aged) ==
    LET set == IF changed \cap Affects[c] # {} THEN 240 ELSE 400
    IN  IF c = "disk" /\ aged THEN set \div 2 ELSE set

Speed(c, changed, moment) ==
    LET v == AtRest(c, changed, worn)
    IN  CASE moment = "quiet" -> v [] moment = "busy" -> v \div 2 [] moment = "cool" -> (3 * v) \div 2

\* The composite grows with each of its parts, over those there are.
Composite(v, ran) ==
    LET sum == (IF "disk" \in ran THEN v["disk"] ELSE 0) + (IF "cpu" \in ran THEN v["cpu"] ELSE 0)
                 + (IF "gpu" \in ran THEN v["gpu"] ELSE 0)
    IN  sum \div Cardinality(ran)

flatten_row(host, changed, ran, moment) ==
    LET v == [c \in Measured |-> IF c \in ran THEN Speed(c, changed, moment) ELSE 0]
    IN  [hostname |-> host, changed |-> changed, moment |-> moment, worn |-> worn,
         value |-> [c \in Columns |-> IF c = "composite" THEN Composite(v, ran) ELSE v[c]]]

selection(r) == {c \in Measured : r.value[c] > 0}

\* Not every moment with every selection.
Rows ==
    LET changes == {{}} \cup {{s} : s \in Settings}
    IN  {flatten_row("h", ch, Measured, m) : ch \in changes, m \in {"quiet", "busy", "cool"}}
          \cup {flatten_row("h", ch, {"disk"}, "quiet") : ch \in changes}
          \cup {flatten_row("other", {}, Measured, "cool")}

-----------------------------------------------------------------------------
SameHost(rows, r) == {i \in DOMAIN rows : rows[i].hostname = r.hostname}

AnyConfig(c, q, r) == TRUE
SameConfig(c, q, r) == \A d \in CONFIG_DEPS[c] : d \in q.changed <=> d \in r.changed

\* The values of _baseline's candidates, by the place of their row.
Candidates(c, r, rows) ==
    LET these == {i \in SameHost(rows, r) :
                    /\ SameConfig(c, rows[i], r)
                    /\ c \in SELECTION_DEPS => selection(rows[i]) = selection(r)
                    /\ rows[i].value[c] > 0}
    IN  [i \in these |-> rows[i].value[c]]

\* The k-th smallest of the values, and the middle one.
Nth(f, k) ==
    CHOOSE v \in {f[i] : i \in DOMAIN f} :
        /\ Cardinality({i \in DOMAIN f : f[i] < v}) < k
        /\ k <= Cardinality({i \in DOMAIN f : f[i] <= v})
Median(f) ==
    LET n == Cardinality(DOMAIN f)
        h == n \div 2
    IN  IF n % 2 = 1 THEN Nth(f, h + 1) ELSE (Nth(f, h) + Nth(f, h + 1)) \div 2

Distance(a, b) == IF a > b THEN a - b ELSE b - a
Widest(f) == Nth(f, Cardinality(DOMAIN f)) - Nth(f, 1)
Mad(f) == LET centre == Median(f) IN Median([i \in DOMAIN f |-> Distance(f[i], centre)])

MIN_RUNS_FOR_SPREAD == 3

\* The threshold is 10 %; SPREAD_MULTIPLIER times 1.4826 is 4.4478.
Regressed(c, r, rows) ==
    LET vals == Candidates(c, r, rows)
        now == r.value[c]
        was == Median(vals)
    IN  /\ now > 0 /\ DOMAIN vals # {}
        /\ now < was /\ 10 * (was - now) >= was
        /\ Cardinality(DOMAIN vals) >= MIN_RUNS_FOR_SPREAD => 10000 * (was - now) >= 44478 * Mad(vals)

analyze(r, rows) == {c \in Columns : Regressed(c, r, rows)}

Init == history = <<>> /\ worn = FALSE /\ accused = {}

\* main reads the history, analyses, and appends its row at the end.
Run(r) ==
    /\ Len(history) < MaxRuns
    /\ accused' = analyze(r, history)
    /\ history' = Append(history, r)
    /\ UNCHANGED worn

WearsOut ==
    /\ ~worn /\ history # <<>> /\ Len(history) < MaxRuns
    /\ worn' = TRUE /\ accused' = {}
    /\ UNCHANGED history

Next == (\E r \in Rows : Run(r)) \/ WearsOut

-----------------------------------------------------------------------------
Last == history[Len(history)]

\* The earlier runs of this machine that were made like the last one, as far
\* as the speed of c goes, and those of them that nothing disturbed.
Like(c) ==
    {i \in 1 .. Len(history) - 1 :
        /\ history[i].hostname = Last.hostname /\ history[i].value[c] > 0
        /\ history[i].changed \cap Affects[c] = Last.changed \cap Affects[c]}
Undisturbed(c) == {i \in Like(c) : history[i].moment = "quiet" /\ (c = "disk" => ~history[i].worn)}
Mostly(c) == 2 * Cardinality(Undisturbed(c)) > Cardinality(Like(c))

Judged == history # <<>> /\ Last.moment = "quiet"

(* A machine that has not changed is not accused in any test, whatever     *)
(* mixture of settings, selections and machines its history holds, as long *)
(* as most of the runs that were like this one were undisturbed            *)
(* (regression.py 32-51, 120-124).                                         *)
SteadyIsNotAccused ==
    Judged => \A c \in Measured : (c = "disk" => ~Last.worn) /\ (Like(c) = {} \/ Mostly(c)) => c \notin accused

(* A drive that lost half its speed is accused by the first undisturbed    *)
(* run, under the same condition: an outlier in a short history neither    *)
(* moves the baseline nor widens what passes for normal (regression.py     *)
(* 120, 170-178).                                                          *)
LossIsSeen ==
    Judged /\ Last.worn /\ Last.value["disk"] > 0 /\ Mostly("disk") => "disk" \in accused

-----------------------------------------------------------------------------
(* The same for the composite, of runs that were never disturbed, with     *)
(* regression.py 121-124: "a changed --disk-mb never masquerades as        *)
(* failing hardware". The composite is compared across --disk-mb and       *)
(* interpreters, although its parts are not.                               *)
SettingsAreNoRegression ==
    (\A i \in DOMAIN history : history[i].moment = "quiet") /\ ~worn => accused = {}
=============================================================================
