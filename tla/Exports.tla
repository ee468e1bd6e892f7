------------------------------ MODULE Exports ------------------------------
(***************************************************************************)
(* The exports that runs were asked for by name (export.py), in the order  *)
(* main writes them, when several runs have the same targets: a file that  *)
(* a collector reads on a schedule of its own, a database, and two files   *)
(* that are written in place. Any of them can fail, and a run can be       *)
(* killed in the middle of each.                                           *)
(*                                                                         *)
(* A file is the run that wrote it last and whether it wrote all of it.    *)
(***************************************************************************)
EXTENDS Naturals

CONSTANTS
    Runs,
    Pids        \* process ids; that of a run that has ended may come back

NoRun == "none"
None == [of |-> NoRun, whole |-> FALSE]
Part(r) == [of |-> r, whole |-> FALSE]
All(r) == [of |-> r, whole |-> TRUE]

VARIABLES
    at,         \* where each run is
    pid,
    temps,      \* the files named <path>.tmp<pid>
    prom,       \* the file that is scraped
    writer,     \* the run that holds the database's write lock
    pending,    \* rows of a transaction
    rows,       \* rows that are committed
    summary,    \* the Markdown file
    junit,
    told        \* what each run said it wrote

vars == <<at, pid, temps, prom, writer, pending, rows, summary, junit, told>>
files == <<temps, prom>>
database == <<writer, pending, rows>>
inPlace == <<summary, junit>>

Ended == {"over", "raised", "dead"}
Live == {r \in Runs : at[r] \notin Ended \cup {"idle"}}

Init ==
    /\ at = [r \in Runs |-> "idle"] /\ pid \in [Runs -> Pids]
    /\ temps = [p \in Pids |-> None] /\ prom = None
    /\ writer = NoRun /\ pending = [r \in Runs |-> {}] /\ rows = [r \in Runs |-> {}]
    /\ summary = None /\ junit = None
    /\ told = [r \in Runs |-> {}]

Goto(r, l) == at' = [at EXCEPT ![r] = l]
Tell(r, label) == told' = [told EXCEPT ![r] = @ \cup {label}]

Start(r) ==
    /\ at[r] = "idle" /\ \A q \in Live : pid[q] # pid[r]
    /\ Goto(r, "prom") /\ UNCHANGED <<pid, files, database, inPlace, told>>

\* The target was not asked for.
After == [prom |-> "sqlite", sqlite |-> "md", md |-> "junit", junit |-> "over"]
Skip(r) ==
    /\ at[r] \in DOMAIN After /\ Goto(r, After[at[r]])
    /\ UNCHANGED <<pid, files, database, inPlace, told>>

-----------------------------------------------------------------------------
(* save_prometheus.                                                        *)

OneTemp(r) == CHOOSE p \in Pids : TRUE
Temp(r) == pid[r]

OpenTemp(r) ==
    /\ at[r] = "prom"
    /\ temps' = [temps EXCEPT ![Temp(r)] = Part(r)] /\ Goto(r, "write")
    /\ UNCHANGED <<pid, prom, database, inPlace, told>>

WriteTemp(r) ==
    /\ at[r] = "write"
    /\ temps' = [temps EXCEPT ![Temp(r)] = All(r)] /\ Goto(r, "replace")
    /\ UNCHANGED <<pid, prom, database, inPlace, told>>

Replace(r) ==
    /\ at[r] = "replace" /\ temps[Temp(r)] # None
    /\ prom' = temps[Temp(r)] /\ temps' = [temps EXCEPT ![Temp(r)] = None]
    /\ Tell(r, "PROM") /\ Goto(r, "sqlite")
    /\ UNCHANGED <<pid, database, inPlace>>

\* Whichever of the three raised, the temporary file stays as it is.
PromFails(r) ==
    /\ at[r] \in {"prom", "write", "replace"} /\ Goto(r, "sqlite")
    /\ UNCHANGED <<pid, files, database, inPlace, told>>

save_prometheus(r) == OpenTemp(r) \/ WriteTemp(r) \/ Replace(r) \/ PromFails(r)

-----------------------------------------------------------------------------
(* save_sqlite. The first INSERT begins a transaction, and takes the lock  *)
(* that only one connection has; another waits for five seconds.           *)

Autocommit == {"run"}
BeforeCommit == {}

Schema(r) == at[r] = "sqlite" /\ Goto(r, "insert") /\ UNCHANGED <<pid, files, database, inPlace, told>>

InsertRun(r) ==
    /\ at[r] = "insert" /\ writer = NoRun
    /\ writer' = r /\ pending' = [pending EXCEPT ![r] = {"run"}]
    /\ rows' = [rows EXCEPT ![r] = BeforeCommit]
    /\ Goto(r, "metrics") /\ UNCHANGED <<pid, files, inPlace, told>>

InsertMetrics(r) ==
    /\ at[r] = "metrics"
    /\ pending' = [pending EXCEPT ![r] = @ \cup {"metrics"}]
    /\ Goto(r, "commit") /\ UNCHANGED <<pid, files, writer, rows, inPlace, told>>

Commit(r) ==
    /\ at[r] = "commit"
    /\ rows' = [rows EXCEPT ![r] = pending[r]]
    /\ pending' = [pending EXCEPT ![r] = {}] /\ writer' = NoRun
    /\ Tell(r, "SQLITE") /\ Goto(r, "md") /\ UNCHANGED <<pid, files, inPlace>>

\* What is not committed goes with the connection.
Release(r) ==
    /\ pending' = [pending EXCEPT ![r] = {}] /\ UNCHANGED rows
    /\ writer' = IF writer = r THEN NoRun ELSE writer

\* The file cannot be opened, the lock is not to be had, a reader keeps the
\* commit waiting, or the disk is full; conn.close() is in a finally.
SqliteFails(r) ==
    /\ at[r] \in {"sqlite", "insert", "metrics", "commit"}
    /\ Release(r) /\ Goto(r, "md") /\ UNCHANGED <<pid, files, inPlace, told>>

save_sqlite(r) == Schema(r) \/ InsertRun(r) \/ InsertMetrics(r) \/ Commit(r) \/ SqliteFails(r)

-----------------------------------------------------------------------------
(* save_markdown and save_junit open their target for writing.             *)

save_markdown(r) ==
    /\ \/ at[r] = "md" /\ summary' = Part(r) /\ Goto(r, "md write") /\ UNCHANGED told
       \/ at[r] = "md write" /\ summary' = All(r) /\ Tell(r, "MD") /\ Goto(r, "junit")
       \/ at[r] \in {"md", "md write"} /\ Goto(r, "junit") /\ UNCHANGED <<summary, told>>
    /\ UNCHANGED <<pid, files, database, junit>>

\* Anything but an OSError, such as text that has no encoding, leaves main.
save_junit(r) ==
    /\ \/ at[r] = "junit" /\ junit' = Part(r) /\ Goto(r, "junit write") /\ UNCHANGED told
       \/ at[r] = "junit write" /\ junit' = All(r) /\ Tell(r, "JUNIT") /\ Goto(r, "over")
       \/ at[r] \in {"junit", "junit write"} /\ Goto(r, "over") /\ UNCHANGED <<junit, told>>
       \/ at[r] = "junit write" /\ Goto(r, "raised") /\ UNCHANGED <<junit, told>>
    /\ UNCHANGED <<pid, files, database, summary>>

Kill(r) ==
    /\ r \in Live /\ Release(r) /\ Goto(r, "dead")
    /\ UNCHANGED <<pid, files, inPlace, told>>

Over == (\A r \in Runs : at[r] \in Ended) /\ UNCHANGED vars

Next ==
    \/ \E r \in Runs :
          Start(r) \/ Skip(r) \/ save_prometheus(r) \/ save_sqlite(r) \/ save_markdown(r) \/ save_junit(r) \/ Kill(r)
    \/ Over
Spec == Init /\ [][Next]_vars

-----------------------------------------------------------------------------
(* "A textfile collector scrapes on its own schedule and will happily read *)
(* a half-written file" (export.py 129): it never finds one. Nor does a    *)
(* query find a run without its metrics (257-298), whenever runs are       *)
(* killed and whatever process id comes back; and what a run said it wrote *)
(* is there, or replaced by what another run wrote.                        *)
ExportsAreWhole ==
    /\ prom # None => prom.whole
    /\ \A r \in Runs :
          /\ rows[r] \in {{}, {"run", "metrics"}}
          /\ "SQLITE" \in told[r] => rows[r] # {}
          /\ "PROM" \in told[r] => prom # None

(* The two files that are written in place can be read when they are whole *)
(* only: a run that is killed leaves the last report in part.              *)
ReportsAreWhole == \A f \in {summary, junit} : f # None => f.whole
=============================================================================
