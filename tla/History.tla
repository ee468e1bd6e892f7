------------------------------ MODULE History ------------------------------
(***************************************************************************)
(* benchmarks.csv, the history of a results directory, and the archives    *)
(* made of it: what the end of each run does to them (the save block of    *)
(* cli.main, with save_json and append_csv of report.py), for runs of      *)
(* several versions of the program, one after the other or at once.        *)
(*                                                                         *)
(* A file is identified by the run that created it, so that a name and a   *)
(* descriptor are told apart: a file can be renamed while it is open.      *)
(***************************************************************************)
EXTENDS Integers, SequencesExt

CONSTANTS
    Runs,
    SchemaOf,   \* the columns of the version of each run
    Seconds     \* bound: the clock, in the whole seconds of a timestamp

ASSUME HistoryAssumption == Seconds \in Nat /\ "none" \notin Runs

None == "none"

VARIABLES
    pc,         \* where each run is
    now,        \* the clock
    stamp,      \* timestamp_utc of each run's payload
    fresh,      \* runs that found no file, and will write a header
    fd,         \* the file each run has open for appending
    csv,        \* the file named benchmarks.csv, or None
    baks,       \* the files named benchmarks.csv.<stamp>.bak, or None
    lines,      \* the lines of each file
    rotated,    \* runs that archived a file
    overlap,    \* two runs were in append_csv at the same time
    broken      \* an append ended between its open and its flush

vars == <<pc, now, stamp, fresh, fd, csv, baks, lines, rotated, overlap, broken>>

Header(r) == <<"header", SchemaOf[r]>>
Row(r) == <<"row", SchemaOf[r], r>>

Appending == {"look", "read", "rotate", "exists", "open", "flush"}
Saving == Appending \cup {"json"}

TypeOK ==
    /\ pc \in [Runs -> Saving \cup {"idle", "saved", "failed", "dead"}]
    /\ now \in 0 .. Seconds /\ stamp \in [Runs -> 0 .. Seconds]
    /\ fresh \subseteq Runs /\ rotated \subseteq Runs
    /\ fd \in [Runs -> Runs \cup {None}]
    /\ csv \in Runs \cup {None} /\ baks \in [0 .. Seconds -> Runs \cup {None}]
    /\ \A f \in Runs : Len(lines[f]) <= 2 * Cardinality(Runs)
    /\ csv # None => \A s \in 0 .. Seconds : baks[s] # csv
    /\ overlap \in BOOLEAN /\ broken \in BOOLEAN

Init ==
    /\ pc = [r \in Runs |-> "idle"]
    /\ now = 0 /\ stamp = [r \in Runs |-> 0]
    /\ fresh = {} /\ rotated = {}
    /\ fd = [r \in Runs |-> None]
    /\ csv = None /\ baks = [s \in 0 .. Seconds |-> None]
    /\ lines = [r \in Runs |-> <<>>]
    /\ overlap = FALSE /\ broken = FALSE

Goto(r, l) == pc' = [pc EXCEPT ![r] = l]

Tick == now < Seconds /\ now' = now + 1
        /\ UNCHANGED <<pc, stamp, fresh, fd, csv, baks, lines, rotated, overlap, broken>>

\* The payload is complete and gets its timestamp.
Finish(r) ==
    /\ pc[r] = "idle"
    /\ stamp' = [stamp EXCEPT ![r] = now]
    /\ Goto(r, "json")
    /\ UNCHANGED <<now, fresh, fd, csv, baks, lines, rotated, overlap, broken>>

\* save_json comes first in the same try block: its OSError skips append_csv.
SaveJson(r) ==
    /\ pc[r] = "json"
    /\ \/ Goto(r, "look") /\ overlap' = (overlap \/ \E q \in Runs : pc[q] \in Appending)
       \/ Goto(r, "failed") /\ UNCHANGED overlap
    /\ UNCHANGED <<now, stamp, fresh, fd, csv, baks, lines, rotated, broken>>

Look(r) ==
    /\ pc[r] = "look"
    /\ Goto(r, IF csv = None THEN "exists" ELSE "read")
    /\ UNCHANGED <<now, stamp, fresh, fd, csv, baks, lines, rotated, overlap, broken>>

NeverMismatched(r) == FALSE
Mismatched(r) == lines[csv] # <<>> /\ Head(lines[csv]) # Header(r)

ReadHeader(r) ==
    /\ pc[r] = "read"
    /\ Goto(r, IF csv = None THEN "failed" ELSE IF Mismatched(r) THEN "rotate" ELSE "exists")
    /\ UNCHANGED <<now, stamp, fresh, fd, csv, baks, lines, rotated, overlap, broken>>

OneName(r) == 0
ArchiveName(r) == stamp[r]

NameAfterReplace == None

\* os.replace overwrites an archive of that name.
Rotate(r) ==
    /\ pc[r] = "rotate"
    /\ IF csv = None
       THEN Goto(r, "failed") /\ UNCHANGED <<csv, baks, rotated>>
       ELSE /\ baks' = [baks EXCEPT ![ArchiveName(r)] = csv]
            /\ csv' = NameAfterReplace
            /\ rotated' = rotated \cup {r}
            /\ Goto(r, "exists")
    /\ UNCHANGED <<now, stamp, fresh, fd, lines, overlap, broken>>

Exists(r) ==
    /\ pc[r] = "exists"
    /\ fresh' = IF csv = None THEN fresh \cup {r} ELSE fresh
    /\ Goto(r, "open")
    /\ UNCHANGED <<now, stamp, fd, csv, baks, lines, rotated, overlap, broken>>

\* open(path, "a") creates the file, empty, when there is none.
Open(r) ==
    /\ pc[r] = "open"
    /\ csv' = IF csv = None THEN r ELSE csv
    /\ fd' = [fd EXCEPT ![r] = csv']
    /\ Goto(r, "flush")
    /\ UNCHANGED <<now, stamp, fresh, baks, lines, rotated, overlap, broken>>

HeaderIfFresh(r) == IF r \in fresh THEN <<Header(r)>> ELSE <<>>

\* Header and row stay in the buffer of the file object until it is closed.
Flush(r) ==
    /\ pc[r] = "flush"
    /\ lines' = [lines EXCEPT ![fd[r]] = @ \o HeaderIfFresh(r) \o <<Row(r)>>]
    /\ fd' = [fd EXCEPT ![r] = None]
    /\ Goto(r, "saved")
    /\ UNCHANGED <<now, stamp, fresh, csv, baks, rotated, overlap, broken>>

\* No space is left: main reports the OSError and goes on.
FlushFails(r) ==
    /\ pc[r] = "flush"
    /\ broken' = TRUE
    /\ fd' = [fd EXCEPT ![r] = None]
    /\ Goto(r, "failed")
    /\ UNCHANGED <<now, stamp, fresh, csv, baks, lines, rotated, overlap>>

Kill(r) ==
    /\ pc[r] \in Saving
    /\ broken' = (broken \/ pc[r] = "flush")
    /\ fd' = [fd EXCEPT ![r] = None]
    /\ Goto(r, "dead")
    /\ UNCHANGED <<now, stamp, fresh, csv, baks, lines, rotated, overlap>>

Over == (\A r \in Runs : pc[r] \in {"saved", "failed", "dead"}) /\ UNCHANGED vars

append_csv(r) ==
    Look(r) \/ ReadHeader(r) \/ Rotate(r) \/ Exists(r) \/ Open(r) \/ Flush(r) \/ FlushFails(r)

Next ==
    \/ \E r \in Runs : Finish(r) \/ SaveJson(r) \/ append_csv(r) \/ Kill(r)
    \/ Tick \/ Over

Spec == Init /\ [][Next]_vars

-----------------------------------------------------------------------------
Listed == ({csv} \cup {baks[s] : s \in DOMAIN baks}) \ {None}

\* What load_history reads from it: one header, and rows that belong to it.
Whole(f) ==
    lines[f] # <<>> =>
        /\ Head(lines[f])[1] = "header"
        /\ \A i \in 2 .. Len(lines[f]) :
              lines[f][i][1] = "row" /\ lines[f][i][2] = Head(lines[f])[2]

(* "Appending new columns to a file written by an older version would      *)
(* silently misalign every row" (report.py 1156): no row stands under      *)
(* another version's header, whatever order versions run in and wherever   *)
(* they are killed, unless two runs append at once or an append is cut     *)
(* between its open and its flush.                                         *)
RowsUnderTheirHeader == ~overlap /\ ~broken => \A f \in Listed : Whole(f)

(* A run that said it saved its row finds it in the history or an archive  *)
(* for ever, however runs of several versions overlap and rename the file  *)
(* under each other, unless two of them archive in the same second.        *)
SavedIsKept ==
    \A r \in Runs : pc[r] = "saved" =>
        \/ \E f \in Listed : Contains(lines[f], Row(r))
        \/ \E p, q \in rotated : p # q /\ stamp[p] = stamp[q]

-----------------------------------------------------------------------------
(* docs/packages.md 597: benchmarks.csv has "One row per run, for          *)
(* comparison"; here of runs that never overlap.                           *)
HistoryReadsBack == ~overlap => \A f \in Listed : Whole(f)
=============================================================================
