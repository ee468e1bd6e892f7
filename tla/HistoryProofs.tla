---------------------------- MODULE HistoryProofs ----------------------------
(***************************************************************************)
(* Theorems about what the ends of runs write, for any set of runs, any    *)
(* versions and any clock (History), a history of any length (Regression), *)
(* and any exporters and process ids (Exports).                            *)
(***************************************************************************)
EXTENDS MCHistory, FiniteSetTheorems, TLAPS

Places == Saving \cup {"idle", "saved", "failed", "dead"}
Entries == {Header(r) : r \in Runs} \cup {Row(r) : r \in Runs}

\* The types the proofs need.
Typed ==
    /\ pc \in [Runs -> Places]
    /\ now \in 0 .. Seconds /\ stamp \in [Runs -> 0 .. Seconds]
    /\ fresh \subseteq Runs /\ rotated \subseteq Runs
    /\ fd \in [Runs -> Runs \cup {None}]
    /\ csv \in Runs \cup {None} /\ baks \in [0 .. Seconds -> Runs \cup {None}]
    /\ lines \in [Runs -> Seq(Entries)]

\* Two runs archived in the same second.
Collision == \E p, q \in rotated : p # q /\ stamp[p] = stamp[q]

\* A run that has not come to archive a file, and one that has opened none.
Before == {"idle", "json", "look", "read", "rotate"}
Unopened == Before \cup {"exists", "open"}

\* Every archive was made by the run of its stamp, whose stamp is final.
Archived ==
    /\ \A s \in 0 .. Seconds : baks[s] # None => \E q \in rotated : stamp[q] = s
    /\ \A q \in rotated : pc[q] \notin Before

\* A file that is open, or holds a row that was saved, has a name.
HasName(f) == f \in Listed \/ Collision

Kept ==
    \A r \in Runs :
        /\ pc[r] = "flush" => fd[r] \in Runs /\ HasName(fd[r])
        /\ pc[r] = "saved" => \E f \in Runs : Contains(lines[f], Row(r)) /\ HasName(f)

-----------------------------------------------------------------------------
\* A run that has opened no file has created none.
Unborn ==
    \A r \in Runs : pc[r] \in Unopened =>
        /\ csv # r /\ lines[r] = <<>>
        /\ \A s \in 0 .. Seconds : baks[s] # r
        /\ \A q \in Runs : fd[q] # r

\* Runs that never overlap append one at a time.
Sole == ~overlap => \A p, q \in Runs : pc[p] \in Appending /\ pc[q] \in Appending => p = q

Headed(f, r) == lines[f] # <<>> /\ Head(lines[f]) = Header(r)

\* What the run that is appending knows of the file.
Knows(r) ==
    /\ r \in fresh => pc[r] \notin Before \cup {"exists"}
    /\ pc[r] = "rotate" => csv # None /\ lines[csv] # <<>>
    /\ pc[r] = "exists" => csv = None \/ Headed(csv, r)
    /\ pc[r] = "open" => IF r \in fresh THEN csv = None ELSE csv # None /\ Headed(csv, r)
    /\ pc[r] = "flush" =>
          /\ csv # None /\ fd[r] = csv
          /\ IF r \in fresh THEN lines[csv] = <<>> ELSE Headed(csv, r)

\* Only a file that is being written for the first time is empty.
Filled ==
    \A f \in Listed : lines[f] = <<>> => \E r \in Runs : pc[r] = "flush" /\ fd[r] = f

Orderly == ~overlap /\ ~broken =>
    /\ \A r \in Runs : Knows(r)
    /\ Filled
    /\ \A f \in Listed : Whole(f)

IInv == Typed /\ Archived /\ Kept
OInv == Typed /\ Unborn /\ Sole /\ Orderly

-----------------------------------------------------------------------------
(* No run is called what stands for no file.                               *)
LEMMA RunIsNotNone == None \notin Runs
  BY HistoryAssumption DEF None

(* What one run writes at the end of a file.                               *)
LEMMA Appended ==
    ASSUME Typed, NEW r \in Runs, NEW f \in Runs
    PROVE  /\ HeaderIfFresh(r) \in Seq(Entries) /\ <<Row(r)>> \in Seq(Entries)
           /\ lines[f] \o HeaderIfFresh(r) \o <<Row(r)>> \in Seq(Entries)
  <1>1. lines[f] \in Seq(Entries) /\ Header(r) \in Entries /\ Row(r) \in Entries
    BY DEF Typed, Entries
  <1>2. HeaderIfFresh(r) \in Seq(Entries) /\ <<Row(r)>> \in Seq(Entries)
    BY <1>1 DEF HeaderIfFresh
  <1> QED
    BY <1>1, <1>2

(* A step keeps the types, and moves at most one run.                      *)
LEMMA TypedStep ==
    ASSUME Typed, [Next]_vars
    PROVE  Typed'
  <1> USE DEF Typed
  <1>1. CASE UNCHANGED vars
    BY <1>1 DEF vars
  <1>2. CASE Tick \/ Over
    BY <1>2, HistoryAssumption DEF Tick, Over, vars
  <1>3. ASSUME NEW r \in Runs, Finish(r) \/ SaveJson(r) \/ Look(r) \/ ReadHeader(r) \/ Kill(r) PROVE Typed'
    <2>1. pc' \in [Runs -> Places]
      BY <1>3 DEF Finish, SaveJson, Look, ReadHeader, Kill, Goto, Places, Saving, Appending
    <2>2. stamp' \in [Runs -> 0 .. Seconds] /\ fd' \in [Runs -> Runs \cup {None}]
      BY <1>3 DEF Finish, SaveJson, Look, ReadHeader, Kill
    <2>3. UNCHANGED <<now, fresh, rotated, csv, baks, lines>>
      BY <1>3 DEF Finish, SaveJson, Look, ReadHeader, Kill
    <2> QED
      BY <2>1, <2>2, <2>3
  <1>4. ASSUME NEW r \in Runs, Rotate(r) \/ Exists(r) \/ Open(r) PROVE Typed'
    <2>1. pc' \in [Runs -> Places]
      BY <1>4 DEF Rotate, Exists, Open, Goto, Places, Saving, Appending
    <2>2. /\ csv' \in Runs \cup {None} /\ baks' \in [0 .. Seconds -> Runs \cup {None}]
          /\ fresh' \subseteq Runs /\ rotated' \subseteq Runs
      BY <1>4 DEF Rotate, Exists, Open, ArchiveName, NameAfterReplace
    <2>3. fd' \in [Runs -> Runs \cup {None}]
      BY <1>4, <2>2 DEF Rotate, Exists, Open
    <2>4. UNCHANGED <<now, stamp, lines>>
      BY <1>4 DEF Rotate, Exists, Open
    <2> QED
      BY <2>1, <2>2, <2>3, <2>4
  <1>5. ASSUME NEW r \in Runs, Flush(r) \/ FlushFails(r) PROVE Typed'
    <2>1. pc' \in [Runs -> Places] /\ fd' \in [Runs -> Runs \cup {None}]
      BY <1>5 DEF Flush, FlushFails, Goto, Places
    <2>2. UNCHANGED <<now, stamp, fresh, csv, baks, rotated>>
      BY <1>5 DEF Flush, FlushFails
    <2>3. lines' \in [Runs -> Seq(Entries)]
      <3>1. CASE FlushFails(r)
        BY <3>1 DEF FlushFails
      <3>2. CASE Flush(r) /\ fd[r] \in Runs
        <4>1. lines[fd[r]] \o HeaderIfFresh(r) \o <<Row(r)>> \in Seq(Entries)
          BY <3>2, Appended
        <4> QED
          BY <3>2, <4>1 DEF Flush
      <3>3. CASE Flush(r) /\ fd[r] \notin Runs
        BY <3>3 DEF Flush
      <3> QED
        BY <1>5, <3>1, <3>2, <3>3
    <2> QED
      BY <2>1, <2>2, <2>3
  <1> QED
    BY <1>1, <1>2, <1>3, <1>4, <1>5 DEF Next, append_csv

(* Only Flush changes a file, only its own, and it writes at the end.      *)
LEMMA LinesGrow ==
    ASSUME Typed, [Next]_vars, NEW f \in Runs
    PROVE  \/ lines'[f] = lines[f]
           \/ \E r \in Runs : /\ Flush(r) /\ fd[r] = f
                              /\ lines'[f] = lines[f] \o HeaderIfFresh(r) \o <<Row(r)>>
  <1>1. CASE \E r \in Runs : Flush(r)
    <2>1. PICK r \in Runs : Flush(r)
      BY <1>1
    <2>2. lines' = [lines EXCEPT ![fd[r]] = @ \o HeaderIfFresh(r) \o <<Row(r)>>]
      BY <2>1 DEF Flush
    <2>3. CASE fd[r] = f
      BY <2>1, <2>2, <2>3 DEF Typed
    <2>4. CASE fd[r] # f
      BY <2>2, <2>4 DEF Typed
    <2> QED
      BY <2>3, <2>4
  <1>2. CASE ~ \E r \in Runs : Flush(r)
    <2>1. lines' = lines
      BY <1>2 DEF Next, append_csv, Finish, SaveJson, Look, ReadHeader, Rotate, Exists, Open, FlushFails, Kill, Tick,
                  Over, vars
    <2> QED
      BY <2>1
  <1> QED
    BY <1>1, <1>2

(* A row that is in a file stays in it.                                    *)
LEMMA RowsStay ==
    ASSUME Typed, [Next]_vars, NEW f \in Runs, NEW e, Contains(lines[f], e)
    PROVE  Contains(lines'[f], e)
  <1>1. CASE lines'[f] = lines[f]
    BY <1>1 DEF Contains
  <1>2. ASSUME NEW r \in Runs, lines'[f] = lines[f] \o HeaderIfFresh(r) \o <<Row(r)>>
        PROVE  Contains(lines'[f], e)
    <2>1. lines[f] \in Seq(Entries) /\ HeaderIfFresh(r) \in Seq(Entries) /\ <<Row(r)>> \in Seq(Entries)
      BY Appended DEF Typed
    <2>2. PICK i \in 1 .. Len(lines[f]) : lines[f][i] = e
      BY DEF Contains
    <2>3. Len(lines'[f]) >= Len(lines[f]) /\ lines'[f][i] = lines[f][i]
      BY <1>2, <2>1, <2>2
    <2> QED
      BY <2>1, <2>2, <2>3 DEF Contains
  <1> QED
    BY <1>1, <1>2, LinesGrow

(* The archives of two runs of one second stay so, and the archives that   *)
(* are there stay those of the stamp they have.                            *)
LEMMA ArchivedStep ==
    ASSUME Typed, Archived, [Next]_vars
    PROVE  Archived' /\ (Collision => Collision') /\ rotated \subseteq rotated'
  <1>1. /\ rotated \subseteq rotated'
        /\ \A q \in rotated : stamp'[q] = stamp[q]
    <2>1. CASE \E r \in Runs : Finish(r)
      BY <2>1 DEF Finish, Archived, Before, Typed
    <2>2. CASE ~ \E r \in Runs : Finish(r)
      BY <2>2 DEF Next, append_csv, SaveJson, Look, ReadHeader, Rotate, Exists, Open, Flush, FlushFails, Kill, Tick,
                  Over, vars
    <2> QED
      BY <2>1, <2>2
  <1>2. Collision => Collision'
    BY <1>1 DEF Collision
  <1>3. Archived'
    <2>1. CASE \E r \in Runs : Rotate(r)
      <3>1. PICK r \in Runs : Rotate(r)
        BY <2>1
      <3>2. stamp' = stamp /\ pc' = [pc EXCEPT ![r] = pc'[r]] /\ pc'[r] \in {"exists", "failed"}
        BY <3>1 DEF Rotate, Goto, Typed
      <3>3. CASE csv = None
        BY <3>1, <3>2, <3>3 DEF Rotate, Archived, Before, Typed
      <3>4. CASE csv # None
        <4>1. /\ baks' = [baks EXCEPT ![stamp[r]] = csv] /\ rotated' = rotated \cup {r}
          BY <3>1, <3>4 DEF Rotate, ArchiveName
        <4>2. \A s \in 0 .. Seconds : baks'[s] # None => \E q \in rotated' : stamp'[q] = s
          BY <3>2, <4>1 DEF Archived, Typed
        <4>3. \A q \in rotated' : pc'[q] \notin Before
          BY <3>2, <4>1 DEF Archived, Typed, Before
        <4> QED
          BY <4>2, <4>3 DEF Archived
      <3> QED
        BY <3>3, <3>4
    <2>2. CASE ~ \E r \in Runs : Rotate(r)
      <3>1. rotated' = rotated /\ baks' = baks
        BY <2>2 DEF Next, append_csv, Finish, SaveJson, Look, ReadHeader, Exists, Open, Flush, FlushFails, Kill, Tick,
                    Over, vars
      <3>2. \A q \in Runs : pc[q] \notin Before => pc'[q] \notin Before
        <4>1. ASSUME NEW r \in Runs, Finish(r) \/ SaveJson(r) \/ Look(r) \/ ReadHeader(r)
              PROVE  \A q \in Runs : pc[q] \notin Before => pc'[q] \notin Before
          BY <4>1 DEF Finish, SaveJson, Look, ReadHeader, Goto, Before, Typed
        <4>2. ASSUME NEW r \in Runs, Exists(r) \/ Open(r) \/ Flush(r) \/ FlushFails(r) \/ Kill(r)
              PROVE  \A q \in Runs : pc[q] \notin Before => pc'[q] \notin Before
          BY <4>2 DEF Exists, Open, Flush, FlushFails, Kill, Goto, Before, Typed
        <4>3. CASE Tick \/ Over \/ UNCHANGED vars
          BY <4>3 DEF Tick, Over, vars
        <4> QED
          BY <2>2, <4>1, <4>2, <4>3 DEF Next, append_csv
      <3> QED
        BY <1>1, <3>1, <3>2 DEF Archived, Typed
    <2> QED
      BY <2>1, <2>2
  <1> QED
    BY <1>1, <1>2, <1>3

(* A name is lost only to an archive of the same second.                   *)
LEMMA NamesStay ==
    ASSUME Typed, Archived, [Next]_vars, NEW f \in Runs, HasName(f)
    PROVE  HasName(f)'
  <1>0. f # None
    BY RunIsNotNone
  <1>1. CASE Collision
    BY <1>1, ArchivedStep DEF HasName
  <1>2. CASE f \in Listed /\ \E r \in Runs : Rotate(r)
    <2>1. PICK r \in Runs : Rotate(r)
      BY <1>2
    <2>2. CASE csv = None
      BY <1>2, <2>1, <2>2 DEF Rotate, HasName, Listed
    <2>3. CASE csv # None
      <3>1. /\ baks' = [baks EXCEPT ![stamp[r]] = csv] /\ rotated' = rotated \cup {r} /\ stamp' = stamp
            /\ stamp[r] \in 0 .. Seconds /\ pc[r] = "rotate"
        BY <2>1, <2>3 DEF Rotate, ArchiveName, Typed
      <3>2. CASE f = csv
        <4>1. baks'[stamp[r]] = f /\ stamp[r] \in DOMAIN baks'
          BY <3>1, <3>2 DEF Typed
        <4> QED
          BY <1>0, <4>1 DEF HasName, Listed
      <3>3. ASSUME NEW s \in 0 .. Seconds, baks[s] = f, s # stamp[r] PROVE HasName(f)'
        <4>1. baks'[s] = f /\ s \in DOMAIN baks'
          BY <3>1, <3>3 DEF Typed
        <4> QED
          BY <1>0, <4>1 DEF HasName, Listed
      <3>4. CASE baks[stamp[r]] = f
        <4>1. PICK q \in rotated : stamp[q] = stamp[r]
          BY <1>0, <3>1, <3>4 DEF Archived
        <4>2. q # r
          BY <3>1 DEF Archived, Before
        <4> QED
          BY <3>1, <4>1, <4>2 DEF HasName, Collision
      <3>5. f = csv \/ \E s \in 0 .. Seconds : baks[s] = f
        BY <1>2 DEF Listed, Typed
      <3> QED
        BY <3>2, <3>3, <3>4, <3>5
    <2> QED
      BY <2>2, <2>3
  <1>3. CASE f \in Listed /\ ~ \E r \in Runs : Rotate(r)
    <2>1. baks' = baks /\ (csv' = csv \/ csv = None)
      BY <1>3 DEF Next, append_csv, Finish, SaveJson, Look, ReadHeader, Exists, Open, Flush, FlushFails, Kill, Tick,
                  Over, vars
    <2> QED
      BY <1>0, <1>3, <2>1 DEF HasName, Listed
  <1> QED
    BY <1>1, <1>2, <1>3 DEF HasName

(* A file that is written to, and one that holds a saved row, keep a name. *)
LEMMA KeptStep ==
    ASSUME IInv, [Next]_vars
    PROVE  Kept'
  <1> USE DEF IInv
  <1> SUFFICES ASSUME NEW r \in Runs
               PROVE  /\ pc'[r] = "flush" => fd'[r] \in Runs /\ HasName(fd[r])'
                      /\ pc'[r] = "saved" => \E f \in Runs : Contains(lines'[f], Row(r)) /\ HasName(f)'
    BY DEF Kept, Row
  <1>1. CASE Open(r)
    <2>1. csv' \in Runs /\ fd'[r] = csv' /\ pc'[r] = "flush"
      BY <1>1, RunIsNotNone DEF Open, Goto, Typed
    <2>2. csv' \in Listed'
      BY <2>1, RunIsNotNone DEF Listed
    <2> QED
      BY <2>1, <2>2 DEF HasName
  <1>2. CASE Flush(r)
    <2>1. fd[r] \in Runs /\ HasName(fd[r]) /\ pc'[r] = "saved"
      BY <1>2 DEF Kept, Flush, Goto, Typed
    <2>2. HasName(fd[r]) => (\A f \in Runs : f = fd[r] => HasName(f)')
      BY <2>1, NamesStay
    <2>3. lines'[fd[r]] = lines[fd[r]] \o HeaderIfFresh(r) \o <<Row(r)>>
      BY <1>2, <2>1 DEF Flush, Typed
    <2>4. /\ lines[fd[r]] \in Seq(Entries) /\ HeaderIfFresh(r) \in Seq(Entries) /\ <<Row(r)>> \in Seq(Entries)
          /\ Len(<<Row(r)>>) = 1
      BY <2>1, Appended DEF Typed
    <2>5. /\ Len(lines'[fd[r]]) \in 1 .. Len(lines'[fd[r]])
          /\ lines'[fd[r]][Len(lines'[fd[r]])] = Row(r)
      BY <2>3, <2>4
    <2>6. Contains(lines'[fd[r]], Row(r))
      BY <2>5 DEF Contains
    <2> QED
      BY <2>1, <2>2, <2>6
  <1>3. CASE ~Open(r) /\ ~Flush(r)
    <2>1. /\ pc'[r] = "flush" => pc[r] = "flush" /\ fd'[r] = fd[r]
          /\ pc'[r] = "saved" => pc[r] = "saved"
      <3>1. CASE Tick \/ Over \/ UNCHANGED vars
        BY <3>1 DEF Tick, Over, vars
      <3>2. ASSUME NEW q \in Runs, q # r, Open(q) \/ Flush(q) \/ FlushFails(q) \/ Kill(q)
            PROVE  pc'[r] = pc[r] /\ fd'[r] = fd[r]
        BY <3>2 DEF Open, Flush, FlushFails, Kill, Goto, Typed
      <3>3. ASSUME NEW q \in Runs, Finish(q) \/ SaveJson(q) \/ Look(q) \/ ReadHeader(q) \/ Rotate(q) \/ Exists(q)
            PROVE  /\ fd' = fd
                   /\ pc'[r] = pc[r] \/ pc'[r] \notin {"flush", "saved"}
        BY <3>3 DEF Finish, SaveJson, Look, ReadHeader, Rotate, Exists, Goto, Typed
      <3>4. CASE FlushFails(r) \/ Kill(r)
        BY <3>4 DEF FlushFails, Kill, Goto, Typed
      <3> QED
        BY <1>3, <3>1, <3>2, <3>3, <3>4 DEF Next, append_csv
    <2>2. ASSUME pc'[r] = "saved" PROVE \E f \in Runs : Contains(lines'[f], Row(r)) /\ HasName(f)'
      <3>1. PICK f \in Runs : Contains(lines[f], Row(r)) /\ HasName(f)
        BY <2>1, <2>2 DEF Kept
      <3>2. Contains(lines'[f], Row(r)) /\ HasName(f)'
        BY <3>1, RowsStay, NamesStay
      <3> QED
        BY <3>2
    <2>3. ASSUME pc'[r] = "flush" PROVE fd'[r] \in Runs /\ HasName(fd[r])'
      <3>1. fd[r] \in Runs /\ HasName(fd[r]) /\ fd'[r] = fd[r]
        BY <2>1, <2>3 DEF Kept
      <3>2. \A f \in Runs : f = fd[r] => HasName(f)'
        BY <3>1, NamesStay
      <3> QED
        BY <3>1, <3>2
    <2> QED
      BY <2>2, <2>3
  <1> QED
    BY <1>1, <1>2, <1>3

(* A run that said it saved its row finds it in the history or an archive  *)
(* for ever: a file that is open or holds a saved row loses its names only *)
(* to an archive made in the same second.                                  *)
THEOREM SavedRowsAreKept == Spec => []SavedIsKept
  <1>1. Init => IInv
    <2> SUFFICES ASSUME Init PROVE IInv
      OBVIOUS
    <2>1. Typed
      BY HistoryAssumption DEF Init, Typed, Places
    <2>2. Archived /\ Kept
      BY DEF Init, Archived, Kept
    <2> QED
      BY <2>1, <2>2 DEF IInv
  <1>2. IInv /\ [Next]_vars => IInv'
    BY TypedStep, ArchivedStep, KeptStep DEF IInv
  <1>3. IInv => SavedIsKept
    BY DEF IInv, Kept, HasName, Collision, SavedIsKept
  <1> QED
    BY <1>1, <1>2, <1>3, PTL DEF Spec

-----------------------------------------------------------------------------
(* A run that has opened no file has created none.                         *)
LEMMA UnbornStep ==
    ASSUME Typed, Unborn, [Next]_vars
    PROVE  Unborn'
  <1> SUFFICES ASSUME NEW r \in Runs, pc'[r] \in Unopened
               PROVE  /\ csv' # r /\ lines'[r] = <<>>
                      /\ \A s \in 0 .. Seconds : baks'[s] # r
                      /\ \A q \in Runs : fd'[q] # r
    BY DEF Unborn
  <1>0. r # None
    BY RunIsNotNone
  <1>1. pc[r] \in Unopened
    <2>1. ASSUME NEW q \in Runs, Open(q) \/ Flush(q) \/ FlushFails(q) \/ Kill(q) PROVE pc[r] \in Unopened
      BY <2>1 DEF Open, Flush, FlushFails, Kill, Goto, Typed, Unopened, Before
    <2>2. ASSUME NEW q \in Runs, Finish(q) \/ SaveJson(q) \/ Look(q) \/ ReadHeader(q) \/ Rotate(q) \/ Exists(q)
          PROVE  pc[r] \in Unopened
      BY <2>2 DEF Finish, SaveJson, Look, ReadHeader, Rotate, Exists, Goto, Typed, Unopened, Before
    <2>3. CASE Tick \/ Over \/ UNCHANGED vars
      BY <2>3 DEF Tick, Over, vars
    <2> QED
      BY <2>1, <2>2, <2>3 DEF Next, append_csv
  <1>2. /\ csv # r /\ lines[r] = <<>>
        /\ \A s \in 0 .. Seconds : baks[s] # r
        /\ \A q \in Runs : fd[q] # r
    BY <1>1 DEF Unborn
  <1>3. CASE UNCHANGED <<csv, lines, baks, fd>>
    BY <1>2, <1>3
  <1>4. ASSUME NEW q \in Runs, Open(q) PROVE csv' # r /\ fd' = [fd EXCEPT ![q] = csv'] /\ UNCHANGED <<lines, baks>>
    <2>1. pc'[q] = "flush"
      BY <1>4 DEF Open, Goto, Typed
    <2>2. q # r
      BY <2>1 DEF Unopened, Before
    <2> QED
      BY <1>2, <1>4, <2>2 DEF Open
  <1>5. ASSUME NEW q \in Runs, Flush(q) \/ FlushFails(q) \/ Kill(q)
        PROVE  fd' = [fd EXCEPT ![q] = None] /\ UNCHANGED <<csv, baks>> /\ lines'[r] = lines[r]
    BY <1>2, <1>5 DEF Flush, FlushFails, Kill, Typed
  <1>6. ASSUME NEW q \in Runs, Rotate(q)
        PROVE  /\ UNCHANGED <<fd, lines>> /\ csv' \in {csv, None}
               /\ \A s \in 0 .. Seconds : baks'[s] \in {baks[s], csv}
    BY <1>6 DEF Rotate, NameAfterReplace, Typed
  <1>7. CASE \E q \in Runs : Open(q)
    BY <1>2, <1>4, <1>7 DEF Typed
  <1>8. CASE \E q \in Runs : Flush(q) \/ FlushFails(q) \/ Kill(q)
    BY <1>0, <1>2, <1>5, <1>8 DEF Typed
  <1>9. CASE \E q \in Runs : Rotate(q)
    BY <1>0, <1>2, <1>6, <1>9
  <1> QED
    BY <1>3, <1>7, <1>8, <1>9 DEF Next, append_csv, Finish, SaveJson, Look, ReadHeader, Exists, Tick, Over, vars

(* A run that starts to append while another does is seen.                 *)
LEMMA SoleStep ==
    ASSUME Typed, Sole, [Next]_vars
    PROVE  Sole' /\ (overlap => overlap') /\ (broken => broken')
  <1>1. (overlap => overlap') /\ (broken => broken')
    <2>1. ASSUME NEW r \in Runs, SaveJson(r) \/ FlushFails(r) \/ Kill(r)
          PROVE  (overlap => overlap') /\ (broken => broken')
      <3>1. CASE SaveJson(r)
        <4>1. /\ broken' = broken
              /\ \/ overlap' = (overlap \/ \E q \in Runs : pc[q] \in Appending)
                 \/ overlap' = overlap
          BY <3>1 DEF SaveJson
        <4>2. CASE overlap' = overlap
          BY <4>1, <4>2
        <4>3. CASE overlap' = (overlap \/ \E q \in Runs : pc[q] \in Appending)
          <5>1. overlap => overlap'
            BY <4>3
          <5> QED
            BY <4>1, <5>1
        <4> QED
          BY <4>1, <4>2, <4>3
      <3>2. CASE FlushFails(r)
        BY <3>2 DEF FlushFails
      <3>3. CASE Kill(r)
        BY <3>3 DEF Kill
      <3> QED
        BY <2>1, <3>1, <3>2, <3>3
    <2>2. CASE ~ \E r \in Runs : SaveJson(r) \/ FlushFails(r) \/ Kill(r)
      <3>1. overlap' = overlap /\ broken' = broken
        BY <2>2 DEF Next, append_csv, Finish, Look, ReadHeader, Rotate, Exists, Open, Flush, Tick, Over, vars
      <3> QED
        BY <3>1
    <2> QED
      BY <2>1, <2>2
  <1>2. SUFFICES ASSUME ~overlap', NEW p \in Runs, NEW q \in Runs, p # q, pc'[p] \in Appending, pc'[q] \in Appending
                 PROVE  FALSE
    BY <1>1 DEF Sole
  <1>3. ~(pc[p] \in Appending /\ pc[q] \in Appending)
    BY <1>1, <1>2 DEF Sole
  <1>4. CASE Tick \/ Over \/ UNCHANGED vars
    BY <1>2, <1>3, <1>4 DEF Tick, Over, vars
  <1>5. ASSUME NEW r \in Runs, SaveJson(r) PROVE FALSE
    <2>1. pc' = [pc EXCEPT ![r] = "look"] /\ ~ \E u \in Runs : pc[u] \in Appending
      <3>1. CASE Goto(r, "look") /\ overlap' = (overlap \/ \E u \in Runs : pc[u] \in Appending)
        BY <1>2, <3>1 DEF Goto
      <3>2. CASE Goto(r, "failed")
        BY <1>2, <1>3, <3>2 DEF Goto, Typed, Appending
      <3> QED
        BY <1>5, <3>1, <3>2 DEF SaveJson
    <2> QED
      BY <1>2, <2>1 DEF Typed
  <1>6. ASSUME NEW r \in Runs, Finish(r) \/ Kill(r) PROVE FALSE
    BY <1>2, <1>3, <1>6 DEF Finish, Kill, Goto, Typed, Appending
  <1>7. ASSUME NEW r \in Runs, append_csv(r) PROVE FALSE
    <2>1. pc[r] \in Appending /\ \E l \in Places : pc' = [pc EXCEPT ![r] = l]
      BY <1>7 DEF append_csv, Look, ReadHeader, Rotate, Exists, Open, Flush, FlushFails, Goto, Appending, Saving, Places
    <2> QED
      BY <1>2, <1>3, <2>1 DEF Typed
  <1> QED
    BY <1>4, <1>5, <1>6, <1>7 DEF Next

(* What the end of an append does to the file it was made to.              *)
LEMMA WholeStep ==
    ASSUME OInv, ~overlap, ~broken, NEW r \in Runs, Flush(r)
    PROVE  /\ csv \in Runs /\ fd[r] = csv
           /\ lines' = [lines EXCEPT ![csv] = @ \o HeaderIfFresh(r) \o <<Row(r)>>]
           /\ lines'[csv] # <<>> /\ Whole(csv)'
  <1> USE DEF OInv
  <1>1. csv # None /\ fd[r] = csv /\ IF r \in fresh THEN lines[csv] = <<>> ELSE Headed(csv, r)
    BY DEF Orderly, Knows, Flush
  <1>2. csv \in Runs /\ lines' = [lines EXCEPT ![csv] = @ \o HeaderIfFresh(r) \o <<Row(r)>>]
    BY <1>1 DEF Typed, Flush
  <1>3. lines'[csv] = lines[csv] \o HeaderIfFresh(r) \o <<Row(r)>> /\ csv' = csv
    BY <1>2 DEF Typed, Flush
  <1>4. CASE r \in fresh
    <2>1. lines'[csv] = <<>> \o <<Header(r)>> \o <<Row(r)>>
      BY <1>1, <1>3, <1>4 DEF HeaderIfFresh
    <2>2. Header(r) \in Entries /\ Row(r) \in Entries
      BY DEF Entries
    <2>3. lines'[csv] = <<Header(r)>> \o <<Row(r)>>
      BY <2>1, <2>2
    <2>4. /\ Len(lines'[csv]) = 2 /\ Head(lines'[csv]) = Header(r) /\ lines'[csv][2] = Row(r)
          /\ lines'[csv] # <<>>
      BY <2>2, <2>3
    <2>5. \A i \in 2 .. Len(lines'[csv]) : lines'[csv][i][1] = "row" /\ lines'[csv][i][2] = Header(r)[2]
      BY <2>4 DEF Row, Header
    <2>6. Whole(csv)'
      BY <1>3, <2>4, <2>5 DEF Whole, Header
    <2> QED
      BY <1>1, <1>2, <2>4, <2>6
  <1>5. CASE r \notin fresh
    <2>1. lines[csv] \in Seq(Entries) /\ lines[csv] # <<>> /\ lines[csv][1] = Header(r)
      BY <1>1, <1>2, <1>5 DEF Headed, Typed
    <2>2. lines'[csv] = Append(lines[csv], Row(r))
      BY <1>3, <1>5, <2>1 DEF HeaderIfFresh
    <2>3. /\ Len(lines'[csv]) = Len(lines[csv]) + 1 /\ Len(lines[csv]) \in Nat /\ Len(lines[csv]) >= 1
          /\ \A i \in 1 .. Len(lines[csv]) : lines'[csv][i] = lines[csv][i]
          /\ lines'[csv][Len(lines[csv]) + 1] = Row(r)
      BY <2>1, <2>2
    <2>4. Head(lines'[csv]) = Header(r) /\ Head(lines[csv]) = Header(r) /\ lines'[csv] # <<>>
      BY <2>1, <2>2, <2>3
    <2>5. \A i \in 2 .. Len(lines[csv]) : lines[csv][i][1] = "row" /\ lines[csv][i][2] = Header(r)[2]
      <3>1. csv \in Listed
        BY <1>1 DEF Listed
      <3> QED
        BY <2>1, <2>4, <3>1 DEF Orderly, Whole
    <2>6. \A i \in 2 .. Len(lines'[csv]) : lines'[csv][i][1] = "row" /\ lines'[csv][i][2] = Header(r)[2]
      <3> SUFFICES ASSUME NEW i \in 2 .. Len(lines'[csv])
                   PROVE  lines'[csv][i][1] = "row" /\ lines'[csv][i][2] = Header(r)[2]
        OBVIOUS
      <3>1. CASE i \in 2 .. Len(lines[csv])
        BY <2>3, <2>5, <3>1
      <3>2. CASE i = Len(lines[csv]) + 1
        BY <2>3, <3>2 DEF Row, Header
      <3> QED
        BY <2>3, <3>1, <3>2
    <2>7. Whole(csv)'
      <3>1. Header(r)[1] = "header"
        BY DEF Header
      <3> QED
        BY <1>3, <2>4, <2>6, <3>1 DEF Whole
    <2> QED
      BY <1>1, <1>2, <2>4, <2>7
  <1> QED
    BY <1>4, <1>5

(* A run that appends alone finds the file as it left it, step by step.    *)
LEMMA KnowsStep ==
    ASSUME OInv, ~overlap, ~broken, [Next]_vars, NEW r \in Runs, ~broken', ~overlap'
    PROVE  Knows(r)'
  <1> USE DEF OInv
  <1>1. Knows(r) /\ Filled
    BY DEF Orderly
  <1>2. CASE Tick \/ Over \/ UNCHANGED vars
    BY <1>1, <1>2 DEF Tick, Over, vars, Knows, Headed, Header
  <1>3. ASSUME NEW q \in Runs, q # r, Finish(q) \/ SaveJson(q) \/ Kill(q) PROVE Knows(r)'
    <2>1. UNCHANGED <<csv, lines, fresh>> /\ pc'[r] = pc[r] /\ fd'[r] = fd[r]
      BY <1>3 DEF Finish, SaveJson, Kill, Goto, Typed
    <2> QED
      BY <1>1, <2>1 DEF Knows, Headed, Header
  <1>4. ASSUME NEW q \in Runs, q # r, append_csv(q) PROVE Knows(r)'
    <2>1. pc[q] \in Appending /\ pc'[r] = pc[r] /\ (r \in fresh' => r \in fresh)
      BY <1>4 DEF append_csv, Look, ReadHeader, Rotate, Exists, Open, Flush, FlushFails, Goto, Appending, Typed
    <2>2. pc'[r] \notin Appending
      BY <1>4, <2>1 DEF Sole
    <2> QED
      BY <1>1, <2>1, <2>2 DEF Knows, Appending
  <1>5. CASE Finish(r) \/ SaveJson(r) \/ Kill(r)
    <2>1. fresh' = fresh /\ pc'[r] \in {"json", "look", "failed", "dead"} /\ (pc'[r] # "json" \/ pc[r] = "idle")
          /\ (pc'[r] = "look" => pc[r] = "json")
      BY <1>5 DEF Finish, SaveJson, Kill, Goto, Typed
    <2> QED
      BY <1>1, <2>1 DEF Knows, Before
  <1>6. CASE Look(r)
    <2>1. /\ UNCHANGED <<csv, lines, fresh>> /\ pc'[r] = IF csv = None THEN "exists" ELSE "read"
          /\ pc[r] = "look"
      BY <1>6 DEF Look, Goto, Typed
    <2> QED
      BY <1>1, <2>1 DEF Knows, Before
  <1>7. CASE ReadHeader(r)
    <2>1. /\ UNCHANGED <<csv, lines, fresh>> /\ pc[r] = "read"
          /\ pc'[r] = IF csv = None THEN "failed" ELSE IF Mismatched(r) THEN "rotate" ELSE "exists"
      BY <1>7 DEF ReadHeader, Goto, Typed
    <2>2. r \notin fresh
      BY <1>1, <2>1 DEF Knows, Before
    <2>3. csv # None => lines[csv] # <<>>
      <3> SUFFICES ASSUME csv # None, lines[csv] = <<>> PROVE FALSE
        OBVIOUS
      <3>1. PICK q \in Runs : pc[q] = "flush"
        BY <1>1 DEF Filled, Listed
      <3> QED
        BY <2>1, <3>1 DEF Sole, Appending
    <2> QED
      BY <2>1, <2>2, <2>3 DEF Knows, Mismatched, Headed, Header
  <1>8. CASE Rotate(r)
    <2>1. csv' = None /\ pc'[r] = "exists" /\ fresh' = fresh /\ pc[r] = "rotate"
      BY <1>1, <1>8 DEF Rotate, NameAfterReplace, Goto, Typed, Knows
    <2> QED
      BY <1>1, <2>1 DEF Knows, Before
  <1>9. CASE Exists(r)
    <2>1. /\ UNCHANGED <<csv, lines>> /\ pc'[r] = "open" /\ pc[r] = "exists"
          /\ fresh' = IF csv = None THEN fresh \cup {r} ELSE fresh
      BY <1>9 DEF Exists, Goto, Typed
    <2> QED
      BY <1>1, <2>1 DEF Knows, Before, Headed, Header
  <1>10. CASE Open(r)
    <2>1. /\ UNCHANGED <<lines, fresh>> /\ pc'[r] = "flush" /\ pc[r] = "open"
          /\ csv' = IF csv = None THEN r ELSE csv
          /\ fd'[r] = csv' /\ lines[r] = <<>>
      BY <1>10 DEF Open, Goto, Typed, Unborn, Unopened
    <2> QED
      BY <1>1, <2>1, RunIsNotNone DEF Knows, Before, Headed, Header
  <1>11. CASE Flush(r) \/ FlushFails(r)
    <2>1. pc'[r] \in {"saved", "failed"}
      BY <1>11 DEF Flush, FlushFails, Goto, Typed
    <2> QED
      BY <2>1 DEF Knows, Before
  <1> QED
    BY <1>2, <1>3, <1>4, <1>5, <1>6, <1>7, <1>8, <1>9, <1>10, <1>11 DEF Next, append_csv

(* No other file is empty, and the one that is written becomes whole.      *)
LEMMA FilesStep ==
    ASSUME OInv, ~overlap, ~broken, [Next]_vars, ~broken', ~overlap'
    PROVE  Filled' /\ \A f \in Listed' : Whole(f)'
  <1> USE DEF OInv
  <1>0. /\ Filled /\ \A f \in Listed : Whole(f) /\ f \in Runs
    BY DEF Orderly, Listed, Typed
  <1>1. CASE Tick \/ Over \/ UNCHANGED vars
    BY <1>0, <1>1 DEF Tick, Over, vars, Filled, Listed, Whole
  <1>2. ASSUME NEW r \in Runs, Finish(r) \/ SaveJson(r) \/ Look(r) \/ ReadHeader(r) \/ Exists(r) \/ Kill(r)
        PROVE  Filled' /\ \A f \in Listed' : Whole(f)'
    <2>1. UNCHANGED <<csv, baks, lines>> /\ pc[r] # "flush"
      BY <1>2 DEF Finish, SaveJson, Look, ReadHeader, Exists, Kill
    <2>2. \A q \in Runs : pc[q] = "flush" => pc'[q] = "flush" /\ fd'[q] = fd[q]
      BY <1>2, <2>1 DEF Finish, SaveJson, Look, ReadHeader, Exists, Kill, Goto, Typed
    <2> QED
      BY <1>0, <2>1, <2>2 DEF Filled, Listed, Whole
  <1>3. ASSUME NEW r \in Runs, Rotate(r) PROVE Filled' /\ \A f \in Listed' : Whole(f)'
    <2>1. Listed' \subseteq Listed
      BY <1>3 DEF Rotate, Listed, NameAfterReplace, Typed
    <2>2. UNCHANGED <<lines, fd>> /\ \A q \in Runs : pc[q] = "flush" => pc'[q] = "flush"
      BY <1>3 DEF Rotate, Goto, Typed
    <2> QED
      BY <1>0, <2>1, <2>2 DEF Filled, Whole
  <1>4. ASSUME NEW r \in Runs, Open(r) PROVE Filled' /\ \A f \in Listed' : Whole(f)'
    <2>1. UNCHANGED <<lines, baks>> /\ pc'[r] = "flush" /\ fd'[r] = csv' /\ lines[r] = <<>> /\ pc[r] = "open"
      BY <1>4 DEF Open, Goto, Typed, Unborn, Unopened
    <2>2. csv' = (IF csv = None THEN r ELSE csv) /\ Listed' \subseteq Listed \cup {r}
      BY <1>4, <2>1 DEF Open, Listed
    <2>3. \A q \in Runs : pc[q] = "flush" => q = r
      BY <2>1 DEF Sole, Appending
    <2>4. Filled'
      BY <1>0, <2>1, <2>2, <2>3 DEF Filled, Listed
    <2>5. ASSUME NEW f \in Listed' PROVE Whole(f)'
      <3>1. f = r \/ Whole(f)
        BY <1>0, <2>2
      <3> QED
        BY <2>1, <3>1 DEF Whole
    <2> QED
      BY <2>4, <2>5
  <1>5. ASSUME NEW r \in Runs, Flush(r) PROVE Filled' /\ \A f \in Listed' : Whole(f)'
    <2>1. /\ csv \in Runs /\ fd[r] = csv
          /\ lines' = [lines EXCEPT ![csv] = @ \o HeaderIfFresh(r) \o <<Row(r)>>]
          /\ lines'[csv] # <<>> /\ Whole(csv)'
      BY <1>5, WholeStep
    <2>2. Listed' = Listed /\ csv' = csv /\ pc[r] = "flush"
      BY <1>5 DEF Flush, Listed
    <2>3. \A f \in Listed : f = csv \/ lines'[f] = lines[f]
      BY <1>0, <2>1 DEF Typed
    <2>4. \A q \in Runs : pc[q] = "flush" => q = r
      BY <2>2 DEF Sole, Appending
    <2>5. Filled'
      BY <1>0, <2>1, <2>2, <2>3, <2>4 DEF Filled
    <2>6. ASSUME NEW f \in Listed PROVE Whole(f)'
      <3>1. CASE f = csv
        BY <2>1, <2>2, <3>1 DEF Whole
      <3>2. CASE lines'[f] = lines[f]
        BY <1>0, <3>2 DEF Whole
      <3> QED
        BY <2>3, <3>1, <3>2
    <2> QED
      BY <2>2, <2>5, <2>6
  <1>6. ASSUME NEW r \in Runs, FlushFails(r) PROVE FALSE
    BY <1>6 DEF FlushFails
  <1> QED
    BY <1>1, <1>2, <1>3, <1>4, <1>5, <1>6 DEF Next, append_csv

(* No row stands under another version's header, whatever order versions   *)
(* run in and wherever they are killed, unless two runs append at once or  *)
(* an append is cut between its open and its flush.                        *)
THEOREM RowsStandUnderTheirHeader == Spec => []RowsUnderTheirHeader
  <1>1. Init => OInv
    <2> SUFFICES ASSUME Init PROVE OInv
      OBVIOUS
    <2>1. Typed
      BY HistoryAssumption DEF Init, Typed, Places
    <2>2. Unborn /\ Sole
      BY RunIsNotNone DEF Init, Unborn, Sole, Appending
    <2>3. Listed = {}
      BY DEF Init, Listed
    <2>4. Orderly
      BY <2>3 DEF Init, Orderly, Knows, Filled
    <2> QED
      BY <2>1, <2>2, <2>4 DEF OInv
  <1>2. ASSUME OInv, [Next]_vars PROVE OInv'
    <2>1. Typed' /\ Unborn' /\ Sole' /\ (overlap => overlap') /\ (broken => broken')
      BY <1>2, TypedStep, UnbornStep, SoleStep DEF OInv
    <2>2. ASSUME ~overlap', ~broken' PROVE (\A r \in Runs : Knows(r)') /\ Filled' /\ \A f \in Listed' : Whole(f)'
      BY <1>2, <2>1, <2>2, KnowsStep, FilesStep
    <2> QED
      BY <2>1, <2>2 DEF OInv, Orderly
  <1>3. OInv => RowsUnderTheirHeader
    BY DEF OInv, Orderly, RowsUnderTheirHeader
  <1> QED
    BY <1>1, <1>2, <1>3, PTL DEF Spec

-----------------------------------------------------------------------------
(* Regression: most of the values decide their middle.                     *)

Values(f) == IsFiniteSet(DOMAIN f) /\ \A i \in DOMAIN f : f[i] \in Nat
Of(f, v) == {i \in DOMAIN f : f[i] = v}
MostAre(f, v) == 2 * Cardinality(Of(f, v)) > Cardinality(DOMAIN f)

\* The number of elements is the same operator in both modules.
LEMMA SameCount == ASSUME NEW S PROVE R!Cardinality(S) = Cardinality(S)
BY Zenon DEF R!Cardinality, Cardinality

\* The k-th smallest, by the number of elements.
LEMMA NthIs ==
    ASSUME NEW f, NEW k
    PROVE  R!Nth(f, k) = CHOOSE w \in {f[i] : i \in DOMAIN f} :
                             /\ Cardinality({i \in DOMAIN f : f[i] < w}) < k
                             /\ k <= Cardinality({i \in DOMAIN f : f[i] <= w})
BY Zenon, SameCount DEF R!Nth

\* And the median, by the number of elements.
LEMMA MedianIs ==
    ASSUME NEW f
    PROVE  LET n == Cardinality(DOMAIN f)
           IN  R!Median(f) = IF n % 2 = 1 THEN R!Nth(f, n \div 2 + 1)
                             ELSE (R!Nth(f, n \div 2) + R!Nth(f, n \div 2 + 1)) \div 2
BY Zenon, SameCount DEF R!Median

\* The middle ones of the values are the one that most of them have.
LEMMA MiddleIsMost ==
    ASSUME NEW f, NEW v \in Nat, NEW k \in Nat, Values(f),
           Cardinality(DOMAIN f) < k + Cardinality(Of(f, v)), k <= Cardinality(Of(f, v)), Of(f, v) # {}
    PROVE  R!Nth(f, k) = v
<1> DEFINE S == DOMAIN f
           U == Of(f, v)
           below(w) == {i \in S : f[i] < w}
           upto(w) == {i \in S : f[i] <= w}
           kth(w) == Cardinality(below(w)) < k /\ k <= Cardinality(upto(w))
<1>1. IsFiniteSet(S) /\ U \subseteq S BY DEF Values, Of
<1>2. \A w : IsFiniteSet(below(w)) /\ IsFiniteSet(upto(w)) BY <1>1, FS_Subset
<1>3. IsFiniteSet(U) /\ IsFiniteSet(S \ U) /\ Cardinality(U) \in Nat /\ Cardinality(S) \in Nat
  BY <1>1, FS_Subset, FS_CardinalityType
<1>4. Cardinality(S \ U) = Cardinality(S) - Cardinality(U)
  <2>1. S \cap U = U BY <1>1
  <2> QED BY <1>1, <2>1, FS_Difference
<1>5. \A w : Cardinality(below(w)) \in Nat /\ Cardinality(upto(w)) \in Nat BY <1>2, FS_CardinalityType
<1>6. below(v) \subseteq S \ U /\ U \subseteq upto(v) BY DEF Values, Of
<1>7. ASSUME NEW w \in Nat
      PROVE  (w < v => upto(w) \subseteq below(v)) /\ (v < w => upto(v) \subseteq below(w))
  BY DEF Values
<1>8. v \in {f[i] : i \in S} /\ {f[i] : i \in S} \subseteq Nat BY DEF Of, Values
<1>9. R!Nth(f, k) = CHOOSE w \in {f[i] : i \in S} : kth(w) BY NthIs
<1>10. Cardinality(S) < k + Cardinality(U) /\ k <= Cardinality(U) OBVIOUS
<1> HIDE DEF below, upto, S, U
<1>11. kth(v)
  <2>1. Cardinality(below(v)) <= Cardinality(S \ U) BY <1>3, <1>6, FS_Subset
  <2>2. Cardinality(U) <= Cardinality(upto(v)) BY <1>2, <1>6, FS_Subset
  <2> QED BY <1>3, <1>4, <1>5, <1>10, <2>1, <2>2
<1>12. ASSUME NEW w \in {f[i] : i \in S}, kth(w) PROVE w = v
  <2>1. w \in Nat BY <1>8
  <2>2. CASE w < v
    <3>1. upto(w) \subseteq below(v) BY <1>7, <2>1, <2>2
    <3>2. Cardinality(upto(w)) <= Cardinality(below(v)) BY <1>2, <3>1, FS_Subset
    <3> QED BY <1>5, <1>11, <1>12, <3>2
  <2>3. CASE v < w
    <3>1. upto(v) \subseteq below(w) BY <1>7, <2>1, <2>3
    <3>2. Cardinality(upto(v)) <= Cardinality(below(w)) BY <1>2, <3>1, FS_Subset
    <3> QED BY <1>5, <1>11, <1>12, <3>2
  <2> QED BY <2>1, <2>2, <2>3
<1> HIDE DEF kth
<1> QED BY <1>8, <1>9, <1>11, <1>12

\* So is the median, whether their number is odd or even.
LEMMA MedianIsMost ==
    ASSUME NEW f, NEW v \in Nat, Values(f), MostAre(f, v)
    PROVE  R!Median(f) = v
<1> DEFINE n == Cardinality(DOMAIN f)
           u == Cardinality(Of(f, v))
           h == n \div 2
<1>1. n \in Nat BY FS_CardinalityType DEF Values
<1>2. u \in Nat /\ Of(f, v) # {}
  <2>1. IsFiniteSet(Of(f, v)) BY FS_Subset DEF Values, Of
  <2> QED BY <1>1, <2>1, FS_CardinalityType, FS_EmptySet DEF MostAre
<1>3. 2 * u > n BY DEF MostAre
<1>4. h \in Nat /\ (n = 2 * h \/ n = 2 * h + 1) /\ (n % 2 = 1 <=> n = 2 * h + 1) BY <1>1
<1>5. R!Median(f) = IF n % 2 = 1 THEN R!Nth(f, h + 1) ELSE (R!Nth(f, h) + R!Nth(f, h + 1)) \div 2
  BY MedianIs
<1> HIDE DEF h
<1>6. n < h + 1 + u /\ h + 1 <= u BY <1>1, <1>2, <1>3, <1>4
<1>7. R!Nth(f, h + 1) = v BY <1>2, <1>4, <1>6, MiddleIsMost DEF u, n
<1>8. CASE n = 2 * h + 1 BY <1>4, <1>5, <1>7, <1>8
<1>9. CASE n = 2 * h
  <2>1. n < h + u /\ h <= u BY <1>2, <1>3, <1>4, <1>9
  <2>2. R!Nth(f, h) = v BY <1>2, <1>4, <2>1, MiddleIsMost DEF u, n
  <2>3. n % 2 # 1 BY <1>4, <1>9
  <2>4. R!Median(f) = (v + v) \div 2 BY <1>5, <1>7, <2>2, <2>3
  <2> HIDE DEF n, u
  <2> QED BY <2>4
<1> QED BY <1>4, <1>8, <1>9

\* And their distances from it have the median 0.
LEMMA NoSpreadOfMost ==
    ASSUME NEW f, NEW v \in Nat, Values(f), MostAre(f, v)
    PROVE  R!Mad(f) = 0
<1> DEFINE g == [i \in DOMAIN f |-> R!Distance(f[i], v)]
<1>1. R!Mad(f) = R!Median(g) BY MedianIsMost DEF R!Mad
<1>2. Values(g) BY DEF Values, R!Distance
<1>3. Of(g, 0) = Of(f, v) BY DEF Of, Values, R!Distance
<1>4. MostAre(g, 0) BY <1>3 DEF MostAre
<1> QED BY <1>1, <1>2, <1>4, MedianIsMost

-----------------------------------------------------------------------------
(* Regression: rows and what is said of the last one.                      *)

Rowlike ==
    [hostname : {"h", "other"}, changed : SUBSET R!Settings, moment : {"quiet", "busy", "cool"},
     worn : BOOLEAN, value : [R!Columns -> Nat]]

\* What an undisturbed run found follows from its settings and the drive.
Made(q) ==
    q.moment = "quiet" => \A c \in R!Measured : q.value[c] \in {0, R!AtRest(c, q.changed, q.worn)}

\* The last run was compared with the rows before it, if it was at all.
Compared ==
    \/ accused = {} /\ (history # <<>> => ~R!Last.worn)
    \/ \E q \in Rowlike, before \in Seq(Rowlike) :
          history = Append(before, q) /\ accused = R!analyze(q, before)

Told ==
    /\ history \in Seq(Rowlike) /\ worn \in BOOLEAN
    /\ \A i \in DOMAIN history : Made(history[i]) /\ (history[i].worn => worn)
    /\ Compared

\* An undisturbed speed is one of four, and half of it with a worn drive.
LEMMA AtRestIs ==
    ASSUME NEW c, NEW changed
    PROVE  /\ R!AtRest(c, changed, FALSE) \in {240, 400}
           /\ \A aged \in BOOLEAN : R!AtRest(c, changed, aged) \in Nat \ {0}
           /\ c # "disk" => \A aged : R!AtRest(c, changed, aged) = R!AtRest(c, changed, FALSE)
           /\ R!AtRest("disk", changed, TRUE) = R!AtRest("disk", changed, FALSE) \div 2
BY DEF R!AtRest

\* A mean of numbers is a number.
LEMMA CompositeIs ==
    ASSUME NEW v \in [R!Measured -> Nat], NEW ran \in {R!Measured, {"disk"}}
    PROVE  R!Composite(v, ran) \in Nat
<1>1. IsFiniteSet(ran) /\ ran # {}
  <2>1. IsFiniteSet({"disk"}) BY FS_Singleton
  <2>2. IsFiniteSet({"disk"} \cup {"cpu"}) BY <2>1, FS_AddElement
  <2>3. IsFiniteSet(({"disk"} \cup {"cpu"}) \cup {"gpu"}) BY <2>2, FS_AddElement
  <2>4. R!Measured = ({"disk"} \cup {"cpu"}) \cup {"gpu"} BY DEF R!Measured
  <2> QED BY <2>1, <2>3, <2>4
<1>2. R!Cardinality(ran) \in Nat \ {0} BY <1>1, FS_CardinalityType, FS_EmptySet, SameCount
<1>3. (IF "disk" \in ran THEN v["disk"] ELSE 0) \in Nat /\ (IF "cpu" \in ran THEN v["cpu"] ELSE 0) \in Nat
      /\ (IF "gpu" \in ran THEN v["gpu"] ELSE 0) \in Nat
  BY DEF R!Measured
<1> DEFINE sum == (IF "disk" \in ran THEN v["disk"] ELSE 0) + (IF "cpu" \in ran THEN v["cpu"] ELSE 0)
                   + (IF "gpu" \in ran THEN v["gpu"] ELSE 0)
<1>4. sum \in Nat BY <1>3
<1> HIDE DEF sum
<1>5. sum \div R!Cardinality(ran) \in Nat BY <1>2, <1>4
<1> QED BY <1>5 DEF R!Composite, sum

\* Every row that a run can have is one of these.
LEMMA RowsAre ==
    ASSUME worn \in BOOLEAN, NEW r \in R!Rows
    PROVE  r \in Rowlike /\ Made(r) /\ r.worn = worn
<1>1. PICK host \in {"h", "other"}, ch \in SUBSET R!Settings, ran \in {R!Measured, {"disk"}}, m \in {"quiet", "busy", "cool"} :
          r = R!flatten_row(host, ch, ran, m)
  BY DEF R!Rows
<1> DEFINE v == [c \in R!Measured |-> IF c \in ran THEN R!Speed(c, ch, m) ELSE 0]
<1>2. \A c : R!Speed(c, ch, m) \in Nat
  <2> TAKE c
  <2>1. R!AtRest(c, ch, worn) \in Nat BY AtRestIs
  <2> HIDE DEF v
  <2> QED BY <2>1 DEF R!Speed
<1>3. v \in [R!Measured -> Nat] BY <1>2
<1>4. R!Composite(v, ran) \in Nat BY <1>3, CompositeIs
<1>5. r = [hostname |-> host, changed |-> ch, moment |-> m, worn |-> worn,
           value |-> [c \in R!Columns |-> IF c = "composite" THEN R!Composite(v, ran) ELSE v[c]]]
  BY <1>1 DEF R!flatten_row
<1>6. m = "quiet" => \A c \in R!Measured : v[c] \in {0, R!AtRest(c, ch, worn)}
  BY DEF R!Speed
<1> HIDE DEF v
<1>7. [c \in R!Columns |-> IF c = "composite" THEN R!Composite(v, ran) ELSE v[c]] \in [R!Columns -> Nat]
  BY <1>3, <1>4 DEF R!Columns
<1>8. r \in Rowlike BY <1>1, <1>5, <1>7 DEF Rowlike
<1>9. \A c \in R!Measured : c \in R!Columns /\ c # "composite" BY DEF R!Columns, R!Measured
<1>10. Made(r) BY <1>5, <1>6, <1>9 DEF Made
<1> QED BY <1>5, <1>8, <1>10

\* What a test is compared with: the earlier rows that were made like it.
LEMMA CandidatesAre ==
    ASSUME NEW c \in R!Measured, NEW q \in Rowlike, NEW before \in Seq(Rowlike),
           history = Append(before, q)
    PROVE  /\ DOMAIN R!Candidates(c, q, before) = R!Like(c)
           /\ \A i \in R!Like(c) : R!Candidates(c, q, before)[i] = before[i].value[c]
           /\ R!Last = q
           /\ \A i \in 1 .. Len(before) : history[i] = before[i] /\ before[i] \in Rowlike
           /\ IsFiniteSet(R!Like(c)) /\ R!Like(c) \subseteq 1 .. Len(before)
<1>1. /\ Len(before) \in Nat /\ Len(history) = Len(before) + 1 /\ R!Last = q
      /\ \A i \in 1 .. Len(before) : history[i] = before[i] /\ before[i] \in Rowlike
      /\ DOMAIN before = 1 .. Len(before)
  BY DEF R!Last
<1>2. R!CONFIG_DEPS[c] = R!Affects[c] /\ c \notin R!SELECTION_DEPS
  <2>1. CASE c = "disk" BY <2>1 DEF R!CONFIG_DEPS, R!Affects, R!SELECTION_DEPS
  <2>2. CASE c = "cpu" BY <2>2 DEF R!CONFIG_DEPS, R!Affects, R!SELECTION_DEPS
  <2>3. CASE c = "gpu" BY <2>3 DEF R!CONFIG_DEPS, R!Affects, R!SELECTION_DEPS
  <2> QED BY <2>1, <2>2, <2>3 DEF R!Measured
<1>3. \A i \in 1 .. Len(before) :
         R!SameConfig(c, before[i], q) <=> before[i].changed \cap R!Affects[c] = q.changed \cap R!Affects[c]
  BY <1>2 DEF R!SameConfig
<1> DEFINE alike(i) == /\ R!SameConfig(c, before[i], q)
                       /\ c \in R!SELECTION_DEPS => R!selection(before[i]) = R!selection(q)
                       /\ before[i].value[c] > 0
<1>4. R!Like(c) = {i \in R!SameHost(before, q) : alike(i)}
  <2>1. \A i \in 1 .. Len(before) : alike(i) <=> /\ before[i].changed \cap R!Affects[c] = q.changed \cap R!Affects[c]
                                                 /\ before[i].value[c] > 0
    BY <1>2, <1>3
  <2> HIDE DEF alike
  <2> QED BY <1>1, <2>1 DEF R!Like, R!SameHost
<1>5. R!Candidates(c, q, before) = [i \in R!Like(c) |-> before[i].value[c]]
  BY <1>4 DEF R!Candidates
<1>6. R!Like(c) \subseteq 1 .. Len(before) BY <1>1 DEF R!Like
<1>7. IsFiniteSet(1 .. Len(before)) BY <1>1, FS_Interval
<1> QED BY <1>1, <1>5, <1>6, <1>7, FS_Subset

\* If most of them were undisturbed, their speed at rest is the baseline,
\* and the spread is none.
LEMMA BaselineIsAtRest ==
    ASSUME NEW c \in R!Measured, NEW q \in Rowlike, NEW before \in Seq(Rowlike),
           history = Append(before, q), \A i \in DOMAIN history : Made(history[i]), R!Mostly(c)
    PROVE  /\ R!Median(R!Candidates(c, q, before)) = R!AtRest(c, q.changed, FALSE)
           /\ R!Mad(R!Candidates(c, q, before)) = 0
           /\ R!Like(c) # {}
<1> DEFINE f == R!Candidates(c, q, before)
           v == R!AtRest(c, q.changed, FALSE)
<1>1. v \in Nat BY AtRestIs
<1>2. /\ DOMAIN f = R!Like(c) /\ IsFiniteSet(R!Like(c))
      /\ \A i \in R!Like(c) : i \in 1 .. Len(before) /\ f[i] = before[i].value[c]
      /\ \A i \in 1 .. Len(before) : history[i] = before[i] /\ before[i] \in Rowlike
      /\ R!Last = q /\ c \in R!Columns
  BY CandidatesAre DEF R!Columns
<1>3. Values(f) BY <1>2 DEF Values, Rowlike
<1>4. ASSUME NEW i \in R!Undisturbed(c) PROVE i \in R!Like(c) /\ f[i] = v
  <2>1. i \in R!Like(c) /\ history[i] = before[i] /\ i \in DOMAIN history BY <1>2 DEF R!Undisturbed
  <2>2. /\ history[i].moment = "quiet" /\ (c = "disk" => ~history[i].worn)
        /\ history[i].changed \cap R!Affects[c] = q.changed \cap R!Affects[c] /\ history[i].value[c] > 0
        /\ history[i].worn \in BOOLEAN
    BY <1>2, <2>1 DEF R!Undisturbed, R!Like, Rowlike
  <2>3. history[i].value[c] = R!AtRest(c, history[i].changed, history[i].worn) BY <2>1, <2>2 DEF Made
  <2>4. R!AtRest(c, history[i].changed, history[i].worn) = R!AtRest(c, q.changed, FALSE)
    <3>1. (history[i].changed \cap R!Affects[c] # {}) <=> (q.changed \cap R!Affects[c] # {}) BY <2>2
    <3>2. CASE c = "disk" BY <2>2, <3>1, <3>2 DEF R!AtRest
    <3>3. CASE c # "disk" BY <3>1, <3>3 DEF R!AtRest
    <3> QED BY <3>2, <3>3
  <2> QED BY <1>2, <2>1, <2>3, <2>4
<1> HIDE DEF f, v
<1>5. R!Undisturbed(c) \subseteq Of(f, v) /\ Of(f, v) \subseteq R!Like(c) BY <1>2, <1>4 DEF Of
<1>6. IsFiniteSet(Of(f, v)) /\ IsFiniteSet(R!Undisturbed(c)) BY <1>2, <1>5, FS_Subset
<1>7. Cardinality(R!Undisturbed(c)) <= Cardinality(Of(f, v)) BY <1>5, <1>6, FS_Subset
<1>8. 2 * Cardinality(R!Undisturbed(c)) > Cardinality(R!Like(c)) BY SameCount DEF R!Mostly
<1>9. Cardinality(R!Undisturbed(c)) \in Nat /\ Cardinality(Of(f, v)) \in Nat /\ Cardinality(R!Like(c)) \in Nat
  BY <1>2, <1>6, FS_CardinalityType
<1>10. MostAre(f, v) BY <1>2, <1>7, <1>8, <1>9 DEF MostAre
<1>11. R!Like(c) # {}
  <2>1. Cardinality(R!Undisturbed(c)) # 0 BY <1>8, <1>9
  <2>2. R!Undisturbed(c) # {} BY <2>1, FS_EmptySet
  <2> QED BY <1>5, <2>2
<1>12. R!Median(f) = v /\ R!Mad(f) = 0 BY <1>1, <1>3, <1>10, MedianIsMost, NoSpreadOfMost
<1> QED BY <1>11, <1>12 DEF f, v

\* Before the first run nobody is accused.
LEMMA ToldInit == AllInit => Told
<1> SUFFICES ASSUME AllInit PROVE Told
  OBVIOUS
<1>1. history = <<>> /\ worn = FALSE /\ accused = {} BY DEF AllInit, R!Init
<1>2. history \in Seq(Rowlike) /\ DOMAIN history = {} BY <1>1
<1> QED BY <1>1, <1>2 DEF Told, Compared

\* What is told is kept by every step.
LEMMA ToldStep == ASSUME Told, [AllNext]_allVars PROVE Told'
<1>1. CASE UNCHANGED verdicts
  <2>1. history' = history /\ worn' = worn /\ accused' = accused BY <1>1 DEF verdicts
  <2>2. Compared' BY <2>1 DEF Told, Compared, R!Last
  <2> QED BY <2>1, <2>2 DEF Told, Made
<1>2. ASSUME NEW r \in R!Rows, R!Run(r) PROVE Told'
  <2>1. r \in Rowlike /\ Made(r) /\ r.worn = worn BY RowsAre DEF Told
  <2>2. history \in Seq(Rowlike) /\ history' = Append(history, r) /\ worn' = worn /\ accused' = R!analyze(r, history)
    BY <1>2 DEF R!Run, Told
  <2>3. history' \in Seq(Rowlike) BY <2>1, <2>2
  <2>4. ASSUME NEW i \in DOMAIN history' PROVE Made(history'[i]) /\ (history'[i].worn => worn')
    <3>1. CASE i \in DOMAIN history
      <4>1. history'[i] = history[i] BY <2>2, <3>1
      <4> QED BY <2>2, <3>1, <4>1 DEF Told
    <3>2. CASE i \notin DOMAIN history
      <4>1. history'[i] = r BY <2>2, <2>4, <3>2
      <4> QED BY <2>1, <2>2, <4>1
    <3> QED BY <3>1, <3>2
  <2>5. Compared' BY <2>1, <2>2 DEF Compared
  <2> QED BY <2>2, <2>3, <2>4, <2>5 DEF Told, Made
<1>3. ASSUME R!WearsOut PROVE Told'
  <2>1. ~worn /\ history # <<>> /\ history' = history /\ worn' = TRUE /\ accused' = {} BY <1>3 DEF R!WearsOut
  <2>2. ~R!Last.worn BY <2>1 DEF Told, R!Last
  <2>3. Compared' BY <2>1, <2>2 DEF Compared, R!Last
  <2> QED BY <2>1, <2>3 DEF Told, Made
<1> QED BY <1>1, <1>2, <1>3 DEF AllNext, Writes, Tells, Exporting, Enough, allVars, verdicts, R!Next

(* A machine that has not changed is not accused in any test, in a history *)
(* of any length that mixes settings, selections, machines and moments, as *)
(* long as most of the runs like the last one were undisturbed             *)
(* (regression.py 32-51, 120-124).                                         *)
THEOREM TheSteadyAreNotAccused == AllSpec => []SteadyIsNotAccused
<1>1. AllInit => Told
  BY ToldInit
<1>2. Told /\ [AllNext]_allVars => Told'
  BY ToldStep
<1>3. Told => SteadyIsNotAccused
  <2> SUFFICES ASSUME Told, R!Judged, NEW c \in R!Measured, c = "disk" => ~R!Last.worn,
                      R!Like(c) = {} \/ R!Mostly(c), c \in accused
               PROVE  FALSE
    BY DEF SteadyIsNotAccused, R!SteadyIsNotAccused
  <2>1. PICK q \in Rowlike, before \in Seq(Rowlike) :
            history = Append(before, q) /\ accused = R!analyze(q, before)
    BY DEF Told, Compared
  <2> DEFINE vals == R!Candidates(c, q, before)
             was == R!Median(vals)
             rest == R!AtRest(c, q.changed, FALSE)
  <2>2. /\ q.value[c] > 0 /\ DOMAIN vals # {} /\ q.value[c] < was
    BY <2>1 DEF R!analyze, R!Regressed
  <2>3. DOMAIN vals = R!Like(c) /\ R!Last = q BY <2>1, CandidatesAre
  <2>4. was = rest
    BY <2>1, <2>2, <2>3, BaselineIsAtRest DEF Told
  <2>5. q.moment = "quiet" /\ Made(q)
    <3>1. Len(history) \in DOMAIN history BY DEF R!Judged, Told
    <3> QED BY <2>3, <3>1 DEF Told, R!Judged, R!Last
  <2>6. q.value[c] = R!AtRest(c, q.changed, q.worn)
    BY <2>2, <2>5 DEF Made
  <2>7. q.value[c] = rest
    BY <2>3, <2>6 DEF R!AtRest
  <2>8. rest \in Nat BY AtRestIs
  <2> HIDE DEF was, rest
  <2> QED BY <2>2, <2>4, <2>7, <2>8
<1> QED
  BY <1>1, <1>2, <1>3, PTL DEF AllSpec

(* A drive that lost half its speed is accused by the first undisturbed    *)
(* run, whatever the length of the history: outliers neither move the      *)
(* baseline nor widen what passes for normal (regression.py 120, 170-178). *)
THEOREM TheLossIsSeen == AllSpec => []LossIsSeen
<1>1. AllInit => Told
  BY ToldInit
<1>2. Told /\ [AllNext]_allVars => Told'
  BY ToldStep
<1>3. Told => LossIsSeen
  <2> SUFFICES ASSUME Told, R!Judged, R!Last.worn, R!Last.value["disk"] > 0, R!Mostly("disk")
               PROVE  "disk" \in accused
    BY DEF LossIsSeen, R!LossIsSeen
  <2>1. PICK q \in Rowlike, before \in Seq(Rowlike) :
            history = Append(before, q) /\ accused = R!analyze(q, before)
    BY DEF Told, Compared, R!Judged
  <2>2. "disk" \in R!Measured /\ "disk" \in R!Columns BY DEF R!Columns, R!Measured
  <2> DEFINE vals == R!Candidates("disk", q, before)
             was == R!Median(vals)
             rest == R!AtRest("disk", q.changed, FALSE)
  <2>3. DOMAIN vals = R!Like("disk") /\ R!Last = q BY <2>1, <2>2, CandidatesAre
  <2>4. was = rest /\ R!Mad(vals) = 0 /\ R!Like("disk") # {}
    BY <2>1, <2>2, BaselineIsAtRest DEF Told
  <2>5. q.moment = "quiet" /\ Made(q) /\ q.worn = TRUE
    <3>1. Len(history) \in DOMAIN history BY DEF R!Judged, Told
    <3> QED BY <2>1, <2>3, <3>1 DEF Told, R!Judged, R!Last, Rowlike
  <2>6. q.value["disk"] = rest \div 2
    BY <2>2, <2>3, <2>5, AtRestIs DEF Made, R!AtRest
  <2>7. rest \in {240, 400} BY AtRestIs
  <2> HIDE DEF rest
  <2>8. /\ q.value["disk"] > 0 /\ DOMAIN vals # {} /\ q.value["disk"] < was
        /\ 10 * (was - q.value["disk"]) >= was
        /\ 10000 * (was - q.value["disk"]) >= 44478 * R!Mad(vals)
    BY <2>3, <2>4, <2>6, <2>7
  <2>9. R!Regressed("disk", q, before) BY <2>8 DEF R!Regressed
  <2> QED BY <2>1, <2>2, <2>9 DEF R!analyze
<1> QED
  BY <1>1, <1>2, <1>3, PTL DEF AllSpec

-----------------------------------------------------------------------------
(* Exports.                                                                *)

Unwritten == {"idle", "prom", "write", "replace", "sqlite", "insert", "metrics", "commit"}
Steps == Unwritten \cup {"md", "md write", "junit", "junit write"} \cup X!Ended
Files == {X!None} \cup {X!Part(r) : r \in Exporters} \cup {X!All(r) : r \in Exporters}

TypedExports ==
    /\ at \in [Exporters -> Steps] /\ pid \in [Exporters -> Pids]
    /\ temps \in [Pids -> Files] /\ prom \in Files
    /\ pending \in [Exporters -> SUBSET {"run", "metrics"}] /\ rows \in [Exporters -> SUBSET {"run", "metrics"}]
    /\ told \in [Exporters -> SUBSET {"PROM", "SQLITE", "MD", "JUNIT"}]

\* Two runs that go on at once have different process ids.
OwnPids == \A q, r \in X!Live : q # r => pid[q] # pid[r]

\* What a run that is about to publish has: a whole file, a whole row.
Ready(r) ==
    /\ at[r] = "replace" => temps[pid[r]] = X!All(r)
    /\ at[r] = "metrics" => pending[r] = {"run"}
    /\ at[r] = "commit" => pending[r] = {"run", "metrics"}
    /\ at[r] \in Unwritten => "SQLITE" \notin told[r]

Published == TypedExports /\ OwnPids /\ (\A r \in Exporters : Ready(r)) /\ X!ExportsAreWhole

\* A run that has started and not ended is live.
LEMMA LiveIs ==
    /\ X!Live = {r \in Exporters : at[r] \notin {"over", "raised", "dead", "idle"}}
    /\ \A l \in Steps, r \in Exporters : at \in [Exporters -> Steps] /\ X!Goto(r, l) =>
           /\ at' \in [Exporters -> Steps] /\ at'[r] = l
           /\ \A q \in Exporters : q # r => at'[q] = at[q]
BY DEF X!Live, X!Ended, X!Goto

\* A run that goes on or ends stays apart from the others.
LEMMA OwnPidsStay ==
    ASSUME TypedExports, OwnPids, NEW r \in X!Live, NEW l \in Steps, X!Goto(r, l), UNCHANGED pid
    PROVE  OwnPids'
<1>1. r \in Exporters /\ \A q \in X!Live' : q \in X!Live
  BY DEF X!Live, TypedExports, X!Goto
<1> QED BY <1>1 DEF OwnPids

\* A run that starts gets a process id that no live run has.
LEMMA StartStep == ASSUME Published, NEW r \in Exporters, X!Start(r) PROVE Published'
<1>1. at[r] = "idle" /\ at' = [at EXCEPT ![r] = "prom"] /\ (\A q \in X!Live : pid[q] # pid[r])
      /\ UNCHANGED <<pid, temps, prom, writer, pending, rows, summary, junit, told>>
  BY DEF X!Start, X!Goto, X!files, X!database, X!inPlace
<1>2. TypedExports' BY <1>1 DEF Published, TypedExports, Steps, Unwritten
<1>3. OwnPids'
  <2>1. \A q \in X!Live' : q = r \/ q \in X!Live BY <1>1 DEF X!Live, Published, TypedExports
  <2> QED BY <1>1, <2>1 DEF OwnPids, Published
<1>4. \A q \in Exporters : Ready(q)' BY <1>1 DEF Published, TypedExports, Ready, Unwritten
<1> QED BY <1>1, <1>2, <1>3, <1>4 DEF Published, X!ExportsAreWhole

\* A step that changes neither the files nor the database.
LEMMA GoesOn ==
    ASSUME Published, NEW r \in X!Live, NEW l \in Steps \ {"replace", "metrics", "commit"}, X!Goto(r, l),
           l \in Unwritten => at[r] \in Unwritten,
           UNCHANGED <<pid, temps, prom, rows>>,
           pending' \in [Exporters -> SUBSET {"run", "metrics"}], \A q \in Exporters : q # r => pending'[q] = pending[q],
           told' = told \/ told' = [told EXCEPT ![r] = @ \cup {"MD"}] \/ told' = [told EXCEPT ![r] = @ \cup {"JUNIT"}]
    PROVE  Published'
<1>1. r \in Exporters /\ at' = [at EXCEPT ![r] = l] BY DEF X!Live, X!Goto
<1>2. TypedExports' BY <1>1 DEF Published, TypedExports
<1>3. OwnPids' BY OwnPidsStay DEF Published
<1>4. \A q \in Exporters : /\ "SQLITE" \in told'[q] <=> "SQLITE" \in told[q]
                           /\ "PROM" \in told'[q] <=> "PROM" \in told[q]
  BY <1>1 DEF Published, TypedExports
<1>5. \A q \in Exporters : Ready(q)' BY <1>1, <1>4 DEF Published, TypedExports, Ready
<1>6. X!ExportsAreWhole' BY <1>4 DEF Published, X!ExportsAreWhole
<1> QED BY <1>2, <1>3, <1>5, <1>6 DEF Published

\* The temporary file is the run's own, and whole when it is renamed.
LEMMA PromStep == ASSUME Published, NEW r \in Exporters, X!save_prometheus(r) PROVE Published'
<1>1. at[r] \in {"prom", "write", "replace"}
  BY DEF X!save_prometheus, X!OpenTemp, X!WriteTemp, X!Replace, X!PromFails
<1>2. r \in X!Live BY <1>1, LiveIs
<1>3. \A q \in Exporters : q # r /\ at[q] = "replace" => pid[q] # pid[r]
  BY <1>2, LiveIs DEF Published, OwnPids
<1>4. ASSUME NEW file \in {X!Part(r), X!All(r)}, temps' = [temps EXCEPT ![pid[r]] = file],
             NEW l \in {"write", "replace"}, at' = [at EXCEPT ![r] = l], l = "replace" => file = X!All(r),
             UNCHANGED <<pid, prom, pending, rows, told>>
      PROVE  Published'
  <2>1. TypedExports' BY <1>4 DEF Published, TypedExports, Files, Steps, Unwritten
  <2>2. OwnPids' BY <1>2, <1>4, OwnPidsStay DEF Published, X!Goto, Steps, Unwritten
  <2>3. \A q \in Exporters : Ready(q)' BY <1>1, <1>3, <1>4 DEF Published, TypedExports, Ready, Unwritten
  <2>4. X!ExportsAreWhole' BY <1>4 DEF Published, X!ExportsAreWhole
  <2> QED BY <2>1, <2>2, <2>3, <2>4 DEF Published
<1>5. CASE X!OpenTemp(r)
  BY <1>4, <1>5, Zenon DEF X!OpenTemp, X!Temp, X!Goto, X!database
<1>6. CASE X!WriteTemp(r)
  BY <1>4, <1>6, Zenon DEF X!WriteTemp, X!Temp, X!Goto, X!database
<1>7. CASE X!Replace(r)
  <2>1. /\ at[r] = "replace" /\ prom' = temps[pid[r]] /\ temps' = [temps EXCEPT ![pid[r]] = X!None]
        /\ told' = [told EXCEPT ![r] = @ \cup {"PROM"}] /\ at' = [at EXCEPT ![r] = "sqlite"]
        /\ UNCHANGED <<pid, pending, rows>>
    BY <1>7 DEF X!Replace, X!Temp, X!Tell, X!Goto, X!database
  <2>2. prom' = X!All(r) BY <2>1 DEF Published, Ready
  <2>3. prom' # X!None /\ prom'.whole BY <2>2 DEF X!All, X!None
  <2>4. TypedExports' BY <2>1 DEF Published, TypedExports, Files, Steps, Unwritten
  <2>5. OwnPids' BY <1>2, <2>1, OwnPidsStay DEF Published, X!Goto, Steps, Unwritten
  <2>6. \A q \in Exporters : Ready(q)' BY <1>1, <1>3, <2>1 DEF Published, TypedExports, Ready, Unwritten
  <2>7. X!ExportsAreWhole' BY <2>1, <2>3 DEF Published, TypedExports, X!ExportsAreWhole
  <2> QED BY <2>4, <2>5, <2>6, <2>7 DEF Published
<1>8. CASE X!PromFails(r)
  <2>1. X!Goto(r, "sqlite") /\ UNCHANGED <<pid, temps, prom, rows, pending, told>>
    BY <1>8 DEF X!PromFails, X!files, X!database
  <2> QED BY <1>1, <1>2, <2>1, GoesOn DEF Published, TypedExports, Steps, Unwritten
<1> QED BY <1>5, <1>6, <1>7, <1>8 DEF X!save_prometheus

\* A row is published with its metrics, when both are in.
LEMMA SqliteStep == ASSUME Published, NEW r \in Exporters, X!save_sqlite(r) PROVE Published'
<1>1. at[r] \in {"sqlite", "insert", "metrics", "commit"}
  BY DEF X!save_sqlite, X!Schema, X!InsertRun, X!InsertMetrics, X!Commit, X!SqliteFails
<1>2. r \in X!Live BY <1>1, LiveIs
<1>3. CASE X!Schema(r)
  <2>1. X!Goto(r, "insert") /\ UNCHANGED <<pid, temps, prom, rows, pending, told>>
    BY <1>3 DEF X!Schema, X!files, X!database
  <2> QED BY <1>1, <1>2, <2>1, GoesOn DEF Published, TypedExports, Steps, Unwritten
<1>4. CASE X!InsertRun(r)
  <2>1. /\ at' = [at EXCEPT ![r] = "metrics"] /\ at[r] = "insert" /\ pending' = [pending EXCEPT ![r] = {"run"}]
        /\ rows' = [rows EXCEPT ![r] = {}] /\ UNCHANGED <<pid, temps, prom, told>>
    BY <1>4 DEF X!InsertRun, X!Goto, X!files, X!BeforeCommit
  <2>2. TypedExports' BY <2>1 DEF Published, TypedExports, Steps, Unwritten
  <2>3. OwnPids' BY <1>2, <2>1, OwnPidsStay DEF Published, X!Goto, Steps, Unwritten
  <2>4. \A q \in Exporters : Ready(q)' BY <2>1 DEF Published, TypedExports, Ready, Unwritten
  <2>5. "SQLITE" \notin told[r] BY <2>1 DEF Published, Ready, Unwritten
  <2>6. X!ExportsAreWhole' BY <2>1, <2>5 DEF Published, TypedExports, X!ExportsAreWhole
  <2> QED BY <2>2, <2>3, <2>4, <2>6 DEF Published
<1>5. CASE X!InsertMetrics(r)
  <2>1. /\ at' = [at EXCEPT ![r] = "commit"] /\ at[r] = "metrics"
        /\ pending' = [pending EXCEPT ![r] = @ \cup {"metrics"}] /\ UNCHANGED <<pid, temps, prom, rows, told>>
    BY <1>5 DEF X!InsertMetrics, X!Goto, X!files
  <2>2. TypedExports' BY <2>1 DEF Published, TypedExports, Steps, Unwritten
  <2>3. OwnPids' BY <1>2, <2>1, OwnPidsStay DEF Published, X!Goto, Steps, Unwritten
  <2>4. \A q \in Exporters : Ready(q)' BY <2>1 DEF Published, TypedExports, Ready, Unwritten
  <2>5. X!ExportsAreWhole' BY <2>1 DEF Published, X!ExportsAreWhole
  <2> QED BY <2>2, <2>3, <2>4, <2>5 DEF Published
<1>6. CASE X!Commit(r)
  <2>1. /\ at' = [at EXCEPT ![r] = "md"] /\ at[r] = "commit" /\ pending' = [pending EXCEPT ![r] = {}]
        /\ rows' = [rows EXCEPT ![r] = pending[r]] /\ told' = [told EXCEPT ![r] = @ \cup {"SQLITE"}]
        /\ UNCHANGED <<pid, temps, prom>>
    BY <1>6 DEF X!Commit, X!Tell, X!Goto, X!files
  <2>2. pending[r] = {"run", "metrics"} BY <2>1 DEF Published, Ready
  <2>3. TypedExports' BY <2>1 DEF Published, TypedExports, Steps, Unwritten
  <2>4. OwnPids' BY <1>2, <2>1, OwnPidsStay DEF Published, X!Goto, Steps, Unwritten
  <2>5. \A q \in Exporters : Ready(q)' BY <2>1 DEF Published, TypedExports, Ready, Unwritten
  <2>6. X!ExportsAreWhole' BY <2>1, <2>2 DEF Published, TypedExports, X!ExportsAreWhole
  <2> QED BY <2>3, <2>4, <2>5, <2>6 DEF Published
<1>7. CASE X!SqliteFails(r)
  <2>1. X!Goto(r, "md") /\ UNCHANGED <<pid, temps, prom, rows, told>> /\ pending' = [pending EXCEPT ![r] = {}]
    BY <1>7 DEF X!SqliteFails, X!Release, X!files
  <2>2. pending' \in [Exporters -> SUBSET {"run", "metrics"}] /\ \A q \in Exporters : q # r => pending'[q] = pending[q]
    BY <2>1 DEF Published, TypedExports
  <2> QED BY <1>2, <2>1, <2>2, GoesOn DEF Steps, Unwritten
<1> QED BY <1>3, <1>4, <1>5, <1>6, <1>7 DEF X!save_sqlite

\* The other steps touch neither.
LEMMA OtherStep ==
    ASSUME Published, NEW r \in Exporters,
           X!Skip(r) \/ X!save_markdown(r) \/ X!save_junit(r) \/ X!Kill(r)
    PROVE  Published'
<1>0. pending \in [Exporters -> SUBSET {"run", "metrics"}] BY DEF Published, TypedExports
<1>1. CASE X!Skip(r)
  <2>1. at[r] \in {"prom", "sqlite", "md", "junit"} /\ X!Goto(r, X!After[at[r]])
        /\ UNCHANGED <<pid, temps, prom, rows, pending, told>>
    BY <1>1 DEF X!Skip, X!After, X!files, X!database
  <2>2. r \in X!Live BY <2>1, LiveIs
  <2>3. PICK l \in {"sqlite", "md", "junit", "over"} : X!Goto(r, l) /\ (l = "sqlite" => at[r] = "prom")
    BY <2>1 DEF X!After
  <2> QED BY <1>0, <2>1, <2>2, <2>3, GoesOn DEF Steps, Unwritten, X!Ended
<1>2. CASE X!save_markdown(r)
  <2>1. at[r] \in {"md", "md write"} /\ UNCHANGED <<pid, temps, prom, rows, pending>>
        /\ (told' = told \/ told' = [told EXCEPT ![r] = @ \cup {"MD"}])
    BY <1>2 DEF X!save_markdown, X!files, X!database, X!Tell
  <2>2. r \in X!Live BY <2>1, LiveIs
  <2>3. PICK l \in {"md write", "junit"} : X!Goto(r, l)
    BY <1>2 DEF X!save_markdown
  <2> QED BY <1>0, <2>1, <2>2, <2>3, GoesOn DEF Steps, Unwritten, X!Ended
<1>3. CASE X!save_junit(r)
  <2>1. at[r] \in {"junit", "junit write"} /\ UNCHANGED <<pid, temps, prom, rows, pending>>
        /\ (told' = told \/ told' = [told EXCEPT ![r] = @ \cup {"JUNIT"}])
    BY <1>3 DEF X!save_junit, X!files, X!database, X!Tell
  <2>2. r \in X!Live BY <2>1, LiveIs
  <2>3. PICK l \in {"junit write", "over", "raised"} : X!Goto(r, l)
    BY <1>3 DEF X!save_junit
  <2> QED BY <1>0, <2>1, <2>2, <2>3, GoesOn DEF Steps, Unwritten, X!Ended
<1>4. CASE X!Kill(r)
  <2>1. r \in X!Live /\ X!Goto(r, "dead") /\ UNCHANGED <<pid, temps, prom, rows, told>>
        /\ pending' = [pending EXCEPT ![r] = {}]
    BY <1>4 DEF X!Kill, X!Release, X!files
  <2>2. pending' \in [Exporters -> SUBSET {"run", "metrics"}] /\ \A q \in Exporters : q # r => pending'[q] = pending[q]
    BY <1>0, <2>1
  <2> QED BY <2>1, <2>2, GoesOn DEF Steps, Unwritten, X!Ended
<1> QED BY <1>1, <1>2, <1>3, <1>4

(* Whatever the exporters and the process ids, whenever runs are killed:   *)
(* no collector reads half a file, no query finds a run without its        *)
(* metrics, and what a run said it wrote is there (export.py 126-137,      *)
(* 257-298).                                                               *)
THEOREM TheExportsAreWhole == AllSpec => []ExportsAreWhole
<1>1. AllInit => Published
  <2> SUFFICES ASSUME AllInit PROVE Published
    OBVIOUS
  <2>1. X!Init BY DEF AllInit
  <2>2. TypedExports BY <2>1 DEF X!Init, TypedExports, Files, Steps, Unwritten
  <2>3. OwnPids BY <2>1 DEF X!Init, OwnPids, X!Live
  <2>4. \A r \in Exporters : Ready(r) BY <2>1 DEF X!Init, Ready
  <2>5. X!ExportsAreWhole BY <2>1 DEF X!Init, X!ExportsAreWhole
  <2> QED BY <2>2, <2>3, <2>4, <2>5 DEF Published
<1>2. Published /\ [AllNext]_allVars => Published'
  <2> SUFFICES ASSUME Published, [AllNext]_allVars PROVE Published'
    OBVIOUS
  <2>1. CASE UNCHANGED exports
    <3>1. UNCHANGED <<at, pid, temps, prom, pending, rows, told>> BY <2>1 DEF exports
    <3>2. TypedExports' /\ OwnPids' BY <3>1 DEF Published, TypedExports, OwnPids, X!Live
    <3>3. (\A r \in Exporters : Ready(r)') /\ X!ExportsAreWhole' BY <3>1 DEF Published, Ready, X!ExportsAreWhole
    <3> QED BY <3>2, <3>3 DEF Published
  <2>2. CASE X!Next
    <3>1. X!Over => UNCHANGED exports BY DEF X!Over, X!vars, exports
    <3> QED BY <2>1, <2>2, <3>1, StartStep, PromStep, SqliteStep, OtherStep DEF X!Next
  <2> QED BY <2>1, <2>2 DEF AllNext, Writes, Tells, Exporting, allVars
<1>3. Published => ExportsAreWhole BY DEF Published, ExportsAreWhole
<1> QED BY <1>1, <1>2, <1>3, PTL DEF AllSpec
=============================================================================
