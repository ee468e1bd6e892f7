-------------------------------- MODULE Soak --------------------------------
(***************************************************************************)
(* The burn-in of pcbench/soak.py: worker processes run self-validating    *)
(* units until the duration is over and send their counts through one      *)
(* multiprocessing queue; the parent drains the queue, watches the         *)
(* temperature and, when it stops, states a verdict about the hardware.    *)
(*                                                                         *)
(* One round of a worker is one pass of its loop (one unit of every kind). *)
(* A wrong answer is <<worker, round, kind>>, which is what the record of  *)
(* an error (pid, elapsed_s, unit) identifies.  units counts rounds.       *)
(***************************************************************************)
EXTENDS Naturals, Sequences

CONSTANTS
    Workers,    \* the load processes
    Kinds,      \* the kinds of validating units
    Raising,    \* the kinds whose check can raise on a corrupted result
    MaxRounds   \* bound: rounds a worker completes

ASSUME SoakAssumption == Raising \subseteq Kinds /\ MaxRounds \in Nat

VARIABLES
    pc,           \* where each worker is
    units,        \* rounds each worker has completed
    local,        \* each worker's list `errors`, not reported yet
    made,         \* every wrong answer the hardware gave (history)
    buffer,       \* messages each worker put, still in its feeder thread
    feeder,       \* where each feeder thread is with the queue's write lock
    pipe,         \* messages in the pipe of the queue
    lossy,        \* workers that died before their last message was sent
    sigterm,      \* live workers terminate() was called on
    sigint,       \* live workers with a KeyboardInterrupt pending
    timeUp,       \* the duration is over
    phase,        \* where the parent is
    hand,         \* the message the parent took and has not counted yet
    units_by_pid, \* the parent's counts
    errors_seen,  \* how often the parent's list holds each wrong answer
    aborted       \* "no", "hot", or "user" (then interrupted is true)

workerVars == <<pc, units, local, made, buffer, feeder, lossy>>
parentVars == <<phase, hand, units_by_pid, errors_seen, aborted>>
vars == <<workerVars, parentVars, pipe, sigterm, sigint, timeUp>>

Error == Workers \X (1 .. MaxRounds) \X Kinds
Message == [pid : Workers, units : 0 .. MaxRounds, errors : SUBSET Error]
Alive == {w \in Workers : pc[w] \notin {"exited", "dead"}}
Reported == {e \in Error : errors_seen[e] > 0}

TypeOK ==
    /\ pc \in [Workers -> {"work", "reset", "final", "flush", "exited", "dead"}]
    /\ units \in [Workers -> 0 .. MaxRounds]
    /\ local \in [Workers -> SUBSET Error]
    /\ made \subseteq Error
    /\ buffer \in [Workers -> Seq(Message)]
    /\ feeder \in [Workers -> {"idle", "holds", "torn"}]
    /\ pipe \in Seq(Message)
    /\ lossy \subseteq Workers /\ sigterm \subseteq Workers /\ sigint \subseteq Workers
    /\ timeUp \in BOOLEAN
    /\ phase \in {"watch", "drain", "stop", "final", "last", "done", "raised"}
    /\ hand \in {<<>>} \cup {<<m>> : m \in Message}
    /\ units_by_pid \in [Workers -> 0 .. MaxRounds]
    /\ errors_seen \in [Error -> Nat]
    /\ aborted \in {"no", "hot", "user"}

Init ==
    /\ pc = [w \in Workers |-> "work"]
    /\ units = [w \in Workers |-> 0]
    /\ local = [w \in Workers |-> {}]
    /\ made = {}
    /\ buffer = [w \in Workers |-> <<>>]
    /\ feeder = [w \in Workers |-> "idle"]
    /\ pipe = <<>>
    /\ lossy = {} /\ sigterm = {} /\ sigint = {}
    /\ timeUp = FALSE
    /\ phase = "watch"
    /\ hand = <<>>
    /\ units_by_pid = [w \in Workers |-> 0]
    /\ errors_seen = [e \in Error |-> 0]
    /\ aborted = "no"

-----------------------------------------------------------------------------
(* The workers: _worker.                                                   *)

\* The model ends where run returns or raises.
Ended == phase \in {"done", "raised"}

At(w, l) == ~Ended /\ pc[w] = l
Live(w) == ~Ended /\ w \in Alive
Goto(w, l) == pc' = [pc EXCEPT ![w] = l]

Put(w, n, es) == buffer' = [buffer EXCEPT ![w] =
                    Append(@, [pid |-> w, units |-> n, errors |-> es])]

\* One pass over the units; whether a report is due depends on the clock.
Round(w) ==
    /\ At(w, "work")
    /\ units[w] < MaxRounds
    /\ \E bad \in SUBSET Kinds :
          LET wrong == {<<w, units[w] + 1, k>> : k \in bad}
          IN /\ made' = made \cup wrong
             /\ local' = [local EXCEPT ![w] = @ \cup wrong]
    /\ units' = [units EXCEPT ![w] = @ + 1]
    /\ \/ Goto(w, "work") /\ UNCHANGED buffer
       \/ Goto(w, "reset") /\ Put(w, units'[w], local'[w])
    /\ UNCHANGED <<feeder, lossy, parentVars, pipe, sigterm, sigint, timeUp>>

\* zlib.decompress raises on a corrupted stream: the exception leaves the
\* loop, and the process exits after its feeder thread is flushed.
Raise(w) ==
    /\ At(w, "work")
    /\ units[w] < MaxRounds
    /\ \E k \in Raising : made' = made \cup {<<w, units[w] + 1, k>>}
    /\ local' = [local EXCEPT ![w] = {}]
    /\ lossy' = lossy \cup {w}
    /\ Goto(w, "flush")
    /\ UNCHANGED <<units, buffer, feeder, parentVars, pipe, sigterm, sigint, timeUp>>

LocalKept(w) == local[w]
LocalAfterReport(w) == {}

\* `errors = []` is a statement of its own after queue.put.
Reset(w) ==
    /\ At(w, "reset")
    /\ local' = [local EXCEPT ![w] = LocalAfterReport(w)]
    /\ Goto(w, "work")
    /\ UNCHANGED <<units, made, buffer, feeder, lossy, parentVars, pipe, sigterm, sigint, timeUp>>

Finish(w) ==
    /\ At(w, "work")
    /\ timeUp
    /\ Goto(w, "final")
    /\ UNCHANGED <<units, local, made, buffer, feeder, lossy, parentVars, pipe, sigterm, sigint, timeUp>>

FinalPut(w) ==
    /\ At(w, "final")
    /\ Put(w, units[w], local[w])
    /\ local' = [local EXCEPT ![w] = {}]
    /\ Goto(w, "flush")
    /\ UNCHANGED <<units, made, feeder, lossy, parentVars, pipe, sigterm, sigint, timeUp>>

\* A process that used a queue joins the feeder thread before it exits.
Exit(w) ==
    /\ At(w, "flush")
    /\ buffer[w] = <<>> /\ feeder[w] = "idle"
    /\ Goto(w, "exited")
    /\ sigint' = sigint \ {w}
    /\ sigterm' = sigterm \ {w}
    /\ UNCHANGED <<units, local, made, buffer, feeder, lossy, parentVars, pipe, timeUp>>

(* The feeders of all processes share one write lock, a semaphore: whoever *)
(* dies with it takes it along.                                            *)
LockIsFree == \A w \in Workers : feeder[w] = "idle"

Feed(w) ==
    /\ Live(w)
    /\ buffer[w] # <<>>
    /\ LockIsFree
    /\ feeder' = [feeder EXCEPT ![w] = "holds"]
    /\ pipe' = Append(pipe, Head(buffer[w]))
    /\ buffer' = [buffer EXCEPT ![w] = Tail(@)]
    /\ UNCHANGED <<pc, units, local, made, lossy, parentVars, sigterm, sigint, timeUp>>

Release(w) ==
    /\ Live(w)
    /\ feeder[w] = "holds"
    /\ feeder' = [feeder EXCEPT ![w] = "idle"]
    /\ UNCHANGED <<pc, units, local, made, buffer, lossy, parentVars, pipe, sigterm, sigint, timeUp>>

\* A feeder may die before, in or after its write; in, if the message is
\* longer than what the pipe takes at once.
Perish(w) ==
    /\ local' = [local EXCEPT ![w] = {}]
    /\ buffer' = [buffer EXCEPT ![w] = <<>>]
    /\ \/ UNCHANGED feeder
       \/ /\ buffer[w] # <<>> /\ LockIsFree
          /\ \E end \in {"holds", "torn"} : feeder' = [feeder EXCEPT ![w] = end]
    /\ lossy' = lossy \cup {w}
    /\ Goto(w, "dead")
    /\ sigint' = sigint \ {w}
    /\ sigterm' = sigterm \ {w}
    /\ UNCHANGED <<units, made, parentVars, pipe, timeUp>>

\* SIGTERM has no handler: the process dies where it stands.
Terminated(w) == Live(w) /\ w \in sigterm /\ Perish(w)

\* The kernel or a fault kills a worker the parent did not ask to stop.
Crash(w) == Live(w) /\ w \notin sigterm /\ Perish(w)

\* Ctrl-C in a terminal reaches the workers too.  Inside the loop it leads to
\* the last put; after the loop nothing catches it.
KeyboardInterrupt(w) ==
    /\ Live(w)
    /\ w \in sigint
    /\ sigint' = sigint \ {w}
    /\ \/ /\ pc[w] \in {"work", "reset"}
          /\ Goto(w, "final")
          /\ UNCHANGED <<units, local, made, buffer, feeder, lossy, parentVars, pipe, sigterm, timeUp>>
       \/ /\ pc[w] = "final"
          /\ Goto(w, "flush")
          /\ local' = [local EXCEPT ![w] = {}]
          /\ lossy' = lossy \cup {w}
          /\ UNCHANGED <<units, made, buffer, feeder, parentVars, pipe, sigterm, timeUp>>
       \/ pc[w] = "flush" /\ Perish(w)

TimeUp == ~Ended /\ ~timeUp /\ timeUp' = TRUE /\ UNCHANGED <<workerVars, parentVars, pipe, sigterm, sigint>>

-----------------------------------------------------------------------------
(* The parent: run.                                                        *)

CountsTheDead == \E w \in Workers : pc[w] # "exited"
StillRunning == Alive # {}

\* What is left of a torn message never becomes a whole one, and nobody can
\* write after it: a get that reaches it waits for ever.
Torn == \E w \in Workers : feeder[w] = "torn"
Nothing == pipe = <<>> /\ ~Torn

\* while any(p.is_alive() ...)
Watch ==
    /\ phase = "watch"
    /\ phase' = IF StillRunning THEN "drain" ELSE "stop"
    /\ UNCHANGED <<workerVars, hand, units_by_pid, errors_seen, aborted, pipe, sigterm, sigint, timeUp>>

Take ==
    /\ phase \in {"drain", "final"}
    /\ hand = <<>>
    /\ pipe # <<>>
    /\ hand' = <<Head(pipe)>>
    /\ pipe' = Tail(pipe)
    /\ UNCHANGED <<workerVars, phase, units_by_pid, errors_seen, aborted, sigterm, sigint, timeUp>>

SummedUnits(m) == m.units + units_by_pid[m.pid]
NewUnits(m) == IF m.units > units_by_pid[m.pid] THEN m.units ELSE units_by_pid[m.pid]

LatestErrors(m) == [e \in Error |-> IF e \in m.errors THEN 1 ELSE 0]
NewErrors(m) == [e \in Error |-> errors_seen[e] + IF e \in m.errors THEN 1 ELSE 0]

\* drain(msg): counts are cumulative, errors incremental.
Drain ==
    /\ phase \in {"drain", "final"}
    /\ hand # <<>>
    /\ units_by_pid' = [units_by_pid EXCEPT ![Head(hand).pid] = NewUnits(Head(hand))]
    /\ errors_seen' = NewErrors(Head(hand))
    /\ hand' = <<>>
    /\ UNCHANGED <<workerVars, phase, aborted, pipe, sigterm, sigint, timeUp>>

\* The queue is empty; read the temperature.
Measure ==
    /\ phase = "drain"
    /\ hand = <<>>
    /\ Nothing
    /\ \/ phase' = "watch" /\ UNCHANGED aborted
       \/ phase' = "stop" /\ aborted' = "hot"
    /\ UNCHANGED <<workerVars, hand, units_by_pid, errors_seen, pipe, sigterm, sigint, timeUp>>

\* KeyboardInterrupt in the loop.  A message in hand is lost, with its units
\* counted if the first line of drain() had run; so is what a get that waits
\* for the rest of a torn message has read.
Swallowed(w) == feeder[w] = "torn" /\ phase = "drain" /\ hand = <<>> /\ pipe = <<>>

CtrlC ==
    /\ phase \in {"watch", "drain"}
    /\ aborted' = "user"
    /\ phase' = "stop"
    /\ \/ UNCHANGED units_by_pid
       \/ /\ hand # <<>>
          /\ units_by_pid' = [units_by_pid EXCEPT ![Head(hand).pid] = NewUnits(Head(hand))]
    /\ hand' = <<>>
    /\ sigint' \in {{}, Alive}
    /\ feeder' \in {feeder, [w \in Workers |-> IF Swallowed(w) THEN "holds" ELSE feeder[w]]}
    /\ UNCHANGED <<pc, units, local, made, buffer, lossy, errors_seen, pipe, sigterm, timeUp>>

Stop ==
    /\ phase = "stop"
    /\ sigterm' = Alive
    /\ phase' = "final"
    /\ UNCHANGED <<workerVars, hand, units_by_pid, errors_seen, aborted, pipe, sigint, timeUp>>

NoFinalDrain == hand = <<>>
FinalWait == hand = <<>> /\ Nothing

\* queue.get timed out.
Empty ==
    /\ phase = "final"
    /\ FinalWait
    /\ phase' = "last"
    /\ UNCHANGED <<workerVars, hand, units_by_pid, errors_seen, aborted, pipe, sigterm, sigint, timeUp>>

\* Only then are the processes looked at; the deadline ends the wait anyway.
Last ==
    /\ phase = "last"
    /\ \/ phase' = "done"
       \/ Alive # {} /\ phase' = "final"
    /\ UNCHANGED <<workerVars, hand, units_by_pid, errors_seen, aborted, pipe, sigterm, sigint, timeUp>>

\* A Ctrl-C after the loop is not caught: no result is built, and
\* the daemon processes are terminated as the interpreter leaves.
Escape ==
    /\ phase \in {"stop", "final", "last"}
    /\ phase' = "raised"
    /\ sigterm' = Alive
    /\ UNCHANGED <<workerVars, hand, units_by_pid, errors_seen, aborted, pipe, sigint, timeUp>>

completed == aborted = "no" /\ timeUp
interrupted == aborted = "user"

\* verdict(result), of a run that reached its end.
verdict ==
    CASE Reported # {} -> "UNSTABLE"
      [] Reported = {} /\ aborted = "hot" -> "INCONCLUSIVE"
      [] Reported = {} /\ interrupted -> "INCOMPLETE"
      [] OTHER -> "STABLE"

-----------------------------------------------------------------------------
Over == Ended /\ UNCHANGED vars

Work(w) == Round(w) \/ Raise(w) \/ Reset(w) \/ Finish(w) \/ FinalPut(w) \/ Exit(w)
Send(w) == Feed(w) \/ Release(w)
Parent == Watch \/ Take \/ Drain \/ Measure \/ Stop \/ Empty \/ Last

Next ==
    \/ \E w \in Workers :
          Work(w) \/ Send(w) \/ Terminated(w) \/ Crash(w) \/ KeyboardInterrupt(w)
    \/ TimeUp \/ Parent \/ CtrlC \/ Escape \/ Over

Spec == Init /\ [][Next]_vars

(* Every process and thread keeps being scheduled and the clock advances;  *)
(* crashes, heat and key presses are never owed.  Two feeders cannot keep  *)
(* a third from the lock, since they run out of messages.                  *)
Fairness ==
    /\ WF_vars(Parent) /\ WF_vars(TimeUp)
    /\ \A w \in Workers : WF_vars(Work(w)) /\ WF_vars(Send(w)) /\ WF_vars(Terminated(w))

FairSpec == Spec /\ Fairness

-----------------------------------------------------------------------------
InHand(e) == hand # <<>> /\ e \in Head(hand).errors
InPipe(e) == \E i \in DOMAIN pipe : e \in pipe[i].errors
InBuffer(e) == \E i \in DOMAIN buffer[e[1]] : e \in buffer[e[1]][i].errors

(* A wrong answer that the parent does not know of is still on its way, or *)
(* its worker died: nothing else on the path from `errors` through the     *)
(* feeder and the pipe to errors_seen drops one (soak.py 107-121, 152-155).*)
LossNeedsADeath ==
    ~interrupted =>
        \A e \in made : \/ e \in Reported \/ e \in local[e[1]] \/ e[1] \in lossy
                       \/ InHand(e) \/ InPipe(e) \/ InBuffer(e)

(* The error count accuses the hardware of nothing it did not do, and of   *)
(* each wrong answer once: reports are incremental (soak.py 114-117).      *)
NeverOvercounted ==
    ~interrupted =>
        \A e \in Error : errors_seen[e] <= IF e \in made THEN 1 ELSE 0

(* "N validated work units with zero wrong answers" (soak.py 267-270) is   *)
(* literally true: of a round the parent has credited, at any moment and   *)
(* however the workers die, every wrong answer is in errors_seen.          *)
CreditedUnitsAreJudged ==
    ~interrupted =>
        \A e \in made : e[2] <= units_by_pid[e[1]] => e \in Reported

(* A run that ends because every process ended has counted all the work    *)
(* and all the wrong answers of each worker that ended in order: the last  *)
(* message of soak.py 121 is never missed by the drain of 201-207.         *)
SurvivorsFullyCounted ==
    phase = "done" /\ aborted = "no" =>
        \A w \in Workers \ lossy :
            /\ units_by_pid[w] = units[w]
            /\ \A e \in made : e[1] = w => errors_seen[e] = 1

\* A worker died with the write lock while others still have to report, or in
\* the middle of a message: soak.py 166 and 171 have no deadline.
Stuck ==
    \/ Torn
    \/ /\ phase \in {"watch", "drain"} /\ Alive # {}
       /\ \E w \in Workers : pc[w] = "dead" /\ feeder[w] # "idle"

(* The burn-in implements the ledger of SoakPromise: a tally made of real  *)
(* wrong answers only, that never loses one and is closed eventually,      *)
(* unless a worker dies at the pipe (soak.py 165-209).                     *)
Promise == INSTANCE SoakPromise WITH
    found <- made, counted <- Reported, stuck <- Stuck,
    state <- CASE phase = "done" -> "reported"
               [] phase = "raised" -> "abandoned"
               [] OTHER -> "running"

PromiseKept == Promise!FairSpec

-----------------------------------------------------------------------------
(* What the program and its documents say, and the code does not do.       *)

(* soak.py 261: after a thermal abort, "No wrong answers were produced".   *)
AbortSawNoWrongAnswer == phase = "done" /\ verdict = "INCONCLUSIVE" => made = {}

(* README.md 415: "Ctrl-C keeps every finding so far."                     *)
CtrlCKeepsFindings == phase = "done" /\ interrupted => made \subseteq Reported

(* soak.py 16: the burn-in "counts every mismatch"; here in a run with no  *)
(* abort in which every process ended by itself.                           *)
EveryMismatchCounted ==
    phase = "done" /\ aborted = "no" /\ (\A w \in Workers : pc[w] = "exited")
        => made \subseteq Reported

(* soak.py 132: run "Returns as soon as the duration elapses or the        *)
(* thermal abort limit is hit."                                            *)
RunsItsDuration == phase = "done" /\ aborted = "no" => timeUp

(* The same sentence: "as soon as the duration elapses" is at least once it*)
(* has, whatever died at the pipe.                                         *)
ReturnsAfterItsDuration == timeUp ~> Ended
=============================================================================
