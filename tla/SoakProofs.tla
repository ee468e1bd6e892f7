----------------------------- MODULE SoakProofs -----------------------------
(***************************************************************************)
(* Theorems about Soak, for any set of workers, any kinds of unit and any  *)
(* number of rounds.                                                       *)
(***************************************************************************)
EXTENDS Soak, TLAPS

(* What Append, Head and Tail give, element by element.                    *)
LEMMA AppendFacts ==
    ASSUME NEW S, NEW s \in Seq(S), NEW m \in S
    PROVE  /\ Append(s, m) \in Seq(S)
           /\ Len(Append(s, m)) = Len(s) + 1
           /\ DOMAIN Append(s, m) = 1 .. Len(s) + 1
           /\ \A i \in 1 .. Len(s) : Append(s, m)[i] = s[i]
           /\ Append(s, m)[Len(s) + 1] = m
  OBVIOUS

(* The first element of a sequence that is not empty, and the rest.        *)
LEMMA TailFacts ==
    ASSUME NEW S, NEW s \in Seq(S), s # <<>>
    PROVE  /\ Head(s) \in S
           /\ Head(s) = s[1]
           /\ Tail(s) \in Seq(S)
           /\ DOMAIN s = 1 .. Len(s)
           /\ Len(s) \in Nat \ {0}
           /\ DOMAIN Tail(s) = 1 .. Len(s) - 1
           /\ \A i \in 1 .. Len(s) - 1 : Tail(s)[i] = s[i + 1]
  OBVIOUS

(* A message made of a worker's state is a message.                        *)
LEMMA PutType ==
    ASSUME NEW w \in Workers, NEW n \in 0 .. MaxRounds, NEW es \in SUBSET Error,
           buffer \in [Workers -> Seq(Message)], Put(w, n, es)
    PROVE  buffer' \in [Workers -> Seq(Message)]
  <1> DEFINE m == [pid |-> w, units |-> n, errors |-> es]
  <1>1. m \in Message
    BY DEF Message
  <1>2. Append(buffer[w], m) \in Seq(Message)
    BY <1>1
  <1> QED
    BY <1>2 DEF Put

(* The wrong answers of one round are wrong answers.                       *)
LEMMA WrongType ==
    ASSUME NEW w \in Workers, NEW n \in 0 .. MaxRounds, n < MaxRounds, NEW k \in Kinds
    PROVE  <<w, n + 1, k>> \in Error
  BY SoakAssumption DEF Error

(* Every variable keeps its type: in particular units_by_pid never exceeds *)
(* the rounds a worker can run, and the parent holds one message at most.  *)
THEOREM TypeCorrect == Spec => []TypeOK
  <1>1. Init => TypeOK
    <2> SUFFICES ASSUME Init PROVE TypeOK
      OBVIOUS
    <2> USE DEF Init
    <2>1. 0 \in 0 .. MaxRounds
      BY SoakAssumption
    <2>2. units \in [Workers -> 0 .. MaxRounds] /\ units_by_pid \in [Workers -> 0 .. MaxRounds]
      BY <2>1
    <2>3. <<>> \in Seq(Message)
      OBVIOUS
    <2>4. buffer \in [Workers -> Seq(Message)] /\ pipe \in Seq(Message)
      BY <2>3
    <2>5. /\ local \in [Workers -> SUBSET Error] /\ errors_seen \in [Error -> Nat]
          /\ feeder \in [Workers -> {"idle", "holds", "torn"}]
      OBVIOUS
    <2> QED
      BY <2>2, <2>4, <2>5 DEF TypeOK
  <1>2. TypeOK /\ [Next]_vars => TypeOK'
    <2> SUFFICES ASSUME TypeOK, [Next]_vars PROVE TypeOK'
      OBVIOUS
    <2> USE DEF TypeOK
    <2>1. ASSUME NEW w \in Workers, Round(w) PROVE TypeOK'
      <3>1. PICK bad \in SUBSET Kinds :
               /\ made' = made \cup {<<w, units[w] + 1, k>> : k \in bad}
               /\ local' = [local EXCEPT ![w] = @ \cup {<<w, units[w] + 1, k>> : k \in bad}]
        BY <2>1 DEF Round
      <3>2. units[w] \in 0 .. MaxRounds /\ units[w] < MaxRounds
        BY <2>1 DEF Round
      <3>3. {<<w, units[w] + 1, k>> : k \in bad} \subseteq Error
        BY <3>2, WrongType
      <3>4. made' \subseteq Error /\ local' \in [Workers -> SUBSET Error]
        BY <3>1, <3>3
      <3>5. units' \in [Workers -> 0 .. MaxRounds] /\ units'[w] \in 0 .. MaxRounds
        BY <2>1, <3>2, SoakAssumption DEF Round
      <3>6. local'[w] \in SUBSET Error
        BY <3>4
      <3>7. buffer' \in [Workers -> Seq(Message)]
        BY <2>1, <3>5, <3>6, PutType DEF Round
      <3> QED
        BY <2>1, <3>4, <3>5, <3>7 DEF Round, Goto, parentVars
    <2>2. ASSUME NEW w \in Workers, Raise(w) PROVE TypeOK'
      <3>1. made' \subseteq Error
        BY <2>2, WrongType, SoakAssumption DEF Raise
      <3> QED
        BY <2>2, <3>1 DEF Raise, Goto, parentVars
    <2>3. ASSUME NEW w \in Workers, Reset(w) PROVE TypeOK'
      BY <2>3 DEF Reset, LocalAfterReport, Goto, parentVars
    <2>4. ASSUME NEW w \in Workers, Finish(w) \/ Exit(w) PROVE TypeOK'
      BY <2>4 DEF Finish, Exit, Goto, parentVars
    <2>5. ASSUME NEW w \in Workers, FinalPut(w) PROVE TypeOK'
      <3>1. buffer' \in [Workers -> Seq(Message)]
        BY <2>5, PutType DEF FinalPut
      <3> QED
        BY <2>5, <3>1 DEF FinalPut, Goto, parentVars
    <2>6. ASSUME NEW w \in Workers, Feed(w) PROVE TypeOK'
      <3>1. buffer[w] \in Seq(Message) /\ buffer[w] # <<>>
        BY <2>6 DEF Feed
      <3>2. Head(buffer[w]) \in Message /\ Tail(buffer[w]) \in Seq(Message)
        BY <3>1, TailFacts
      <3>3. pipe' \in Seq(Message) /\ buffer' \in [Workers -> Seq(Message)]
        BY <2>6, <3>2 DEF Feed
      <3> QED
        BY <2>6, <3>3 DEF Feed, parentVars
    <2>17. ASSUME NEW w \in Workers, Release(w) PROVE TypeOK'
      BY <2>17 DEF Release, parentVars
    <2>7. ASSUME NEW w \in Workers, Perish(w) PROVE TypeOK'
      <3>1. feeder' \in [Workers -> {"idle", "holds", "torn"}]
        BY <2>7 DEF Perish
      <3>2. /\ pc' = [pc EXCEPT ![w] = "dead"]
            /\ local' = [local EXCEPT ![w] = {}] /\ buffer' = [buffer EXCEPT ![w] = <<>>]
            /\ lossy' = lossy \cup {w} /\ sigint' = sigint \ {w} /\ sigterm' = sigterm \ {w}
            /\ UNCHANGED <<units, made, parentVars, pipe, timeUp>>
        BY <2>7 DEF Perish, Goto
      <3> QED
        BY <3>1, <3>2 DEF parentVars
    <2>8. ASSUME NEW w \in Workers, Terminated(w) \/ Crash(w) PROVE TypeOK'
      BY <2>7, <2>8 DEF Terminated, Crash
    <2>9. ASSUME NEW w \in Workers, KeyboardInterrupt(w) PROVE TypeOK'
      <3>1. sigint' \subseteq Workers
        BY <2>9 DEF KeyboardInterrupt
      <3>2. CASE pc[w] = "flush" /\ Perish(w)
        BY <2>7, <3>1, <3>2
      <3>3. CASE ~Perish(w)
        BY <2>9, <3>1, <3>3 DEF KeyboardInterrupt, Goto, parentVars
      <3> QED
        BY <2>7, <3>1, <3>3
    <2>10. ASSUME TimeUp \/ Watch \/ Measure \/ Stop \/ Empty \/ Last \/ Escape PROVE TypeOK'
      BY <2>10 DEF TimeUp, Watch, Measure, Stop, Empty, Last, Escape, Alive, workerVars, parentVars
    <2>11. ASSUME Take PROVE TypeOK'
      <3>1. Head(pipe) \in Message /\ Tail(pipe) \in Seq(Message)
        BY <2>11, TailFacts DEF Take
      <3> QED
        BY <2>11, <3>1 DEF Take, workerVars
    <2>12. ASSUME NEW m \in Message PROVE NewUnits(m) \in 0 .. MaxRounds /\ NewErrors(m) \in [Error -> Nat]
      BY DEF NewUnits, NewErrors, Message
    <2>13. hand # <<>> => Head(hand) \in Message
      OBVIOUS
    <2>14. ASSUME Drain PROVE TypeOK'
      BY <2>12, <2>13, <2>14 DEF Drain, workerVars
    <2>15. ASSUME CtrlC PROVE TypeOK'
      <3>1. feeder' \in [Workers -> {"idle", "holds", "torn"}]
        BY <2>15 DEF CtrlC
      <3>2. units_by_pid' \in [Workers -> 0 .. MaxRounds]
        <4>1. hand # <<>> => NewUnits(Head(hand)) \in 0 .. MaxRounds
          BY <2>12, <2>13
        <4> QED
          BY <2>15, <4>1 DEF CtrlC
      <3>3. /\ aborted' = "user" /\ phase' = "stop" /\ hand' = <<>> /\ sigint' \in {{}, Alive}
            /\ UNCHANGED <<pc, units, local, made, buffer, lossy, errors_seen, pipe, sigterm, timeUp>>
        BY <2>15 DEF CtrlC
      <3> QED
        BY <3>1, <3>2, <3>3 DEF Alive
    <2>16. ASSUME UNCHANGED vars PROVE TypeOK'
      BY <2>16 DEF vars, workerVars, parentVars
    <2> QED
      BY <2>1, <2>2, <2>3, <2>4, <2>5, <2>6, <2>8, <2>9, <2>10, <2>11, <2>14, <2>15, <2>16, <2>17
      DEF Next, Work, Send, Parent, Over
  <1> QED
    BY <1>1, <1>2, PTL DEF Spec

-----------------------------------------------------------------------------
(***************************************************************************)
(* The inductive invariant.  CreditedUnitsAreJudged is not inductive: it   *)
(* needs to know that a message which raises the credit of a worker comes  *)
(* after, or carries, every wrong answer of the rounds it credits.         *)
(***************************************************************************)
Seen(e) == e \in Reported \/ InHand(e)
UpTo(s, i, e) == \E j \in 1 .. i : e \in s[j].errors

\* Counts in messages and in the parent never run ahead of the worker.
NoneAhead ==
    /\ \A w \in Workers : units_by_pid[w] <= units[w]
    /\ hand # <<>> => Head(hand).units <= units[Head(hand).pid]
    /\ \A i \in DOMAIN pipe : pipe[i].units <= units[pipe[i].pid]
    /\ \A w \in Workers : \A i \in DOMAIN buffer[w] :
          buffer[w][i].pid = w /\ buffer[w][i].units <= units[w]

\* Where a worker or the parent can be.
Places ==
    /\ \A e \in made : pc[e[1]] \in {"work", "reset", "final"} => e[2] <= units[e[1]]
    /\ \A w \in lossy : pc[w] \in {"flush", "exited", "dead"}
    /\ \A w \in Workers : pc[w] = "dead" => w \in lossy
    /\ phase \in {"watch", "drain"} => aborted = "no"

\* Along the way of a report: what the parent, the hand, the pipe and the
\* feeder credit is accounted for at that point or before it.
Credit(e) ==
    /\ e[2] <= units_by_pid[e[1]] => e \in Reported
    /\ hand # <<>> /\ Head(hand).pid = e[1] /\ e[2] <= Head(hand).units => Seen(e)
    /\ \A i \in DOMAIN pipe :
          pipe[i].pid = e[1] /\ e[2] <= pipe[i].units => Seen(e) \/ UpTo(pipe, i, e)
    /\ \A i \in DOMAIN buffer[e[1]] :
          e[2] <= buffer[e[1]][i].units => Seen(e) \/ InPipe(e) \/ UpTo(buffer[e[1]], i, e)

\* A wrong answer has been sent, or its worker still holds it.
Held(e) ==
    \/ Seen(e) \/ InPipe(e) \/ InBuffer(e)
    \/ e \in local[e[1]] /\ pc[e[1]] \in {"work", "final"}
    \/ e[1] \in lossy

IInv ==
    /\ NoneAhead
    /\ Places
    /\ ~interrupted => \A e \in made : Credit(e) /\ Held(e)

(* The effect of a put, a feed and a take on the sequences, element by     *)
(* element.                                                                *)
LEMMA PutFacts ==
    ASSUME TypeOK, TypeOK', NEW w \in Workers,
           FinalPut(w) \/ (Round(w) /\ pc'[w] = "reset")
    PROVE  \E m \in Message, n \in Nat :
              /\ m.pid = w /\ m.units = units'[w]
              /\ m.errors = IF pc[w] = "final" THEN local[w] ELSE local'[w]
              /\ DOMAIN buffer[w] = 1 .. n /\ DOMAIN buffer'[w] = 1 .. n + 1
              /\ \A i \in 1 .. n : buffer'[w][i] = buffer[w][i]
              /\ buffer'[w][n + 1] = m
              /\ \A v \in Workers \ {w} : buffer'[v] = buffer[v]
  <1> DEFINE es == IF pc[w] = "final" THEN local[w] ELSE local'[w]
             m == [pid |-> w, units |-> units'[w], errors |-> es]
  <1>1. m \in Message /\ m.pid = w /\ m.units = units'[w] /\ m.errors = es
    BY DEF TypeOK, Message
  <1>2. buffer' = [buffer EXCEPT ![w] = Append(buffer[w], m)]
    BY DEF TypeOK, FinalPut, Round, Goto, At, Put
  <1> HIDE DEF m
  <1>3. buffer[w] \in Seq(Message) /\ buffer'[w] = Append(buffer[w], m)
    BY <1>2 DEF TypeOK
  <1>4. \A v \in Workers \ {w} : buffer'[v] = buffer[v]
    BY <1>2 DEF TypeOK
  <1>5. Len(buffer[w]) \in Nat /\ DOMAIN buffer[w] = 1 .. Len(buffer[w])
    BY <1>3
  <1> QED
    BY <1>1, <1>3, <1>4, <1>5, AppendFacts

(* What a feeder takes from its buffer, and what is left of it.            *)
LEMMA FeedFacts ==
    ASSUME TypeOK, NEW w \in Workers, Feed(w)
    PROVE  \E m \in Message, n \in Nat, p \in Nat :
              /\ n > 0 /\ buffer[w][1] = m
              /\ DOMAIN buffer[w] = 1 .. n /\ DOMAIN buffer'[w] = 1 .. n - 1
              /\ \A i \in 1 .. n - 1 : buffer'[w][i] = buffer[w][i + 1]
              /\ \A v \in Workers \ {w} : buffer'[v] = buffer[v]
              /\ DOMAIN pipe = 1 .. p /\ DOMAIN pipe' = 1 .. p + 1
              /\ \A i \in 1 .. p : pipe'[i] = pipe[i]
              /\ pipe'[p + 1] = m
  <1> DEFINE m == Head(buffer[w])
  <1>1. /\ buffer[w] \in Seq(Message) /\ buffer[w] # <<>>
        /\ buffer'[w] = Tail(buffer[w])
        /\ \A v \in Workers \ {w} : buffer'[v] = buffer[v]
        /\ pipe \in Seq(Message) /\ pipe' = Append(pipe, m)
    BY DEF TypeOK, Feed
  <1>2. Len(pipe) \in Nat /\ DOMAIN pipe = 1 .. Len(pipe)
    BY <1>1
  <1>3. m \in Message /\ m = buffer[w][1] /\ Len(buffer[w]) \in Nat /\ Len(buffer[w]) > 0
    BY <1>1, TailFacts
  <1>4. /\ DOMAIN buffer[w] = 1 .. Len(buffer[w]) /\ DOMAIN buffer'[w] = 1 .. Len(buffer[w]) - 1
        /\ \A i \in 1 .. Len(buffer[w]) - 1 : buffer'[w][i] = buffer[w][i + 1]
    BY <1>1, TailFacts
  <1> HIDE DEF m
  <1>5. /\ DOMAIN pipe' = 1 .. Len(pipe) + 1
        /\ \A i \in 1 .. Len(pipe) : pipe'[i] = pipe[i]
        /\ pipe'[Len(pipe) + 1] = m
    BY <1>1, <1>3, AppendFacts
  <1> QED
    BY <1>1, <1>2, <1>3, <1>4, <1>5

(* What the parent takes from the pipe, and what is left of it.            *)
LEMMA TakeFacts ==
    ASSUME TypeOK, Take
    PROVE  \E m \in Message, p \in Nat :
              /\ p > 0 /\ pipe[1] = m
              /\ hand = <<>> /\ hand' # <<>> /\ Head(hand') = m
              /\ DOMAIN pipe = 1 .. p /\ DOMAIN pipe' = 1 .. p - 1
              /\ \A i \in 1 .. p - 1 : pipe'[i] = pipe[i + 1]
  <1>1. pipe \in Seq(Message) /\ pipe # <<>> /\ pipe' = Tail(pipe)
    BY DEF TypeOK, Take
  <1>2. hand = <<>> /\ hand' # <<>> /\ Head(hand') = Head(pipe)
    BY DEF Take
  <1>3. Head(pipe) \in Message /\ Head(pipe) = pipe[1] /\ Len(pipe) \in Nat /\ Len(pipe) > 0
    BY <1>1, TailFacts
  <1> QED
    BY <1>1, <1>2, <1>3, TailFacts

(* Steps of a worker that only move it on, change a signal or the clock,   *)
(* and the steps of the parent that touch no message.                      *)
(* What ends stays ended, and the drain that ended the run found nothing.  *)
LEMMA QuietSteps ==
    ASSUME TypeOK, TypeOK', IInv,
           UNCHANGED <<units, made, local, buffer, pipe, hand, units_by_pid, errors_seen>>,
           aborted' = "user" \/ aborted = aborted' \/ (phase = "drain" /\ phase' = "stop"),
           aborted' # aborted => phase' = "stop",
           phase' \in {"watch", "drain"} => phase \in {"watch", "drain"},
           lossy \subseteq lossy',
           \A w \in Workers : \/ pc'[w] = pc[w] /\ (w \in lossy' => w \in lossy)
                              \/ pc[w] \in {"work", "reset"} /\ pc'[w] = "final" /\ w \notin lossy'
                              \/ pc[w] = "flush" /\ pc'[w] = "exited"
    PROVE  IInv'
  <1>1. NoneAhead'
    BY DEF IInv, NoneAhead
  <1>2. \A e \in made : e \in Error /\ e[1] \in Workers
    BY DEF TypeOK, Error
  <1>3. Places'
    BY <1>2 DEF IInv, Places, TypeOK
  <1>4. ~interrupted' => ~interrupted
    BY DEF interrupted, IInv, Places
  <1>5. \A e : (Seen(e) <=> Seen(e)') /\ (InPipe(e) <=> InPipe(e)') /\ (InBuffer(e) <=> InBuffer(e)')
    BY DEF Seen, InPipe, InBuffer, InHand, Reported
  <1>6. \A e \in made : Credit(e) => Credit(e)'
    BY <1>5 DEF Credit, UpTo, Reported
  <1>7. \A e \in made : Held(e) => Held(e)'
    BY <1>2, <1>5 DEF Held
  <1> QED
    BY <1>1, <1>3, <1>4, <1>6, <1>7 DEF IInv

(* A wrong answer names its worker and its round.                          *)
LEMMA MadeFacts ==
    ASSUME TypeOK
    PROVE  \A e \in made : e \in Error /\ e[1] \in Workers /\ e[2] \in 1 .. MaxRounds
  BY DEF TypeOK, Error

(* A worker that dies takes its buffer with it: the invariant stays.       *)
LEMMA PerishStep ==
    ASSUME TypeOK, IInv, NEW w \in Workers, Perish(w)
    PROVE  IInv'
  <1> USE DEF Perish, Goto, parentVars
  <1>1. /\ pc'[w] = "dead" /\ buffer'[w] = <<>>
        /\ \A v \in Workers \ {w} : pc'[v] = pc[v] /\ buffer'[v] = buffer[v]
    BY DEF TypeOK
  <1>2. NoneAhead'
    BY <1>1 DEF IInv, NoneAhead
  <1>3. Places'
    BY <1>1, MadeFacts DEF IInv, Places
  <1>4. \A e \in made : Credit(e) /\ Held(e) => Credit(e)' /\ Held(e)'
    <2> TAKE e \in made
    <2>1. (Seen(e) <=> Seen(e)') /\ (InPipe(e) <=> InPipe(e)')
      BY DEF Seen, InPipe, InHand, Reported
    <2>2. CASE e[1] = w
      BY <1>1, <2>1, <2>2 DEF Credit, Held, UpTo, Reported
    <2>3. CASE e[1] # w
      <3>1. pc'[e[1]] = pc[e[1]] /\ buffer'[e[1]] = buffer[e[1]] /\ local'[e[1]] = local[e[1]]
        BY <1>1, <2>3, MadeFacts DEF TypeOK
      <3> QED
        BY <2>1, <3>1 DEF Credit, Held, UpTo, InBuffer, Reported
    <2> QED
      BY <2>2, <2>3
  <1> QED
    BY <1>2, <1>3, <1>4 DEF IInv, interrupted

(* Wherever a message is, it counts a number of units.                     *)
LEMMA MessageFacts ==
    ASSUME TypeOK
    PROVE  /\ \A w \in Workers : units[w] \in Nat /\ units_by_pid[w] \in Nat
           /\ hand # <<>> => Head(hand) \in Message /\ Head(hand).units \in Nat
           /\ \A i \in DOMAIN pipe : pipe[i] \in Message /\ pipe[i].units \in Nat
           /\ \A w \in Workers : \A i \in DOMAIN buffer[w] :
                 buffer[w][i] \in Message /\ buffer[w][i].units \in Nat
  <1>1. \A m \in Message : m.units \in Nat
    BY DEF Message
  <1>2. \A s \in Seq(Message) : \A i \in DOMAIN s : s[i] \in Message
    OBVIOUS
  <1>3. hand # <<>> => Head(hand) \in Message
    BY DEF TypeOK
  <1> QED
    BY <1>1, <1>2, <1>3 DEF TypeOK

(* A wrong answer of a round its worker has not completed is credited by   *)
(* no count on the way.                                                    *)
LEMMA NewIsUncredited ==
    ASSUME TypeOK, NoneAhead, NEW e \in Error, e[2] = units[e[1]] + 1
    PROVE  Credit(e)
  <1>1. e[1] \in Workers
    BY DEF Error
  <1>2. \A n \in Nat : n <= units[e[1]] => ~(e[2] <= n)
    BY <1>1, MessageFacts
  <1> QED
    BY <1>1, <1>2, MessageFacts DEF NoneAhead, Credit

(* Reset, Raise and the interrupt before the last put: the worker's list   *)
(* is dropped, which loses nothing after a put and makes it lossy else.    *)
LEMMA DropSteps ==
    ASSUME TypeOK, TypeOK', IInv, NEW w \in Workers,
           Reset(w) \/ Raise(w) \/ (KeyboardInterrupt(w) /\ pc[w] = "final")
    PROVE  IInv'
  <1>1. UNCHANGED <<units, buffer, pipe, hand, units_by_pid, errors_seen, aborted, phase>>
    BY DEF Reset, Raise, KeyboardInterrupt, parentVars
  <1>2. \A v \in Workers \ {w} : pc'[v] = pc[v] /\ local'[v] = local[v]
    BY DEF TypeOK, Reset, Raise, KeyboardInterrupt, Goto
  <1>3. \/ pc[w] = "reset" /\ pc'[w] = "work" /\ lossy' = lossy
        \/ pc[w] \in {"work", "final"} /\ pc'[w] = "flush" /\ lossy' = lossy \cup {w}
    BY DEF TypeOK, Reset, Raise, KeyboardInterrupt, Goto, At
  <1>4. /\ made \subseteq made'
        /\ \A e \in made' \ made : e[1] = w /\ e[2] = units[w] + 1 /\ pc'[w] = "flush"
    BY DEF TypeOK, Reset, Raise, KeyboardInterrupt, Goto
  <1>5. made' \subseteq Error /\ made \subseteq Error
    BY DEF TypeOK
  <1>6. \A e \in Error : e[1] \in Workers /\ e[2] \in Nat
    BY DEF Error
  <1>7. NoneAhead'
    BY <1>1 DEF IInv, NoneAhead
  <1>8. Places'
    BY <1>1, <1>2, <1>3, <1>4, <1>5, <1>6 DEF IInv, Places, TypeOK
  <1>9. \A e \in Error : (Seen(e) <=> Seen(e)') /\ (InPipe(e) <=> InPipe(e)') /\ (InBuffer(e) <=> InBuffer(e)')
    BY <1>1 DEF Seen, InPipe, InHand, InBuffer, Reported
  <1>10. \A e \in Error : Credit(e) => Credit(e)'
    BY <1>1, <1>9 DEF Credit, UpTo, Reported
  <1>11. \A e \in made : Held(e) => Held(e)'
    <2> TAKE e \in made
    <2>1. CASE e[1] = w
      BY <1>3, <1>5, <1>9, <2>1 DEF Held
    <2>2. CASE e[1] # w
      BY <1>2, <1>3, <1>5, <1>6, <1>9, <2>2 DEF Held
    <2> QED
      BY <2>1, <2>2
  <1>12. ASSUME NEW e \in made' \ made PROVE Credit(e)' /\ Held(e)'
    <2>1. e \in Error /\ e[1] = w /\ e[2] = units[w] + 1 /\ w \in lossy'
      BY <1>3, <1>4, <1>5, <1>12
    <2> QED
      BY <1>10, <2>1, NewIsUncredited DEF Held, IInv
  <1> QED
    BY <1>1, <1>4, <1>5, <1>7, <1>8, <1>10, <1>11, <1>12 DEF IInv, interrupted

(* Rounds that send nothing: the wrong answers of the round join the list. *)
LEMMA ListStep ==
    ASSUME TypeOK, TypeOK', IInv, NEW w \in Workers, Round(w), UNCHANGED buffer, pc'[w] = "work"
    PROVE  IInv'
  <1>1. UNCHANGED <<pc, buffer, pipe, hand, units_by_pid, errors_seen, aborted, phase, lossy>> /\ pc[w] = "work"
    BY DEF TypeOK, Round, Goto, At, parentVars
  <1>2. /\ \A v \in Workers : local[v] \subseteq local'[v]
        /\ \A v \in Workers \ {w} : units'[v] = units[v]
        /\ units'[w] = units[w] + 1
    BY DEF TypeOK, Round
  <1>3. /\ made \subseteq made'
        /\ \A e \in made' \ made : e[1] = w /\ e[2] = units[w] + 1 /\ e \in local'[w]
    BY DEF TypeOK, Round
  <1>4. made' \subseteq Error /\ made \subseteq Error
    BY DEF TypeOK
  <1>5. \A e \in Error : e[1] \in Workers /\ e[2] \in Nat
    BY DEF Error
  <1>6. \A v \in Workers : units[v] \in Nat /\ units'[v] \in Nat /\ units[v] <= units'[v]
    BY <1>2, MessageFacts
  <1>7. NoneAhead'
    <2>1. \A m \in Message : m.pid \in Workers
      BY DEF Message
    <2> QED
      BY <1>1, <1>6, <2>1, MessageFacts DEF IInv, NoneAhead
  <1>8. Places'
    BY <1>1, <1>2, <1>3, <1>4, <1>5, <1>6 DEF IInv, Places
  <1>9. \A e \in Error : (Seen(e) <=> Seen(e)') /\ (InPipe(e) <=> InPipe(e)') /\ (InBuffer(e) <=> InBuffer(e)')
    BY <1>1 DEF Seen, InPipe, InHand, InBuffer, Reported
  <1>10. \A e \in Error : Credit(e) => Credit(e)'
    BY <1>1, <1>9 DEF Credit, UpTo, Reported
  <1>11. \A e \in made : Held(e) => Held(e)'
    BY <1>1, <1>2, <1>4, <1>5, <1>9 DEF Held
  <1>12. ASSUME NEW e \in made' \ made PROVE Credit(e)' /\ Held(e)'
    BY <1>1, <1>3, <1>4, <1>10, <1>12, NewIsUncredited DEF Held, IInv
  <1> QED
    BY <1>1, <1>4, <1>7, <1>8, <1>10, <1>11, <1>12 DEF IInv, interrupted

(* A put: the message carries the whole list, so its count credits nothing *)
(* that is not in it or ahead of it.                                       *)
LEMMA PutSteps ==
    ASSUME TypeOK, TypeOK', IInv, NEW w \in Workers,
           FinalPut(w) \/ (Round(w) /\ pc'[w] = "reset")
    PROVE  IInv'
  <1>0. PICK m \in Message, n \in Nat :
           /\ m.pid = w /\ m.units = units'[w]
           /\ m.errors = IF pc[w] = "final" THEN local[w] ELSE local'[w]
           /\ DOMAIN buffer[w] = 1 .. n /\ DOMAIN buffer'[w] = 1 .. n + 1
           /\ \A i \in 1 .. n : buffer'[w][i] = buffer[w][i]
           /\ buffer'[w][n + 1] = m
           /\ \A v \in Workers \ {w} : buffer'[v] = buffer[v]
    BY PutFacts
  <1>9. /\ n \in Nat /\ DOMAIN buffer[w] = 1 .. n /\ DOMAIN buffer'[w] = 1 .. n + 1
        /\ 1 .. n \subseteq 1 .. n + 1 /\ n + 1 \in 1 .. n + 1
        /\ \A i \in 1 .. n : 1 .. i \subseteq 1 .. n
        /\ \A i \in 1 .. n : buffer'[w][i] = buffer[w][i]
        /\ buffer'[w][n + 1] = m
        /\ \A v \in Workers \ {w} : buffer'[v] = buffer[v]
    BY <1>0
  <1>10. m.pid = w /\ m.units = units'[w]
    BY <1>0
  <1>1. /\ UNCHANGED <<pipe, hand, units_by_pid, errors_seen, aborted, phase, lossy>>
        /\ pc[w] \in {"work", "final"}
        /\ \A v \in Workers \ {w} : pc'[v] = pc[v] /\ local'[v] = local[v] /\ units'[v] = units[v]
        /\ pc'[w] \in {"reset", "flush"}
    BY DEF TypeOK, FinalPut, Round, Goto, At, parentVars
  <1>2. units[w] \in Nat /\ units'[w] \in Nat /\ units[w] <= units'[w]
    BY MessageFacts DEF TypeOK, FinalPut, Round
  <1>3. /\ made \subseteq made'
        /\ \A e \in made' \ made : e[1] = w /\ e[2] = units[w] + 1 /\ units'[w] = e[2] /\ e \in m.errors
    BY <1>0 DEF TypeOK, FinalPut, Round, At
  <1>4. made' \subseteq Error /\ made \subseteq Error
    BY DEF TypeOK
  <1>5. \A e \in Error : e[1] \in Workers /\ e[2] \in Nat
    BY DEF Error
  <1>6. local[w] \subseteq m.errors
    BY <1>0 DEF TypeOK, FinalPut, Round, At
  <1>11. NoneAhead'
    <2>1. \A x \in Message : x.pid \in Workers
      BY DEF Message
    <2>2. \A v \in Workers : units[v] \in Nat /\ units'[v] \in Nat /\ units[v] <= units'[v]
      BY <1>1, <1>2, MessageFacts
    <2>3. /\ \A v \in Workers : units_by_pid'[v] <= units'[v]
          /\ hand' # <<>> => Head(hand').units <= units'[Head(hand').pid]
          /\ \A i \in DOMAIN pipe' : pipe'[i].units <= units'[pipe'[i].pid]
      BY <1>1, <2>1, <2>2, MessageFacts DEF IInv, NoneAhead
    <2>4. ASSUME NEW v \in Workers, NEW i \in DOMAIN buffer'[v]
          PROVE  buffer'[v][i].pid = v /\ buffer'[v][i].units <= units'[v]
      <3>1. CASE v = w /\ i = n + 1
        BY <1>2, <1>9, <1>10, <3>1
      <3>2. CASE v # w
        BY <1>1, <1>9, <2>2, <2>4, <3>2 DEF IInv, NoneAhead
      <3>3. CASE v = w /\ i \in 1 .. n
        BY <1>9, <2>2, <3>3, MessageFacts DEF IInv, NoneAhead
      <3> QED
        BY <1>9, <2>4, <3>1, <3>2, <3>3
    <2> QED
      BY <2>3, <2>4 DEF NoneAhead
  <1>12. Places'
    <2>1. Places /\ lossy \subseteq Workers
      BY DEF IInv, TypeOK
    <2>2. \A e \in made' : pc'[e[1]] \in {"work", "reset", "final"} => e[2] <= units'[e[1]]
      <3> TAKE e \in made'
      <3>1. e \in Error /\ e[1] \in Workers /\ e[2] \in Nat
        BY <1>4, <1>5
      <3>2. CASE e \notin made
        BY <1>2, <1>3, <3>1, <3>2
      <3>3. CASE e \in made /\ e[1] # w
        BY <1>1, <2>1, <3>1, <3>3 DEF Places
      <3>4. CASE e \in made /\ e[1] = w
        BY <1>1, <1>2, <2>1, <3>1, <3>4 DEF Places
      <3> QED
        BY <3>2, <3>3, <3>4
    <2> QED
      BY <1>1, <2>1, <2>2 DEF Places
  <1>13. \A e \in Error : (Seen(e) <=> Seen(e)') /\ (InPipe(e) <=> InPipe(e)')
    BY <1>1 DEF Seen, InPipe, InHand, Reported
  <1>14. \A e \in Error : InBuffer(e) => InBuffer(e)'
    <2> TAKE e \in Error
    <2>1. CASE e[1] # w
      BY <1>5, <1>9, <2>1 DEF InBuffer
    <2>2. CASE e[1] = w
      BY <1>9, <2>2 DEF InBuffer
    <2> QED
      BY <2>1, <2>2
  <1>15. \A e \in Error : e[1] = w /\ e \in m.errors => InBuffer(e)' /\ UpTo(buffer'[w], n + 1, e)
    BY <1>9 DEF InBuffer, UpTo
  <1>16. ASSUME NEW e \in made, Credit(e), Held(e) PROVE Credit(e)' /\ Held(e)'
    <2>1. e \in Error /\ e[1] \in Workers
      BY <1>4, <1>5
    <2>2. Held(e)'
      BY <1>1, <1>6, <1>13, <1>14, <1>15, <1>16, <2>1 DEF Held
    <2>3. e[1] = w => Seen(e) \/ InPipe(e) \/ UpTo(buffer'[w], n + 1, e)
      <3>1. e[1] = w /\ InBuffer(e) => UpTo(buffer'[w], n + 1, e)
        BY <1>9 DEF InBuffer, UpTo
      <3> QED
        BY <1>1, <1>6, <1>15, <1>16, <2>1, <3>1 DEF Held, IInv, Places
    <2>4. \A i \in DOMAIN buffer'[e[1]] : e[2] <= buffer'[e[1]][i].units
             => Seen(e) \/ InPipe(e) \/ UpTo(buffer'[e[1]], i, e)
      <3>1. CASE e[1] # w
        BY <1>9, <1>16, <2>1, <3>1 DEF Credit, UpTo
      <3>2. CASE e[1] = w
        <4>1. \A i \in 1 .. n : UpTo(buffer[w], i, e) => UpTo(buffer'[w], i, e)
          BY <1>9 DEF UpTo
        <4> QED
          BY <1>9, <1>16, <2>3, <3>2, <4>1 DEF Credit
      <3> QED
        BY <3>1, <3>2
    <2> QED
      BY <1>1, <1>13, <1>16, <2>1, <2>2, <2>4 DEF Credit, UpTo, Reported
  <1>17. ASSUME NEW e \in made' \ made PROVE Credit(e)' /\ Held(e)'
    <2>1. e \in Error /\ e[1] = w /\ e[2] = units[w] + 1 /\ e \in m.errors
      BY <1>3, <1>4, <1>17
    <2>2. Held(e)'
      BY <1>15, <2>1 DEF Held
    <2>3. Credit(e)
      BY <2>1, NewIsUncredited DEF IInv
    <2>4. \A i \in DOMAIN buffer'[w] : e[2] <= buffer'[w][i].units
             => Seen(e) \/ InPipe(e) \/ UpTo(buffer'[w], i, e)
      <3>1. \A i \in 1 .. n : UpTo(buffer[w], i, e) => UpTo(buffer'[w], i, e)
        BY <1>9 DEF UpTo
      <3> QED
        BY <1>9, <1>15, <2>1, <2>3, <3>1 DEF Credit
    <2> QED
      BY <1>1, <1>13, <2>1, <2>2, <2>3, <2>4 DEF Credit, UpTo, Reported
  <1> QED
    BY <1>1, <1>11, <1>12, <1>16, <1>17 DEF IInv, interrupted

(* The feeder moves the oldest message to the pipe, behind everything that *)
(* was sent before it.                                                     *)
LEMMA FeedStep ==
    ASSUME TypeOK, TypeOK', IInv, NEW w \in Workers, Feed(w)
    PROVE  IInv'
  <1>1. UNCHANGED <<pc, units, local, made, hand, units_by_pid, errors_seen, aborted, phase, lossy>>
    BY DEF Feed, parentVars
  <1>0. PICK m \in Message, n \in Nat, p \in Nat :
           /\ n > 0 /\ buffer[w][1] = m
           /\ DOMAIN buffer[w] = 1 .. n /\ DOMAIN buffer'[w] = 1 .. n - 1
           /\ \A i \in 1 .. n - 1 : buffer'[w][i] = buffer[w][i + 1]
           /\ \A v \in Workers \ {w} : buffer'[v] = buffer[v]
           /\ DOMAIN pipe = 1 .. p /\ DOMAIN pipe' = 1 .. p + 1
           /\ \A i \in 1 .. p : pipe'[i] = pipe[i]
           /\ pipe'[p + 1] = m
    BY FeedFacts
  <1>2. /\ n \in Nat \ {0} /\ buffer[w][1] = m
        /\ DOMAIN buffer[w] = 1 .. n /\ DOMAIN buffer'[w] = 1 .. n - 1
        /\ \A i \in 1 .. n - 1 : buffer'[w][i] = buffer[w][i + 1]
        /\ \A v \in Workers \ {w} : buffer'[v] = buffer[v]
    BY <1>0
  <1>3. /\ p \in Nat /\ DOMAIN pipe = 1 .. p /\ DOMAIN pipe' = 1 .. p + 1
        /\ \A i \in 1 .. p : pipe'[i] = pipe[i]
        /\ pipe'[p + 1] = m
    BY <1>0
  <1>4. m.pid = w /\ m.units <= units[w]
    BY <1>2 DEF IInv, NoneAhead
  <1>5. NoneAhead'
    <2>1. \A i \in DOMAIN pipe' : pipe'[i].units <= units[pipe'[i].pid]
      BY <1>3, <1>4 DEF IInv, NoneAhead
    <2>2. \A i \in DOMAIN buffer'[w] : buffer'[w][i].pid = w /\ buffer'[w][i].units <= units[w]
      BY <1>2 DEF IInv, NoneAhead
    <2>3. \A v \in Workers \ {w} : \A i \in DOMAIN buffer'[v] :
             buffer'[v][i].pid = v /\ buffer'[v][i].units <= units[v]
      BY <1>2 DEF IInv, NoneAhead
    <2>4. /\ \A v \in Workers : units_by_pid[v] <= units[v]
          /\ hand # <<>> => Head(hand).units <= units[Head(hand).pid]
      BY DEF IInv, NoneAhead
    <2> QED
      BY <1>1, <2>1, <2>2, <2>3, <2>4 DEF NoneAhead
  <1>6. Places'
    BY <1>1 DEF IInv, Places
  <1>7. \A e \in made : e[1] \in Workers
    BY MadeFacts
  <1>8. \A e \in made : Seen(e) <=> Seen(e)'
    BY <1>1 DEF Seen, InHand, Reported
  <1>9. \A e \in made : (InPipe(e) => InPipe(e)') /\ (e \in m.errors => InPipe(e)')
    BY <1>3 DEF InPipe
  <1>10. ASSUME NEW e \in made, Held(e) PROVE Held(e)'
    <2>1. InBuffer(e) => InBuffer(e)' \/ InPipe(e)'
      <3>1. CASE e[1] # w
        BY <1>2, <1>7, <3>1 DEF InBuffer
      <3>2. CASE e[1] = w
        <4> SUFFICES ASSUME NEW i \in 1 .. n, e \in buffer[w][i] .errors
                     PROVE  InBuffer(e)' \/ InPipe(e)'
          BY <1>2, <3>2 DEF InBuffer
        <4>1. CASE i = 1
          BY <1>2, <1>9, <4>1
        <4>2. CASE i # 1
          <5>1. i - 1 \in DOMAIN buffer'[w] /\ buffer'[w][i - 1] = buffer[w][i]
            BY <1>2, <4>2
          <5> QED
            BY <3>2, <5>1 DEF InBuffer
        <4> QED
          BY <4>1, <4>2
      <3> QED
        BY <3>1, <3>2
    <2> QED
      BY <1>1, <1>8, <1>9, <1>10, <2>1 DEF Held
  <1>11. ASSUME NEW e \in made, Credit(e) PROVE Credit(e)'
    <2>1. \A i \in DOMAIN pipe' : pipe'[i].pid = e[1] /\ e[2] <= pipe'[i].units
             => Seen(e) \/ UpTo(pipe', i, e)
      <3>1. \A i \in 1 .. p : UpTo(pipe, i, e) => UpTo(pipe', i, e) /\ UpTo(pipe', p + 1, e)
        BY <1>3 DEF UpTo
      <3>2. InPipe(e) => UpTo(pipe', p + 1, e)
        BY <1>3 DEF InPipe, UpTo
      <3>3. e[1] = w /\ e[2] <= m.units => Seen(e) \/ InPipe(e) \/ e \in m.errors
        BY <1>2, <1>11 DEF Credit, UpTo
      <3>4. e \in m.errors => UpTo(pipe', p + 1, e)
        BY <1>3 DEF UpTo
      <3> QED
        BY <1>3, <1>4, <1>11, <3>1, <3>2, <3>3, <3>4 DEF Credit
    <2>2. \A i \in DOMAIN buffer'[e[1]] : e[2] <= buffer'[e[1]][i].units
             => Seen(e) \/ InPipe(e)' \/ UpTo(buffer'[e[1]], i, e)
      <3>1. CASE e[1] # w
        BY <1>2, <1>7, <1>9, <1>11, <3>1 DEF Credit, UpTo
      <3>2. CASE e[1] = w
        <4> SUFFICES ASSUME NEW i \in 1 .. n - 1, e[2] <= buffer[w][i + 1].units
                     PROVE  Seen(e) \/ InPipe(e)' \/ UpTo(buffer'[w], i, e)
          BY <1>2, <3>2
        <4>1. Seen(e) \/ InPipe(e) \/ UpTo(buffer[w], i + 1, e)
          BY <1>2, <1>11, <3>2 DEF Credit
        <4>2. ASSUME NEW j \in 1 .. i + 1, e \in buffer[w][j].errors
              PROVE  InPipe(e)' \/ UpTo(buffer'[w], i, e)
          <5>1. CASE j = 1
            BY <1>2, <1>9, <4>2, <5>1
          <5>2. CASE j # 1
            <6>1. j - 1 \in 1 .. i /\ j - 1 \in 1 .. n - 1 /\ buffer'[w][j - 1] = buffer[w][j]
              BY <1>2, <5>2
            <6> QED
              BY <4>2, <6>1 DEF UpTo
          <5> QED
            BY <5>1, <5>2
        <4> QED
          BY <1>9, <4>1, <4>2 DEF UpTo
      <3> QED
        BY <3>1, <3>2
    <2> QED
      BY <1>1, <1>8, <1>11, <2>1, <2>2 DEF Credit, UpTo, Reported
  <1> QED
    BY <1>1, <1>5, <1>6, <1>10, <1>11 DEF IInv, interrupted

(* The parent takes the oldest message of the pipe in hand.                *)
LEMMA TakeStep ==
    ASSUME TypeOK, TypeOK', IInv, Take
    PROVE  IInv'
  <1>1. UNCHANGED <<pc, units, local, made, buffer, units_by_pid, errors_seen, aborted, phase, lossy>>
    BY DEF Take, workerVars
  <1>2. PICK m \in Message, p \in Nat :
           /\ p > 0 /\ pipe[1] = m
           /\ hand = <<>> /\ hand' # <<>> /\ Head(hand') = m
           /\ DOMAIN pipe = 1 .. p /\ DOMAIN pipe' = 1 .. p - 1
           /\ \A i \in 1 .. p - 1 : pipe'[i] = pipe[i + 1]
    BY TakeFacts
  <1>4. NoneAhead'
    <2>1. m.units <= units[m.pid]
      BY <1>2 DEF IInv, NoneAhead
    <2>2. \A i \in DOMAIN pipe' : pipe'[i].units <= units[pipe'[i].pid]
      BY <1>2 DEF IInv, NoneAhead
    <2> QED
      BY <1>1, <1>2, <2>1, <2>2 DEF IInv, NoneAhead
  <1>5. Places'
    BY <1>1 DEF IInv, Places
  <1>6. \A e \in made : (Seen(e) => Seen(e)') /\ (Seen(e) <=> e \in Reported) /\ (e \in m.errors => Seen(e)')
    BY <1>1, <1>2 DEF Seen, InHand, Reported
  <1>7. ASSUME NEW e \in made, NEW i \in 0 .. p - 1, UpTo(pipe, i + 1, e)
        PROVE  Seen(e)' \/ (i # 0 /\ UpTo(pipe', i, e) /\ InPipe(e)')
    <2>1. PICK j \in 1 .. i + 1 : e \in pipe[j].errors
      BY <1>7 DEF UpTo
    <2>2. CASE j = 1
      BY <1>2, <1>6, <2>1, <2>2
    <2>3. CASE j # 1
      <3>1. /\ j - 1 \in 1 .. i /\ j - 1 \in DOMAIN pipe'
            /\ pipe'[j - 1] = pipe[j] /\ i # 0
        BY <1>2, <2>3
      <3> QED
        BY <2>1, <3>1 DEF UpTo, InPipe
    <2> QED
      BY <2>2, <2>3
  <1>8. \A e \in made : InPipe(e) => Seen(e)' \/ InPipe(e)'
    <2> TAKE e \in made
    <2>1. InPipe(e) => UpTo(pipe, p - 1 + 1, e) /\ p - 1 \in 0 .. p - 1
      BY <1>2 DEF InPipe, UpTo
    <2> QED
      BY <1>7, <2>1
  <1>9. \A e \in made : InBuffer(e) <=> InBuffer(e)'
    BY <1>1 DEF InBuffer
  <1>10. ASSUME NEW e \in made, Held(e) PROVE Held(e)'
    BY <1>1, <1>6, <1>8, <1>9, <1>10 DEF Held
  <1>11. ASSUME NEW e \in made, Credit(e) PROVE Credit(e)'
    <2>1. m.pid = e[1] /\ e[2] <= m.units => Seen(e)'
      <3>1. UpTo(pipe, 0 + 1, e) => Seen(e)'
        BY <1>2, <1>7
      <3>2. UpTo(pipe, 1, e) => Seen(e)'
        BY <3>1 DEF UpTo
      <3> QED
        BY <1>2, <1>6, <1>11, <3>2 DEF Credit
    <2>2. \A i \in DOMAIN pipe' : pipe'[i].pid = e[1] /\ e[2] <= pipe'[i].units
             => Seen(e)' \/ UpTo(pipe', i, e)
      <3> TAKE i \in DOMAIN pipe'
      <3>1. i + 1 \in 1 .. p /\ pipe'[i] = pipe[i + 1] /\ i \in 0 .. p - 1
        BY <1>2
      <3>2. UpTo(pipe, i + 1, e) => Seen(e)' \/ UpTo(pipe', i, e)
        BY <1>7, <3>1
      <3> QED
        BY <1>2, <1>6, <1>11, <3>1, <3>2 DEF Credit
    <2>3. \A i \in DOMAIN buffer[e[1]] : e[2] <= buffer[e[1]][i].units
             => Seen(e)' \/ InPipe(e)' \/ UpTo(buffer[e[1]], i, e)
      BY <1>6, <1>8, <1>11 DEF Credit
    <2> QED
      BY <1>1, <1>2, <1>11, <2>1, <2>2, <2>3 DEF Credit, UpTo, Reported
  <1> QED
    BY <1>1, <1>4, <1>5, <1>10, <1>11 DEF IInv, interrupted

(* drain(msg): the credit and the list grow together.                      *)
LEMMA DrainStep ==
    ASSUME TypeOK, TypeOK', IInv, Drain
    PROVE  IInv'
  <1> DEFINE m == Head(hand)
  <1>1. UNCHANGED <<pc, units, local, made, buffer, pipe, aborted, phase, lossy>>
    BY DEF Drain, workerVars
  <1>2. hand # <<>> /\ hand' = <<>> /\ m \in Message /\ m.pid \in Workers
    BY DEF Drain, TypeOK, Message
  <1>3. /\ \A v \in Workers \ {m.pid} : units_by_pid'[v] = units_by_pid[v]
        /\ units_by_pid'[m.pid] \in {units_by_pid[m.pid], m.units}
    BY <1>2 DEF Drain, NewUnits, TypeOK
  <1>4. \A e \in Error : (e \in Reported => e \in Reported') /\ (e \in m.errors => e \in Reported')
    BY DEF Drain, NewErrors, Reported, TypeOK
  <1> HIDE DEF m
  <1>5. NoneAhead'
    <2>1. m.units <= units[m.pid]
      BY <1>2 DEF IInv, NoneAhead, m
    <2>2. \A v \in Workers : units_by_pid'[v] <= units[v]
      BY <1>2, <1>3, <2>1 DEF IInv, NoneAhead
    <2> QED
      BY <1>1, <1>2, <2>2 DEF IInv, NoneAhead
  <1>6. Places'
    BY <1>1 DEF IInv, Places
  <1>7. \A e \in made : e \in Error /\ e[1] \in Workers
    BY MadeFacts
  <1>8. \A e \in made : (Seen(e) => e \in Reported') /\ (Seen(e)' <=> e \in Reported')
    BY <1>2, <1>4, <1>7 DEF Seen, InHand, m
  <1>9. \A e \in made : (InPipe(e) <=> InPipe(e)') /\ (InBuffer(e) <=> InBuffer(e)')
    BY <1>1 DEF InPipe, InBuffer
  <1>10. ASSUME NEW e \in made, Held(e) PROVE Held(e)'
    BY <1>1, <1>8, <1>9, <1>10 DEF Held
  <1>11. ASSUME NEW e \in made, Credit(e) PROVE Credit(e)'
    <2>1. e[2] <= units_by_pid'[e[1]] => e \in Reported'
      BY <1>2, <1>3, <1>4, <1>7, <1>8, <1>11 DEF Credit, m
    <2>2. \A i \in DOMAIN pipe : pipe[i].pid = e[1] /\ e[2] <= pipe[i].units
             => Seen(e)' \/ UpTo(pipe, i, e)
      BY <1>8, <1>11 DEF Credit
    <2>3. \A i \in DOMAIN buffer[e[1]] : e[2] <= buffer[e[1]][i].units
             => Seen(e)' \/ InPipe(e)' \/ UpTo(buffer[e[1]], i, e)
      BY <1>8, <1>9, <1>11 DEF Credit
    <2> QED
      BY <1>1, <1>2, <2>1, <2>2, <2>3 DEF Credit, UpTo
  <1> QED
    BY <1>1, <1>5, <1>6, <1>10, <1>11 DEF IInv, interrupted

(* A Ctrl-C ends what the invariant says of wrong answers, but no count    *)
(* runs ahead of its worker even then.                                     *)
LEMMA CtrlCStep ==
    ASSUME TypeOK, IInv, CtrlC
    PROVE  IInv'
  <1>1. UNCHANGED <<pc, units, local, made, buffer, pipe, lossy>> /\ hand' = <<>> /\ interrupted'
    BY DEF CtrlC, workerVars, interrupted
  <1>2. \A w \in Workers : units_by_pid'[w] <= units[w]
    <2>1. CASE UNCHANGED units_by_pid
      BY <2>1 DEF IInv, NoneAhead
    <2>2. CASE /\ hand # <<>>
               /\ units_by_pid' = [units_by_pid EXCEPT ![Head(hand).pid] = NewUnits(Head(hand))]
      BY <2>2, MessageFacts DEF IInv, NoneAhead, NewUnits, TypeOK, Message
    <2> QED
      BY <2>1, <2>2 DEF CtrlC
  <1>3. Places'
    BY <1>1 DEF IInv, Places, CtrlC
  <1> QED
    BY <1>1, <1>2, <1>3 DEF IInv, NoneAhead

(* The invariant holds before any process is started.                      *)
LEMMA InvInit == Init => IInv
  BY DEF Init, IInv, NoneAhead, Places, TypeOK

(* Every step of the parent, a worker or a feeder preserves it.            *)
LEMMA InvStep ==
    ASSUME TypeOK, TypeOK', IInv, [Next]_vars
    PROVE  IInv'
  <1>1. ASSUME NEW w \in Workers, Round(w) PROVE IInv'
    <2>1. CASE Goto(w, "work") /\ UNCHANGED buffer
      <3>1. pc'[w] = "work"
        BY <2>1 DEF Goto, TypeOK
      <3> QED
        BY <1>1, <2>1, <3>1, ListStep
    <2>2. CASE Goto(w, "reset")
      <3>1. pc'[w] = "reset"
        BY <2>2 DEF Goto, TypeOK
      <3> QED
        BY <1>1, <3>1, PutSteps
    <2> QED
      BY <1>1, <2>1, <2>2 DEF Round
  <1>2. ASSUME NEW w \in Workers, Raise(w) \/ Reset(w) PROVE IInv'
    BY <1>2, DropSteps
  <1>3. ASSUME NEW w \in Workers, FinalPut(w) PROVE IInv'
    BY <1>3, PutSteps
  <1>4. ASSUME NEW w \in Workers, Finish(w) \/ Exit(w) PROVE IInv'
    <2>1. \A v \in Workers : \/ pc'[v] = pc[v]
                             \/ pc[v] = "work" /\ pc'[v] = "final"
                             \/ pc[v] = "flush" /\ pc'[v] = "exited"
      BY <1>4 DEF Finish, Exit, At, Goto, TypeOK
    <2>2. \A v \in lossy : pc[v] \notin {"work", "final"}
      BY DEF IInv, Places
    <2>3. lossy' = lossy /\ UNCHANGED <<aborted, phase>>
      BY <1>4 DEF Finish, Exit, parentVars
    <2> QED
      BY <1>4, <2>1, <2>2, <2>3, QuietSteps DEF Finish, Exit, parentVars
  <1>5. ASSUME NEW w \in Workers, Feed(w) PROVE IInv'
    BY <1>5, FeedStep
  <1>6. ASSUME NEW w \in Workers, Terminated(w) \/ Crash(w) PROVE IInv'
    BY <1>6, PerishStep DEF Terminated, Crash
  <1>7. ASSUME NEW w \in Workers, KeyboardInterrupt(w) PROVE IInv'
    <2>1. CASE pc[w] = "flush"
      BY <1>7, <2>1, PerishStep DEF KeyboardInterrupt
    <2>2. CASE pc[w] = "final"
      BY <1>7, <2>2, DropSteps
    <2>3. CASE pc[w] \notin {"flush", "final"}
      <3>1. /\ UNCHANGED <<units, made, local, buffer, pipe, hand, units_by_pid, errors_seen>>
            /\ UNCHANGED <<aborted, phase, lossy>>
            /\ pc[w] \in {"work", "reset"} /\ pc'[w] = "final"
            /\ \A v \in Workers \ {w} : pc'[v] = pc[v]
        BY <1>7, <2>3 DEF KeyboardInterrupt, Goto, parentVars, TypeOK
      <3>2. w \notin lossy
        BY <3>1 DEF IInv, Places
      <3> QED
        BY <3>1, <3>2, QuietSteps
    <2> QED
      BY <2>1, <2>2, <2>3
  <1>8. ASSUME TimeUp \/ Watch \/ Measure \/ Stop \/ Empty \/ Last \/ Escape PROVE IInv'
    <2>1. /\ UNCHANGED <<units, made, local, buffer, pipe, hand, units_by_pid, errors_seen>>
          /\ UNCHANGED <<pc, lossy>>
      BY <1>8 DEF TimeUp, Watch, Measure, Stop, Empty, Last, Escape, workerVars, parentVars
    <2>2. /\ aborted = aborted' \/ (phase = "drain" /\ phase' = "stop")
          /\ aborted' # aborted => phase' = "stop"
          /\ phase' \in {"watch", "drain"} => phase \in {"watch", "drain"}
      BY <1>8 DEF TimeUp, Watch, Measure, Stop, Empty, Last, Escape, parentVars
    <2> QED
      BY <2>1, <2>2, QuietSteps
  <1>9. ASSUME Take \/ Drain \/ CtrlC PROVE IInv'
    BY <1>9, TakeStep, DrainStep, CtrlCStep
  <1>10. ASSUME UNCHANGED vars PROVE IInv'
    <2>1. UNCHANGED <<workerVars, parentVars, pipe>>
      BY <1>10 DEF vars
    <2> QED
      BY <2>1, QuietSteps DEF workerVars, parentVars
  <1>11. ASSUME NEW w \in Workers, Release(w) PROVE IInv'
    BY <1>11, QuietSteps DEF Release, parentVars
  <1> QED
    BY <1>1, <1>2, <1>3, <1>4, <1>5, <1>6, <1>7, <1>8, <1>9, <1>10, <1>11
    DEF Next, Work, Send, Parent, Over

(* The invariant holds in every behaviour.                                 *)
LEMMA Invariant == Spec => []IInv
  <1>1. TypeOK /\ TypeOK' /\ IInv /\ [Next]_vars => IInv'
    BY InvStep
  <1> QED
    BY <1>1, InvInit, TypeCorrect, PTL DEF Spec

(* The sentence of the verdict about validated units is true of any run.   *)
THEOREM CreditIsJudged == Spec => []CreditedUnitsAreJudged
  <1>1. IInv => CreditedUnitsAreJudged
    BY DEF IInv, Credit, CreditedUnitsAreJudged
  <1> QED
    BY <1>1, Invariant, PTL

(* No wrong answer is dropped on the way, except by a death or a Ctrl-C.   *)
THEOREM NothingIsDropped == Spec => []LossNeedsADeath
  <1>1. IInv => LossNeedsADeath
    BY DEF IInv, Held, Seen, LossNeedsADeath
  <1> QED
    BY <1>1, Invariant, PTL

-----------------------------------------------------------------------------
(***************************************************************************)
(* The ledger: the second inductive invariant, of what is in every list.   *)
(***************************************************************************)
Own(m) == m.errors \subseteq {e \in made : e[1] = m.pid}

Real ==
    /\ Reported \subseteq made
    /\ hand # <<>> => Own(Head(hand))
    /\ \A i \in DOMAIN pipe : Own(pipe[i])
    /\ \A w \in Workers : \A i \in DOMAIN buffer[w] : buffer[w][i].pid = w /\ Own(buffer[w][i])
    /\ \A w \in Workers : local[w] \subseteq {e \in made : e[1] = w}

(* Every list of wrong answers, of a worker, in a message or in the parent, *)
(* names only wrong answers the hardware gave, each under its own worker.  *)
LEMMA RealStep ==
    ASSUME TypeOK, TypeOK', Real, [Next]_vars
    PROVE  Real'
  <1>1. made \subseteq made'
    BY DEF Next, Work, Send, Parent, Over, Round, Raise, Reset, Finish, FinalPut, Exit, Feed, Release, Perish,
           Terminated, Crash, KeyboardInterrupt, TimeUp, Watch, Take, Drain, Measure, CtrlC, Stop,
           Empty, Last, Escape, vars, workerVars
  <1>2. \A m : Own(m) => Own(m)'
    BY <1>1 DEF Own
  <1>3. ASSUME UNCHANGED <<pipe, buffer, hand, errors_seen>>,
               \A w \in Workers : local'[w] \subseteq local[w] \cup {e \in made' : e[1] = w}
        PROVE  Real'
    <2>1. Reported' = Reported
      BY <1>3 DEF Reported
    <2>2. \A w \in Workers : local'[w] \subseteq {e \in made' : e[1] = w}
      BY <1>1, <1>3 DEF Real
    <2> QED
      BY <1>1, <1>2, <1>3, <2>1, <2>2 DEF Real
  <1>4. ASSUME NEW w \in Workers, Round(w) \/ FinalPut(w)
        PROVE  /\ UNCHANGED <<pipe, hand, errors_seen>>
               /\ \A v \in Workers : local'[v] \subseteq {e \in made' : e[1] = v}
    <2>1. \A v \in Workers \ {w} : local'[v] = local[v]
      BY <1>4 DEF Round, FinalPut, TypeOK
    <2>2. local'[w] \subseteq local[w] \cup {e \in made' : e[1] = w}
      BY <1>4 DEF Round, FinalPut, TypeOK
    <2> QED
      BY <1>1, <1>4, <2>1, <2>2 DEF Real, Round, FinalPut, parentVars
  <1>5. ASSUME NEW w \in Workers, FinalPut(w) \/ (Round(w) /\ pc'[w] = "reset") PROVE Real'
    <2>1. PICK m \in Message, n \in Nat :
              /\ m.pid = w /\ m.units = units'[w]
              /\ m.errors = IF pc[w] = "final" THEN local[w] ELSE local'[w]
              /\ DOMAIN buffer[w] = 1 .. n /\ DOMAIN buffer'[w] = 1 .. n + 1
              /\ \A i \in 1 .. n : buffer'[w][i] = buffer[w][i]
              /\ buffer'[w][n + 1] = m
              /\ \A v \in Workers \ {w} : buffer'[v] = buffer[v]
      BY <1>5, PutFacts
    <2>2. Own(m)'
      BY <1>1, <1>4, <1>5, <2>1 DEF Real, Own
    <2>3. Reported' = Reported /\ UNCHANGED <<pipe, hand>>
      BY <1>4, <1>5 DEF Reported
    <2>4. \A i \in DOMAIN buffer'[w] : (buffer[w][i].pid = w /\ Own(buffer[w][i]))'
      BY <1>2, <2>1, <2>2 DEF Real
    <2>5. \A v \in Workers : \A i \in DOMAIN buffer'[v] : (buffer[v][i].pid = v /\ Own(buffer[v][i]))'
      BY <1>2, <2>1, <2>4 DEF Real
    <2>6. Reported' \subseteq made'
      BY <1>1, <2>3 DEF Real
    <2>7. (hand' # <<>> => Own(Head(hand))') /\ \A i \in DOMAIN pipe' : Own(pipe[i])'
      BY <1>2, <2>3 DEF Real
    <2>8. \A v \in Workers : local'[v] \subseteq {e \in made' : e[1] = v}
      BY <1>4, <1>5
    <2> QED
      BY <2>5, <2>6, <2>7, <2>8 DEF Real
  <1>6. ASSUME NEW w \in Workers, Round(w), pc'[w] # "reset" PROVE Real'
    <2>1. UNCHANGED buffer
      BY <1>6 DEF Round, Goto, TypeOK
    <2> QED
      BY <1>3, <1>4, <1>6, <2>1
  <1>7. ASSUME NEW w \in Workers, Feed(w) PROVE Real'
    <2>1. PICK m \in Message, n \in Nat, p \in Nat :
              /\ n > 0 /\ buffer[w][1] = m
              /\ DOMAIN buffer[w] = 1 .. n /\ DOMAIN buffer'[w] = 1 .. n - 1
              /\ \A i \in 1 .. n - 1 : buffer'[w][i] = buffer[w][i + 1]
              /\ \A v \in Workers \ {w} : buffer'[v] = buffer[v]
              /\ DOMAIN pipe = 1 .. p /\ DOMAIN pipe' = 1 .. p + 1
              /\ \A i \in 1 .. p : pipe'[i] = pipe[i]
              /\ pipe'[p + 1] = m
      BY <1>7, FeedFacts
    <2>2. UNCHANGED <<made, hand, errors_seen, local>>
      BY <1>7 DEF Feed, parentVars
    <2>3. \A i \in DOMAIN pipe' : Own(pipe'[i])
      BY <2>1 DEF Real
    <2>4. \A i \in DOMAIN buffer'[w] : buffer'[w][i].pid = w /\ Own(buffer'[w][i])
      BY <2>1 DEF Real
    <2>5. \A v \in Workers \ {w} : \A i \in DOMAIN buffer'[v] : buffer'[v][i].pid = v /\ Own(buffer'[v][i])
      <3>1. \A v \in Workers \ {w} : buffer'[v] = buffer[v]
        BY <2>1
      <3> QED
        BY <3>1 DEF Real
    <2>6. Reported' = Reported
      BY <2>2 DEF Reported
    <2> QED
      BY <2>2, <2>3, <2>4, <2>5, <2>6 DEF Real, Own
  <1>8. ASSUME Take PROVE Real'
    <2>1. PICK m \in Message, p \in Nat :
              /\ p > 0 /\ pipe[1] = m
              /\ hand = <<>> /\ hand' # <<>> /\ Head(hand') = m
              /\ DOMAIN pipe = 1 .. p /\ DOMAIN pipe' = 1 .. p - 1
              /\ \A i \in 1 .. p - 1 : pipe'[i] = pipe[i + 1]
      BY <1>8, TakeFacts
    <2>2. UNCHANGED <<made, buffer, errors_seen, local>>
      BY <1>8 DEF Take, workerVars
    <2>3. Own(Head(hand')) /\ \A i \in DOMAIN pipe' : Own(pipe'[i])
      BY <2>1 DEF Real
    <2> QED
      BY <1>2, <2>2, <2>3 DEF Real, Reported
  <1>9. ASSUME Drain PROVE Real'
    <2>1. hand # <<>> /\ hand' = <<>> /\ UNCHANGED <<made, buffer, pipe, local>>
      BY <1>9 DEF Drain, workerVars
    <2>2. \A e \in Reported' : e \in Reported \/ e \in Head(hand).errors
      BY <1>9 DEF Drain, NewErrors, Reported, TypeOK
    <2>3. Reported' \subseteq made'
      BY <2>1, <2>2 DEF Real, Own
    <2> QED
      BY <1>2, <2>1, <2>3 DEF Real
  <1>10. ASSUME CtrlC PROVE Real'
    <2>1. hand' = <<>> /\ UNCHANGED <<made, buffer, pipe, local, errors_seen>>
      BY <1>10 DEF CtrlC, workerVars
    <2> QED
      BY <1>2, <2>1 DEF Real, Reported
  <1>11. ASSUME NEW w \in Workers, Perish(w) PROVE Real'
    <2>1. /\ UNCHANGED <<made, pipe, hand, errors_seen>> /\ buffer'[w] = <<>> /\ local'[w] = {}
          /\ \A v \in Workers \ {w} : buffer'[v] = buffer[v] /\ local'[v] = local[v]
      BY <1>11 DEF Perish, parentVars, TypeOK
    <2> QED
      BY <1>2, <2>1 DEF Real, Reported
  <1>12. ASSUME NEW w \in Workers, \/ Raise(w) \/ Reset(w) \/ Finish(w) \/ Exit(w)
                                   \/ (KeyboardInterrupt(w) /\ ~Perish(w))
         PROVE  Real'
    <2>1. UNCHANGED <<pipe, buffer, hand, errors_seen>>
      BY <1>12 DEF Raise, Reset, Finish, Exit, KeyboardInterrupt, parentVars
    <2>2. \A v \in Workers : local'[v] \subseteq local[v]
      BY <1>12 DEF Raise, Reset, Finish, Exit, KeyboardInterrupt, LocalAfterReport, TypeOK
    <2> QED
      BY <1>3, <2>1, <2>2
  <1>13. ASSUME \/ TimeUp \/ Watch \/ Measure \/ Stop \/ Empty \/ Last \/ Escape \/ UNCHANGED vars
                \/ \E w \in Workers : Release(w)
         PROVE  Real'
    BY <1>3, <1>13 DEF Release, TimeUp, Watch, Measure, Stop, Empty, Last, Escape, vars, workerVars, parentVars
  <1> QED
    BY <1>5, <1>6, <1>7, <1>8, <1>9, <1>10, <1>11, <1>12, <1>13
    DEF Next, Work, Send, Parent, Over, Terminated, Crash

(***************************************************************************)
(* No wrong answer is in two places at once: in the parent's list, in its  *)
(* hand, in the pipe, in a feeder, or in a list a worker will still send.  *)
(***************************************************************************)
Kept(e) == e \in local[e[1]] /\ pc[e[1]] \in {"work", "final"}

OncePut(s, e) == \A i, j \in DOMAIN s : e \in s[i].errors /\ e \in s[j].errors => i = j

Once(e) ==
    /\ errors_seen[e] <= 1
    /\ e \in Reported => ~InHand(e) /\ ~InPipe(e) /\ ~InBuffer(e) /\ ~Kept(e)
    /\ InHand(e) => ~InPipe(e) /\ ~InBuffer(e) /\ ~Kept(e)
    /\ InPipe(e) => ~InBuffer(e) /\ ~Kept(e)
    /\ InBuffer(e) => ~Kept(e)
    /\ OncePut(pipe, e) /\ OncePut(buffer[e[1]], e)

AllOnce ==
    /\ sigint # {} => interrupted
    /\ ~interrupted => \A e \in Error : Once(e)

(* A round adds only wrong answers of its worker, of the round after the   *)
(* completed ones.                                                         *)
LEMMA RoundFacts ==
    ASSUME TypeOK, NEW w \in Workers, Round(w)
    PROVE  /\ pc[w] = "work"
           /\ \A v \in Workers \ {w} : local'[v] = local[v]
           /\ \A e \in local'[w] \ local[w] : e[1] = w /\ e[2] = units[w] + 1
  <1>1. PICK bad \in SUBSET Kinds :
           local' = [local EXCEPT ![w] = @ \cup {<<w, units[w] + 1, k>> : k \in bad}]
    BY DEF Round
  <1>2. local \in [Workers -> SUBSET Error] /\ pc[w] = "work"
    BY DEF Round, At, TypeOK
  <1>3. local'[w] = local[w] \cup {<<w, units[w] + 1, k>> : k \in bad}
    BY <1>1, <1>2
  <1>4. \A v \in Workers \ {w} : local'[v] = local[v]
    BY <1>1, <1>2
  <1> QED
    BY <1>2, <1>3, <1>4

(* What was found in a round that is not over is nowhere yet.              *)
LEMMA NewIsNowhere ==
    ASSUME TypeOK, Real, NEW e \in Error \ made
    PROVE  ~InHand(e) /\ ~InPipe(e) /\ ~InBuffer(e) /\ ~Kept(e) /\ e \notin Reported
  <1>1. e[1] \in Workers
    BY DEF Error
  <1> QED
    BY <1>1 DEF Real, Own, InHand, InPipe, InBuffer, Kept

(* A wrong answer only moves from one place to the next: no step leaves a  *)
(* copy behind, except the put before a Ctrl-C, and then nothing is said.  *)
LEMMA OnceStep ==
    ASSUME TypeOK, TypeOK', IInv, Real, AllOnce, [Next]_vars
    PROVE  AllOnce'
  <1>0. \A e \in Error : e[1] \in Workers
    BY DEF Error
  <1>1. ASSUME UNCHANGED <<pipe, buffer, hand, errors_seen>>,
               sigint' \subseteq sigint \/ interrupted',
               ~interrupted' => ~interrupted,
               \A e \in Error : Kept(e)' /\ ~interrupted' => Kept(e) \/ e \notin made
        PROVE  AllOnce'
    <2>1. \A e \in Error : (InHand(e)' <=> InHand(e)) /\ (InPipe(e)' <=> InPipe(e)) /\ (InBuffer(e)' <=> InBuffer(e))
      BY <1>1 DEF InHand, InPipe, InBuffer
    <2>2. Reported' = Reported
      BY <1>1 DEF Reported
    <2>3. ASSUME NEW e \in Error, ~interrupted' PROVE Once(e)'
      BY <1>1, <2>1, <2>2, <2>3, NewIsNowhere DEF AllOnce, Once
    <2>4. sigint' # {} => interrupted'
      BY <1>1 DEF AllOnce
    <2> QED
      BY <2>3, <2>4 DEF AllOnce
  <1>2. ASSUME NEW w \in Workers, Round(w), pc'[w] # "reset" PROVE AllOnce'
    <2>1. UNCHANGED <<buffer, pc, pipe, hand, errors_seen, sigint, aborted>>
      BY <1>2 DEF Round, Goto, At, TypeOK, parentVars
    <2>2. \A e \in Error : e \in local'[e[1]] => e \in local[e[1]] \/ e \notin made
      <3> SUFFICES ASSUME NEW e \in Error, e \in local'[e[1]], e \notin local[e[1]] PROVE e \notin made
        OBVIOUS
      <3>1. e[1] = w /\ e[2] = units[w] + 1 /\ pc[w] = "work"
        BY <1>0, <1>2, RoundFacts
      <3> QED
        BY <3>1, MessageFacts DEF IInv, Places
    <2> QED
      BY <1>1, <2>1, <2>2 DEF Kept, interrupted
  <1>3. ASSUME NEW w \in Workers, FinalPut(w) \/ (Round(w) /\ pc'[w] = "reset") PROVE AllOnce'
    <2>1. PICK m \in Message, n \in Nat :
              /\ m.pid = w /\ m.units = units'[w]
              /\ m.errors = IF pc[w] = "final" THEN local[w] ELSE local'[w]
              /\ DOMAIN buffer[w] = 1 .. n /\ DOMAIN buffer'[w] = 1 .. n + 1
              /\ \A i \in 1 .. n : buffer'[w][i] = buffer[w][i]
              /\ buffer'[w][n + 1] = m
              /\ \A v \in Workers \ {w} : buffer'[v] = buffer[v]
      BY <1>3, PutFacts
    <2>2. /\ UNCHANGED <<pipe, hand, errors_seen, sigint, aborted>> /\ pc'[w] \in {"reset", "flush"}
          /\ pc[w] \in {"work", "final"}
          /\ \A v \in Workers \ {w} : pc'[v] = pc[v] /\ local'[v] = local[v]
      BY <1>3 DEF Round, FinalPut, Goto, At, parentVars, TypeOK
    <2>3. \A e \in m.errors : e[1] = w /\ (Kept(e) \/ e \notin made)
      <3> TAKE e \in m.errors
      <3>1. e \in local[w] => e[1] = w /\ Kept(e)
        BY <2>2 DEF Real, Kept
      <3>2. e \notin local[w] => e \in Error /\ e[1] = w /\ e[2] = units[w] + 1 /\ pc[w] = "work"
        <4> HAVE e \notin local[w]
        <4>1. e \in Error
          BY <2>1 DEF Message
        <4>2. CASE FinalPut(w)
          BY <2>1, <4>2 DEF FinalPut, At
        <4>3. CASE Round(w)
          <5>1. pc[w] = "work" /\ e \in local'[w]
            BY <2>1, <4>3 DEF Round, At
          <5> QED
            BY <4>1, <4>3, <5>1, RoundFacts
        <4> QED
          BY <1>3, <4>2, <4>3
      <3>3. e \notin local[w] => e \notin made
        BY <3>2, MessageFacts DEF IInv, Places
      <3> QED
        BY <3>1, <3>2, <3>3
    <2>4. ASSUME NEW e \in Error, Once(e) PROVE Once(e)'
      <3>1. (InHand(e)' <=> InHand(e)) /\ (InPipe(e)' <=> InPipe(e)) /\ (e \in Reported' <=> e \in Reported)
        BY <2>2 DEF InHand, InPipe, Reported
      <3>2. InBuffer(e)' => InBuffer(e) \/ e \in m.errors
        <4>1. CASE e[1] # w
          BY <1>0, <2>1, <4>1 DEF InBuffer
        <4>2. CASE e[1] = w
          <5>1. \A i \in 1 .. n + 1 : i \in 1 .. n \/ i = n + 1
            OBVIOUS
          <5> QED
            BY <2>1, <4>2, <5>1 DEF InBuffer
        <4> QED
          BY <4>1, <4>2
      <3>3. Kept(e)' => Kept(e) /\ e[1] # w
        BY <1>0, <2>2 DEF Kept
      <3>4. e \in m.errors => ~InBuffer(e) /\ ~InPipe(e) /\ ~InHand(e) /\ e \notin Reported
        BY <2>3, <2>4, NewIsNowhere DEF Once
      <3>5. e \in m.errors => ~Kept(e)'
        BY <2>3, <3>3
      <3>6. OncePut(buffer'[e[1]], e)
        <4>1. CASE e[1] # w
          BY <1>0, <2>1, <2>4, <4>1 DEF Once
        <4>2. CASE e[1] = w
          <5> SUFFICES ASSUME NEW i \in 1 .. n + 1, NEW j \in 1 .. n + 1,
                              e \in buffer'[w][i].errors, e \in buffer'[w][j].errors
                       PROVE  i = j
            BY <2>1, <4>2 DEF OncePut
          <5>1. CASE i \in 1 .. n /\ j \in 1 .. n
            BY <2>1, <2>4, <4>2, <5>1 DEF Once, OncePut
          <5>2. \A k \in 1 .. n : e \in buffer'[w][k].errors => e \notin m.errors
            BY <2>1, <3>4, <4>2 DEF InBuffer
          <5> QED
            BY <2>1, <5>1, <5>2
        <4> QED
          BY <4>1, <4>2
      <3>7. OncePut(pipe', e) /\ errors_seen'[e] <= 1
        BY <2>2, <2>4 DEF Once
      <3> QED
        BY <2>4, <3>1, <3>2, <3>3, <3>4, <3>5, <3>6, <3>7 DEF Once
    <2> QED
      BY <2>2, <2>4 DEF AllOnce, interrupted
  <1>4. ASSUME NEW w \in Workers, Feed(w) PROVE AllOnce'
    <2>1. PICK m \in Message, n \in Nat, p \in Nat :
              /\ n > 0 /\ buffer[w][1] = m
              /\ DOMAIN buffer[w] = 1 .. n /\ DOMAIN buffer'[w] = 1 .. n - 1
              /\ \A i \in 1 .. n - 1 : buffer'[w][i] = buffer[w][i + 1]
              /\ \A v \in Workers \ {w} : buffer'[v] = buffer[v]
              /\ DOMAIN pipe = 1 .. p /\ DOMAIN pipe' = 1 .. p + 1
              /\ \A i \in 1 .. p : pipe'[i] = pipe[i]
              /\ pipe'[p + 1] = m
      BY <1>4, FeedFacts
    <2>2. UNCHANGED <<made, hand, errors_seen, local, pc, sigint, aborted>>
      BY <1>4 DEF Feed, parentVars
    <2>3. \A e \in m.errors : e[1] = w /\ InBuffer(e)
      <3>1. 1 \in DOMAIN buffer[w]
        BY <2>1
      <3>2. m.pid = w /\ Own(m)
        BY <2>1, <3>1 DEF Real
      <3> QED
        BY <2>1, <3>1, <3>2 DEF Own, InBuffer
    <2>4. ASSUME NEW e \in Error, Once(e) PROVE Once(e)'
      <3>1. (InHand(e)' <=> InHand(e)) /\ (Kept(e)' <=> Kept(e)) /\ (e \in Reported' <=> e \in Reported)
        BY <2>2 DEF InHand, Kept, Reported
      <3>2. InPipe(e)' => InPipe(e) \/ e \in m.errors
        BY <2>1 DEF InPipe
      <3>3. InBuffer(e)' => InBuffer(e) /\ e \notin m.errors
        <4>1. CASE e[1] # w
          BY <1>0, <2>1, <2>3, <4>1 DEF InBuffer
        <4>2. CASE e[1] = w
          <5> SUFFICES ASSUME NEW i \in 1 .. n - 1, e \in buffer'[w][i].errors
                       PROVE  InBuffer(e) /\ e \notin m.errors
            BY <2>1, <4>2 DEF InBuffer
          <5>1. i + 1 \in DOMAIN buffer[w] /\ 1 \in DOMAIN buffer[w] /\ i + 1 # 1 /\ e \in buffer[w][i + 1].errors
            BY <2>1
          <5>2. OncePut(buffer[w], e)
            BY <2>4, <4>2 DEF Once
          <5>3. e \notin buffer[w][1].errors
            BY <5>1, <5>2 DEF OncePut
          <5> QED
            BY <2>1, <4>2, <5>1, <5>3 DEF InBuffer
        <4> QED
          BY <4>1, <4>2
      <3>4. e \in m.errors => InBuffer(e) /\ ~InPipe(e)
        BY <2>3, <2>4 DEF Once
      <3>5. OncePut(pipe', e)
        <4> SUFFICES ASSUME NEW i \in 1 .. p + 1, NEW j \in 1 .. p + 1,
                            e \in pipe'[i].errors, e \in pipe'[j].errors
                     PROVE  i = j
          BY <2>1 DEF OncePut
        <4>1. CASE i \in 1 .. p /\ j \in 1 .. p
          BY <2>1, <2>4, <4>1 DEF Once, OncePut
        <4>2. \A k \in 1 .. p : e \in pipe'[k].errors => e \notin m.errors
          BY <2>1, <3>4 DEF InPipe
        <4> QED
          BY <2>1, <4>1, <4>2
      <3>6. OncePut(buffer'[e[1]], e)
        <4>1. CASE e[1] # w
          BY <1>0, <2>1, <2>4, <4>1 DEF Once
        <4>2. CASE e[1] = w
          <5> SUFFICES ASSUME NEW i \in 1 .. n - 1, NEW j \in 1 .. n - 1,
                              e \in buffer'[w][i].errors, e \in buffer'[w][j].errors
                       PROVE  i = j
            BY <2>1, <4>2 DEF OncePut
          <5>1. i + 1 \in DOMAIN buffer[w] /\ j + 1 \in DOMAIN buffer[w]
            <6>1. i + 1 \in 1 .. n /\ j + 1 \in 1 .. n
              OBVIOUS
            <6> QED
              BY <2>1, <6>1
          <5>2. OncePut(buffer[w], e)
            BY <2>4, <4>2 DEF Once
          <5>3. i + 1 = j + 1
            BY <2>1, <5>1, <5>2 DEF OncePut
          <5> QED
            BY <5>3
        <4> QED
          BY <4>1, <4>2
      <3> QED
        BY <2>2, <2>4, <3>1, <3>2, <3>3, <3>4, <3>5, <3>6 DEF Once
    <2> QED
      BY <2>2, <2>4 DEF AllOnce, interrupted
  <1>5. ASSUME Take PROVE AllOnce'
    <2>1. PICK m \in Message, p \in Nat :
              /\ p > 0 /\ pipe[1] = m
              /\ hand = <<>> /\ hand' # <<>> /\ Head(hand') = m
              /\ DOMAIN pipe = 1 .. p /\ DOMAIN pipe' = 1 .. p - 1
              /\ \A i \in 1 .. p - 1 : pipe'[i] = pipe[i + 1]
      BY <1>5, TakeFacts
    <2>2. UNCHANGED <<made, buffer, errors_seen, local, pc, sigint, aborted>>
      BY <1>5 DEF Take, workerVars
    <2>3. ASSUME NEW e \in Error, Once(e) PROVE Once(e)'
      <3>1. (InBuffer(e)' <=> InBuffer(e)) /\ (Kept(e)' <=> Kept(e)) /\ (e \in Reported' <=> e \in Reported)
        BY <2>2 DEF InBuffer, Kept, Reported
      <3>2. InHand(e)' => InPipe(e)
        BY <2>1 DEF InHand, InPipe
      <3>3. InPipe(e)' => InPipe(e) /\ ~InHand(e)'
        <4> SUFFICES ASSUME NEW i \in 1 .. p - 1, e \in pipe'[i].errors
                     PROVE  InPipe(e) /\ ~InHand(e)'
          BY <2>1 DEF InPipe
        <4>1. i + 1 \in DOMAIN pipe /\ 1 \in DOMAIN pipe /\ i + 1 # 1 /\ e \in pipe[i + 1].errors
          BY <2>1
        <4>2. e \notin pipe[1].errors
          BY <2>3, <4>1 DEF Once, OncePut
        <4> QED
          BY <2>1, <4>1, <4>2 DEF InPipe, InHand
      <3>4. OncePut(pipe', e)
        <4> SUFFICES ASSUME NEW i \in 1 .. p - 1, NEW j \in 1 .. p - 1,
                            e \in pipe'[i].errors, e \in pipe'[j].errors
                     PROVE  i = j
          BY <2>1 DEF OncePut
        <4>1. i + 1 \in DOMAIN pipe /\ j + 1 \in DOMAIN pipe
          BY <2>1
        <4>2. i + 1 = j + 1
          BY <2>1, <2>3, <4>1 DEF Once, OncePut
        <4> QED
          BY <4>2
      <3>5. OncePut(buffer'[e[1]], e) /\ errors_seen'[e] <= 1
        BY <2>2, <2>3 DEF Once
      <3> QED
        BY <2>3, <3>1, <3>2, <3>3, <3>4, <3>5 DEF Once
    <2> QED
      BY <2>2, <2>3 DEF AllOnce, interrupted
  <1>6. ASSUME Drain PROVE AllOnce'
    <2>1. hand # <<>> /\ hand' = <<>> /\ UNCHANGED <<made, buffer, pipe, local, pc, sigint, aborted>>
      BY <1>6 DEF Drain, workerVars
    <2>2. \A e \in Error : errors_seen'[e] = errors_seen[e] + IF InHand(e) THEN 1 ELSE 0
      BY <1>6, <2>1 DEF Drain, NewErrors, InHand
    <2>3. ASSUME NEW e \in Error, Once(e) PROVE Once(e)'
      <3>1. (InBuffer(e)' <=> InBuffer(e)) /\ (Kept(e)' <=> Kept(e)) /\ (InPipe(e)' <=> InPipe(e)) /\ ~InHand(e)'
        BY <2>1 DEF InBuffer, Kept, InHand, InPipe
      <3>2. errors_seen[e] \in Nat /\ (e \in Reported <=> errors_seen[e] > 0) /\ (e \in Reported' <=> errors_seen'[e] > 0)
        BY DEF TypeOK, Reported
      <3>3. errors_seen'[e] <= 1 /\ (e \in Reported' <=> e \in Reported \/ InHand(e))
        BY <2>2, <2>3, <3>2 DEF Once
      <3>4. OncePut(buffer'[e[1]], e) /\ OncePut(pipe', e)
        BY <2>1, <2>3 DEF Once
      <3> QED
        BY <2>3, <3>1, <3>3, <3>4 DEF Once
    <2> QED
      BY <2>1, <2>3 DEF AllOnce, interrupted
  <1>7. ASSUME NEW w \in Workers, Perish(w) PROVE AllOnce'
    <2>1. /\ UNCHANGED <<pipe, hand, errors_seen, aborted>> /\ sigint' \subseteq sigint
          /\ buffer'[w] = <<>> /\ local'[w] = {}
          /\ \A v \in Workers \ {w} : buffer'[v] = buffer[v] /\ local'[v] = local[v] /\ pc'[v] = pc[v]
      BY <1>7 DEF Perish, parentVars, TypeOK, Goto
    <2>2. ASSUME NEW e \in Error, Once(e) PROVE Once(e)'
      <3>1. (InHand(e)' <=> InHand(e)) /\ (InPipe(e)' <=> InPipe(e)) /\ (e \in Reported' <=> e \in Reported)
        BY <2>1 DEF InHand, InPipe, Reported
      <3>2. (InBuffer(e)' => InBuffer(e)) /\ (Kept(e)' => Kept(e))
        BY <1>0, <2>1 DEF InBuffer, Kept
      <3>3. OncePut(buffer'[e[1]], e)
        BY <1>0, <2>1, <2>2 DEF Once, OncePut
      <3>4. OncePut(pipe', e) /\ errors_seen'[e] <= 1
        BY <2>1, <2>2 DEF Once
      <3> QED
        BY <2>2, <3>1, <3>2, <3>3, <3>4 DEF Once
    <2> QED
      BY <2>1, <2>2 DEF AllOnce, interrupted
  <1>8. ASSUME NEW w \in Workers, Raise(w) \/ Reset(w) \/ Finish(w) \/ Exit(w) PROVE AllOnce'
    <2>1. UNCHANGED <<pipe, buffer, hand, errors_seen, aborted>> /\ sigint' \subseteq sigint
      BY <1>8 DEF Raise, Reset, Finish, Exit, parentVars
    <2>2. \A e \in Error : Kept(e)' => Kept(e)
      BY <1>0, <1>8 DEF Kept, Raise, Reset, Finish, Exit, LocalAfterReport, TypeOK, Goto, At
    <2> QED
      BY <1>1, <2>1, <2>2 DEF interrupted
  <1>9. ASSUME NEW w \in Workers, KeyboardInterrupt(w), ~Perish(w) PROVE AllOnce'
    <2>1. UNCHANGED <<pipe, buffer, hand, errors_seen, aborted>> /\ sigint' \subseteq sigint /\ sigint # {}
      BY <1>9 DEF KeyboardInterrupt, parentVars
    <2>2. interrupted /\ interrupted'
      BY <2>1 DEF AllOnce, interrupted
    <2> QED
      BY <2>2 DEF AllOnce
  <1>10. ASSUME CtrlC PROVE AllOnce'
    BY <1>10 DEF CtrlC, AllOnce, interrupted
  <1>11. ASSUME \/ TimeUp \/ Watch \/ Measure \/ Stop \/ Empty \/ Last \/ Escape \/ UNCHANGED vars
                \/ \E w \in Workers : Release(w)
         PROVE  AllOnce'
    <2>1. UNCHANGED <<pipe, buffer, hand, errors_seen, local, pc, sigint>> /\ (~interrupted' => ~interrupted)
      BY <1>11 DEF Release, TimeUp, Watch, Measure, Stop, Empty, Last, Escape, vars, workerVars, parentVars,
                   interrupted, IInv, Places
    <2>2. interrupted => interrupted'
      BY <1>11 DEF Release, TimeUp, Watch, Measure, Stop, Empty, Last, Escape, vars, parentVars,
                   interrupted, IInv, Places
    <2>3. \A e \in Error : Kept(e)' => Kept(e)
      BY <2>1 DEF Kept
    <2> QED
      BY <2>1, <2>2, <2>3, <1>1
  <1> QED
    BY <1>2, <1>3, <1>4, <1>5, <1>6, <1>7, <1>8, <1>9, <1>10, <1>11
    DEF Next, Work, Send, Parent, Over, Terminated, Crash

(***************************************************************************)
(* A worker that ended in order has told its last count, and when the      *)
(* parent stopped because every process had ended, nothing more can come.  *)
(***************************************************************************)
Says(m, w) == m.pid = w /\ m.units = units[w]

Told(w) ==
    \/ units_by_pid[w] = units[w]
    \/ hand # <<>> /\ Says(Head(hand), w)
    \/ \E i \in DOMAIN pipe : Says(pipe[i], w)
    \/ \E i \in DOMAIN buffer[w] : Says(buffer[w][i], w)

AllTold == ~interrupted => \A w \in Workers \ lossy : pc[w] \in {"flush", "exited"} => Told(w)

Quiet ==
    /\ \A w \in Workers : pc[w] = "exited" => buffer[w] = <<>>
    /\ aborted = "no" /\ phase \in {"stop", "final", "last", "done"} => Alive = {}
    /\ aborted = "no" /\ phase \in {"last", "done"} => hand = <<>> /\ pipe = <<>>

(* Nothing is left of what has ended: that stays so with every step.       *)
LEMMA QuietStep ==
    ASSUME TypeOK, TypeOK', IInv, Quiet, [Next]_vars
    PROVE  Quiet'
  <1>1. ASSUME NEW w \in Workers, w \in Alive, UNCHANGED <<phase, aborted>>,
               \A v \in Workers \ {w} : pc'[v] = pc[v] /\ buffer'[v] = buffer[v],
               pc'[w] = "exited" => buffer'[w] = <<>>
        PROVE  Quiet'
    <2>1. \A v \in Workers : pc'[v] = "exited" => buffer'[v] = <<>>
      BY <1>1 DEF Quiet
    <2>2. ~(aborted = "no" /\ phase \in {"stop", "final", "last", "done"})
      BY <1>1 DEF Quiet
    <2> QED
      BY <1>1, <2>1, <2>2 DEF Quiet
  <1>2. ASSUME NEW w \in Workers, Work(w) \/ Send(w) \/ (Perish(w) /\ Live(w)) \/ KeyboardInterrupt(w) PROVE Quiet'
    <2>1. UNCHANGED <<phase, aborted>> /\ w \in Alive
      BY <1>2 DEF Work, Send, Round, Raise, Reset, Finish, FinalPut, Exit, Feed, Release, Perish,
                  KeyboardInterrupt, parentVars, At, Live, Alive
    <2>2. \A v \in Workers \ {w} : pc'[v] = pc[v] /\ buffer'[v] = buffer[v]
      <3>1. CASE Round(w) \/ FinalPut(w) \/ Feed(w)
        <4>1. \A v \in Workers \ {w} : pc'[v] = pc[v]
          BY <3>1 DEF Round, FinalPut, Feed, Goto, TypeOK
        <4>2. \A v \in Workers \ {w} : buffer'[v] = buffer[v]
          BY <3>1 DEF Round, FinalPut, Feed, Put, TypeOK
        <4> QED
          BY <4>1, <4>2
      <3>2. CASE Raise(w) \/ Reset(w) \/ Finish(w) \/ Exit(w) \/ Release(w)
        BY <3>2 DEF Raise, Reset, Finish, Exit, Release, Goto, TypeOK
      <3>3. CASE Perish(w)
        BY <3>3 DEF Perish, Goto, TypeOK
      <3>4. CASE KeyboardInterrupt(w) /\ ~Perish(w)
        BY <3>4 DEF KeyboardInterrupt, Goto, TypeOK
      <3> QED
        BY <1>2, <3>1, <3>2, <3>3, <3>4 DEF Work, Send
    <2>3. pc'[w] = "exited" => buffer'[w] = <<>>
      <3>1. CASE Send(w)
        BY <2>1, <3>1 DEF Send, Feed, Release, Alive
      <3>2. CASE Work(w) \/ Perish(w) \/ KeyboardInterrupt(w)
        BY <3>2 DEF Work, Round, Raise, Reset, Finish, FinalPut, Exit, Perish, KeyboardInterrupt, Goto, TypeOK
      <3> QED
        BY <1>2, <3>1, <3>2
    <2> QED
      BY <1>1, <2>1, <2>2, <2>3
  <1>3. ASSUME TimeUp \/ Take \/ Drain \/ CtrlC \/ Escape \/ UNCHANGED vars PROVE Quiet'
    BY <1>3 DEF Quiet, TimeUp, Take, Drain, CtrlC, Escape, Alive, vars, workerVars, parentVars
  <1>4. ASSUME Watch \/ Measure \/ Stop \/ Empty \/ Last PROVE Quiet'
    <2>1. UNCHANGED <<pc, buffer>> /\ Alive' = Alive
      BY <1>4 DEF Watch, Measure, Stop, Empty, Last, workerVars, Alive
    <2>2. CASE Watch \/ Measure
      BY <2>1, <2>2 DEF Quiet, Watch, Measure, StillRunning
    <2>3. CASE Stop \/ Empty
      <3>1. UNCHANGED <<hand, pipe, aborted>>
        BY <2>3 DEF Stop, Empty
      <3>2. \/ phase = "stop" /\ phase' = "final"
            \/ phase = "final" /\ phase' = "last" /\ hand = <<>> /\ pipe = <<>>
        BY <2>3 DEF Stop, Empty, FinalWait, Nothing
      <3> QED
        BY <2>1, <3>1, <3>2 DEF Quiet
    <2>4. CASE Last
      <3>1. UNCHANGED <<hand, pipe, aborted>> /\ phase = "last"
        BY <2>4 DEF Last
      <3>2. phase' = "done" \/ (phase' = "final" /\ Alive # {})
        BY <2>4 DEF Last
      <3> QED
        BY <2>1, <3>1, <3>2 DEF Quiet
    <2> QED
      BY <1>4, <2>2, <2>3, <2>4
  <1> QED
    <2>1. CASE \E w \in Workers : Work(w) \/ Send(w) \/ Terminated(w) \/ Crash(w) \/ KeyboardInterrupt(w)
      BY <1>2, <2>1 DEF Terminated, Crash
    <2>2. CASE TimeUp \/ Parent \/ CtrlC \/ Escape \/ Over \/ UNCHANGED vars
      BY <1>3, <1>4, <2>2 DEF Parent, Over
    <2> QED
      BY <2>1, <2>2 DEF Next

(* The last count of a worker is not dropped on its way to the parent.     *)
LEMMA ToldStep ==
    ASSUME TypeOK, TypeOK', IInv, Quiet, AllTold, [Next]_vars
    PROVE  AllTold'
  <1>1. ASSUME UNCHANGED <<units, units_by_pid, hand, pipe, buffer>>,
               ~interrupted' => ~interrupted,
               lossy \subseteq lossy',
               \A w \in Workers : pc'[w] \in {"flush", "exited"} => pc[w] \in {"flush", "exited"} \/ w \in lossy'
        PROVE  AllTold'
    BY <1>1 DEF AllTold, Told, Says
  <1>2. ASSUME NEW w \in Workers, Round(w) PROVE AllTold'
    <2>1. UNCHANGED <<pipe, hand, units_by_pid, lossy, aborted>> /\ pc'[w] \notin {"flush", "exited"}
      BY <1>2 DEF Round, Goto, parentVars, TypeOK
    <2>2. \A v \in Workers \ {w} : pc'[v] = pc[v] /\ units'[v] = units[v] /\ buffer'[v] = buffer[v]
      BY <1>2 DEF Round, Goto, Put, TypeOK
    <2> QED
      BY <2>1, <2>2 DEF AllTold, Told, Says, interrupted
  <1>3. ASSUME NEW w \in Workers, FinalPut(w) PROVE AllTold'
    <2>1. PICK m \in Message, n \in Nat :
              /\ m.pid = w /\ m.units = units'[w]
              /\ DOMAIN buffer'[w] = 1 .. n + 1
              /\ buffer'[w][n + 1] = m
              /\ \A v \in Workers \ {w} : buffer'[v] = buffer[v]
      BY <1>3, PutFacts
    <2>2. UNCHANGED <<pipe, hand, units_by_pid, units, lossy, aborted>> /\ \A v \in Workers \ {w} : pc'[v] = pc[v]
      BY <1>3 DEF FinalPut, Goto, parentVars, TypeOK
    <2>3. Told(w)'
      BY <2>1, <2>2 DEF Told, Says
    <2> QED
      BY <2>1, <2>2, <2>3 DEF AllTold, Told, Says, interrupted
  <1>4. ASSUME NEW w \in Workers, Feed(w) PROVE AllTold'
    <2>1. PICK m \in Message, n \in Nat, p \in Nat :
              /\ n > 0 /\ buffer[w][1] = m
              /\ DOMAIN buffer[w] = 1 .. n /\ DOMAIN buffer'[w] = 1 .. n - 1
              /\ \A i \in 1 .. n - 1 : buffer'[w][i] = buffer[w][i + 1]
              /\ \A v \in Workers \ {w} : buffer'[v] = buffer[v]
              /\ DOMAIN pipe = 1 .. p /\ DOMAIN pipe' = 1 .. p + 1
              /\ \A i \in 1 .. p : pipe'[i] = pipe[i]
              /\ pipe'[p + 1] = m
      BY <1>4, FeedFacts
    <2>2. UNCHANGED <<pc, hand, units_by_pid, units, lossy, aborted>>
      BY <1>4 DEF Feed, parentVars
    <2>3. ASSUME NEW v \in Workers, Told(v) PROVE Told(v)'
      <3>1. ASSUME NEW i \in DOMAIN pipe, Says(pipe[i], v) PROVE Told(v)'
        <4>1. i \in DOMAIN pipe' /\ pipe'[i] = pipe[i]
          BY <2>1, <3>1
        <4> QED
          BY <2>2, <3>1, <4>1 DEF Told, Says
      <3>2. ASSUME NEW i \in DOMAIN buffer[v], Says(buffer[v][i], v) PROVE Told(v)'
        <4>1. CASE v # w
          BY <2>1, <2>2, <3>2, <4>1 DEF Told, Says
        <4>2. CASE v = w /\ i = 1
          BY <2>1, <2>2, <3>2, <4>2 DEF Told, Says
        <4>3. CASE v = w /\ i # 1
          <5>1. i - 1 \in DOMAIN buffer'[w] /\ buffer'[w][i - 1] = buffer[w][i]
            BY <2>1, <3>2, <4>3
          <5> QED
            BY <2>2, <3>2, <4>3, <5>1 DEF Told, Says
        <4> QED
          BY <4>1, <4>2, <4>3
      <3> QED
        BY <2>2, <2>3, <3>1, <3>2 DEF Told, Says
    <2> QED
      BY <2>2, <2>3 DEF AllTold, interrupted
  <1>5. ASSUME Take PROVE AllTold'
    <2>1. PICK m \in Message, p \in Nat :
              /\ p > 0 /\ pipe[1] = m
              /\ hand = <<>> /\ hand' # <<>> /\ Head(hand') = m
              /\ DOMAIN pipe = 1 .. p /\ DOMAIN pipe' = 1 .. p - 1
              /\ \A i \in 1 .. p - 1 : pipe'[i] = pipe[i + 1]
      BY <1>5, TakeFacts
    <2>2. UNCHANGED <<pc, buffer, units_by_pid, units, lossy, aborted>>
      BY <1>5 DEF Take, workerVars
    <2>3. ASSUME NEW v \in Workers, Told(v) PROVE Told(v)'
      <3>1. ASSUME NEW i \in DOMAIN pipe, Says(pipe[i], v) PROVE Told(v)'
        <4>1. CASE i = 1
          BY <2>1, <2>2, <3>1, <4>1 DEF Told, Says
        <4>2. CASE i # 1
          <5>1. i - 1 \in DOMAIN pipe' /\ pipe'[i - 1] = pipe[i]
            BY <2>1, <3>1, <4>2
          <5> QED
            BY <2>2, <3>1, <5>1 DEF Told, Says
        <4> QED
          BY <4>1, <4>2
      <3> QED
        BY <2>1, <2>2, <2>3, <3>1 DEF Told, Says
    <2> QED
      BY <2>2, <2>3 DEF AllTold, interrupted
  <1>6. ASSUME Drain PROVE AllTold'
    <2>1. hand # <<>> /\ hand' = <<>> /\ UNCHANGED <<pc, buffer, pipe, units, lossy, aborted>>
      BY <1>6 DEF Drain, workerVars
    <2>2. Head(hand) \in Message /\ Head(hand).pid \in Workers
      BY <2>1, MessageFacts DEF Message
    <2>3. ASSUME NEW v \in Workers, units_by_pid[v] = units[v] \/ Says(Head(hand), v)
          PROVE  units_by_pid'[v] = units[v]
      BY <1>6, <2>1, <2>2, <2>3, MessageFacts DEF Drain, NewUnits, Says, IInv, NoneAhead, TypeOK
    <2> QED
      BY <2>1, <2>3 DEF AllTold, Told, Says, interrupted
  <1>7. ASSUME NEW w \in Workers, Perish(w) PROVE AllTold'
    <2>1. UNCHANGED <<pipe, hand, units_by_pid, units, aborted>> /\ lossy' = lossy \cup {w}
      BY <1>7 DEF Perish, parentVars
    <2>2. \A v \in Workers \ {w} : pc'[v] = pc[v] /\ buffer'[v] = buffer[v]
      BY <1>7 DEF Perish, Goto, TypeOK
    <2> QED
      BY <2>1, <2>2 DEF AllTold, Told, Says, interrupted
  <1>8. ASSUME NEW w \in Workers, Raise(w) \/ Reset(w) \/ Finish(w) \/ Exit(w) \/ (KeyboardInterrupt(w) /\ ~Perish(w))
        PROVE  AllTold'
    <2>1. UNCHANGED <<units, units_by_pid, hand, pipe, buffer, aborted>> /\ lossy \subseteq lossy'
      BY <1>8 DEF Raise, Reset, Finish, Exit, KeyboardInterrupt, parentVars
    <2>2. \A v \in Workers : pc'[v] \in {"flush", "exited"} => pc[v] \in {"flush", "exited"} \/ v \in lossy'
      BY <1>8 DEF Raise, Reset, Finish, Exit, KeyboardInterrupt, Goto, At, TypeOK
    <2> QED
      BY <1>1, <2>1, <2>2 DEF interrupted
  <1>9. ASSUME CtrlC PROVE AllTold'
    BY <1>9 DEF CtrlC, AllTold, interrupted
  <1>10. ASSUME \/ TimeUp \/ Watch \/ Measure \/ Stop \/ Empty \/ Last \/ Escape \/ UNCHANGED vars
                \/ \E w \in Workers : Release(w)
         PROVE  AllTold'
    <2>1. UNCHANGED <<units, units_by_pid, hand, pipe, buffer, lossy, pc>> /\ (~interrupted' => ~interrupted)
      BY <1>10 DEF Release, TimeUp, Watch, Measure, Stop, Empty, Last, Escape, vars, workerVars, parentVars,
                   interrupted, IInv, Places
    <2> QED
      BY <2>1, <1>1
  <1> QED
    BY <1>2, <1>3, <1>4, <1>5, <1>6, <1>7, <1>8, <1>9, <1>10
    DEF Next, Work, Send, Parent, Over, Terminated, Crash

(* The second invariant, of every run.                                     *)
LEMMA LedgerInvariant == Spec => [](Real /\ AllOnce /\ Quiet /\ AllTold)
  <1>1. Init => Real /\ AllOnce /\ Quiet /\ AllTold
    <2> SUFFICES ASSUME Init PROVE Real /\ AllOnce /\ Quiet /\ AllTold
      OBVIOUS
    <2> USE DEF Init
    <2>1. Reported = {}
      BY DEF Reported
    <2>2. \A e \in Error : e[1] \in Workers
      BY DEF Error
    <2>3. Real
      BY <2>1 DEF Real
    <2>4. AllOnce
      BY <2>1, <2>2 DEF AllOnce, Once, OncePut, InHand, InPipe, InBuffer, Kept
    <2> QED
      BY <2>3, <2>4 DEF Quiet, AllTold
  <1>2. /\ TypeOK /\ TypeOK' /\ IInv /\ IInv'
        /\ Real /\ AllOnce /\ Quiet /\ AllTold /\ [Next]_vars
        => (Real /\ AllOnce /\ Quiet /\ AllTold)'
    BY RealStep, OnceStep, QuietStep, ToldStep
  <1> QED
    BY <1>1, <1>2, TypeCorrect, Invariant, PTL DEF Spec

(* The error list accuses the hardware of nothing it did not do, and of    *)
(* each wrong answer once, whatever dies and however the reports, the      *)
(* resets and the drains interleave.                                       *)
THEOREM NothingIsCountedTwice == Spec => []NeverOvercounted
  <1>1. TypeOK /\ Real /\ AllOnce => NeverOvercounted
    <2> SUFFICES ASSUME TypeOK, Real, AllOnce, ~interrupted, NEW e \in Error
                 PROVE  errors_seen[e] <= IF e \in made THEN 1 ELSE 0
      BY DEF NeverOvercounted
    <2>1. errors_seen[e] \in Nat /\ errors_seen[e] <= 1
      BY DEF TypeOK, AllOnce, Once
    <2>2. e \notin made => ~(errors_seen[e] > 0)
      BY DEF Real, Reported
    <2> QED
      BY <2>1, <2>2
  <1> QED
    BY <1>1, TypeCorrect, LedgerInvariant, PTL

(* When the run ends because every process did, the parent's figures for a *)
(* worker that ended in order are exact: its rounds and its wrong answers. *)
THEOREM SurvivorsAreCounted == Spec => []SurvivorsFullyCounted
  <1>1. TypeOK /\ IInv /\ AllOnce /\ Quiet /\ AllTold => SurvivorsFullyCounted
    <2> SUFFICES ASSUME TypeOK, IInv, AllOnce, Quiet, AllTold, phase = "done", aborted = "no",
                        NEW w \in Workers \ lossy
                 PROVE  /\ units_by_pid[w] = units[w]
                        /\ \A e \in made : e[1] = w => errors_seen[e] = 1
      BY DEF SurvivorsFullyCounted
    <2>1. Alive = {} /\ hand = <<>> /\ pipe = <<>> /\ ~interrupted
      BY DEF Quiet, interrupted
    <2>2. pc[w] = "exited" /\ buffer[w] = <<>>
      BY <2>1 DEF Alive, IInv, Places, Quiet
    <2>3. units_by_pid[w] = units[w]
      BY <2>1, <2>2 DEF AllTold, Told
    <2>4. ASSUME NEW e \in made, e[1] = w PROVE errors_seen[e] = 1
      <3>1. e \in Reported
        BY <2>1, <2>2, <2>4 DEF IInv, Held, Seen, InHand, InPipe, InBuffer
      <3>2. errors_seen[e] \in Nat /\ errors_seen[e] > 0 /\ errors_seen[e] <= 1
        BY <2>1, <3>1 DEF Reported, AllOnce, Once, TypeOK
      <3> QED
        BY <3>2
    <2> QED
      BY <2>3, <2>4
  <1> QED
    BY <1>1, TypeCorrect, Invariant, LedgerInvariant, PTL

(* Every step of the burn-in is a step of the ledger or leaves it alone:   *)
(* the tally holds real wrong answers only, nothing leaves it, it grows    *)
(* only while the run is open, and it is closed once.                      *)
THEOREM LedgerIsKept == Spec => Promise!Spec
  <1> DEFINE st == CASE phase = "done" -> "reported"
                     [] phase = "raised" -> "abandoned"
                     [] OTHER -> "running"
  <1>1. Init => Promise!Init
    <2> SUFFICES ASSUME Init PROVE Promise!Init
      OBVIOUS
    <2>1. ~Stuck
      BY DEF Init, Stuck, Torn
    <2>2. Reported = {} /\ made = {} /\ st = "running"
      BY DEF Init, Reported
    <2> QED
      BY <2>1, <2>2 DEF Promise!Init
  <1>2. TypeOK /\ TypeOK' /\ Real' /\ [Next]_vars => [Promise!Next]_(Promise!vars)
    <2> SUFFICES ASSUME TypeOK, TypeOK', Real', [Next]_vars PROVE [Promise!Next]_(Promise!vars)
      OBVIOUS
    <2>0. Stuck' \in BOOLEAN
      BY DEF Stuck, Torn
    <2>1. st' = st \/ (st = "running" /\ st' \in {"reported", "abandoned"})
      BY DEF TypeOK, Next, Work, Send, Parent, Over, Round, Raise, Reset, Finish, FinalPut, Exit, Feed, Release, Perish,
             Terminated, Crash, KeyboardInterrupt, TimeUp, Watch, Take, Drain, Measure, CtrlC, Stop,
             Empty, Last, Escape, vars, workerVars, parentVars, At, Live, Ended
    <2>2. CASE Drain
      <3>1. UNCHANGED <<made, phase>> /\ phase \in {"drain", "final"}
        BY <2>2 DEF Drain, workerVars
      <3>2. Reported \subseteq Reported' /\ Reported' \subseteq made
        <4>1. Reported \subseteq Reported'
          BY <2>2 DEF Drain, NewErrors, Reported, TypeOK
        <4> QED
          BY <3>1, <4>1 DEF Real
      <3> QED
        BY <2>0, <3>1, <3>2 DEF Promise!Next, Promise!Count
    <2>3. CASE \E w \in Workers : Round(w) \/ Raise(w)
      <3>1. UNCHANGED <<phase, errors_seen>> /\ made \subseteq made' /\ made' \subseteq Error
        BY <2>3 DEF Round, Raise, parentVars, TypeOK
      <3>2. UNCHANGED Reported
        BY <3>1 DEF Reported
      <3> QED
        BY <2>0, <3>1, <3>2 DEF Promise!Next, Promise!Find
    <2>4. CASE ~Drain /\ ~\E w \in Workers : Round(w) \/ Raise(w)
      <3>1. UNCHANGED <<made, errors_seen>>
        BY <2>4 DEF Next, Work, Send, Parent, Over, Reset, Finish, FinalPut, Exit, Feed, Release, Perish,
             Terminated, Crash, KeyboardInterrupt, TimeUp, Watch, Take, Measure, CtrlC, Stop,
             Empty, Last, Escape, vars, workerVars, parentVars
      <3>2. UNCHANGED Reported
        BY <3>1 DEF Reported
      <3> QED
        BY <2>0, <2>1, <3>1, <3>2 DEF Promise!Next, Promise!Close
    <2> QED
      BY <2>2, <2>3, <2>4
  <1> QED
    BY <1>1, <1>2, TypeCorrect, LedgerInvariant, PTL DEF Spec, Promise!Spec
=============================================================================
