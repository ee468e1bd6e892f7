--------------------------- MODULE NetPeerProofs ---------------------------
(***************************************************************************)
(* Theorems about NetPeer, for any numbers of streams and probers, any     *)
(* sizes of the sockets, sendalls and probes, and any backlog.             *)
(***************************************************************************)
EXTENDS NetPeer, TLAPS

(* What one sendall or one probe more is worth.                            *)
LEMMA OneMore ==
    ASSUME NEW a \in Nat, NEW b \in Nat
    PROVE  a * (b + 1) = a * b + a
  OBVIOUS

(* What the quotient is: the arithmetic of EchoOf.                         *)
LEMMA Quotient ==
    ASSUME NEW a \in Nat, NEW b \in Nat \ {0}
    PROVE  /\ a \div b \in Int
           /\ b * (a \div b) <= a
           /\ a < b * (a \div b) + b
  OBVIOUS

(* The last unit of the d-th probe belongs to the d-th probe.              *)
LEMMA LastUnit ==
    ASSUME NEW b \in Nat \ {0}, NEW d \in Nat \ {0}
    PROVE  (b * d - 1) \div b + 1 = d
  <1> DEFINE q == (b * d - 1) \div b
  <1>1. b * d - 1 \in Nat
    <2>1. b * d \in Nat /\ b * d # 0
      OBVIOUS
    <2> QED
      BY <2>1
  <1>2. q \in Int /\ b * q <= b * d - 1 /\ b * d - 1 < b * q + b
    BY <1>1, Quotient
  <1> HIDE DEF q
  <1>3. b * q < b * d /\ b * d <= b * q + b
    BY <1>2
  <1>4. q < d
    BY <1>2, <1>3
  <1>5. d <= q + 1
    BY <1>2, <1>3
  <1>6. q + 1 = d
    BY <1>2, <1>4, <1>5
  <1> QED
    BY <1>6 DEF q
-----------------------------------------------------------------------------
(***************************************************************************)
(* Types.  A prober that waits has a probe left to record.                 *)
(***************************************************************************)
Waiting == \A p \in Probers : cl[p] = "wait" => Attempts(p) < Probes /\ part[p] > 0

Typed == TypeOK /\ Waiting

(* What the operators on a queue of connections give.                      *)
LEMMA QueueFacts ==
    ASSUME NEW S, NEW q \in Seq(S)
    PROVE  /\ Len(q) \in Nat
           /\ \A c \in S : Append(q, c) \in Seq(S) /\ Len(Append(q, c)) = Len(q) + 1
           /\ q # <<>> => Head(q) \in S /\ Tail(q) \in Seq(S) /\ Len(Tail(q)) = Len(q) - 1
           /\ ToSet(q) \subseteq S
  BY DEF ToSet

(* The numbers of a connection change only with its own client's steps and *)
(* with the server's reads: the other steps keep every type.               *)
LEMMA ClientTypes ==
    ASSUME Typed, NEW c \in Clients, Client(c)
    PROVE  Typed'
  <1> USE NetAssumption DEF Typed
  <1>0. /\ part \in [Clients -> Nat] /\ done \in [Clients -> Nat] /\ up \in [Clients -> Nat]
        /\ back \in [Clients -> Nat] /\ heard \in [Probers -> Nat]
        /\ samples \in [Probers -> 0 .. Probes] /\ lost \in [Probers -> 0 .. Probes]
        /\ cl \in [Clients -> {"connect", "send", "wait", "close", "over", "gone"}]
        /\ Payload \in Nat /\ Pieces \in Nat \ {0} /\ Probes \in Nat /\ Backlog \in Nat
        /\ queue \in Seq(Clients) /\ Len(queue) <= Backlog
        /\ Probers \subseteq Clients /\ Streams \subseteq Clients
    BY DEF TypeOK, Clients
  <1>1. CASE Connect(c)
    <2>1. queue' \in Seq(Clients) /\ Len(queue') <= Backlog
      <3>1. CASE queue' = Append(queue, c) /\ Len(queue) < Backlog
        BY <1>0, <3>1, QueueFacts
      <3>2. CASE queue' = queue
        BY <1>0, <3>2
      <3> QED
        BY <1>1, <3>1, <3>2 DEF Connect, BacklogHasRoom
    <2>2. cl' \in [Clients -> {"connect", "send", "wait", "close", "over", "gone"}] /\ failed' \subseteq Streams
      BY <1>1 DEF Connect, Goto, TypeOK
    <2>3. UNCHANGED <<part, done, heard, samples, lost, stray, stop, serverVars, up, back, fin>>
      BY <1>1 DEF Connect
    <2>4. Waiting'
      BY <1>0, <1>1, <2>3 DEF Waiting, Attempts, Connect, Goto
    <2> QED
      BY <2>1, <2>2, <2>3, <2>4 DEF TypeOK, serverVars
  <1>2. CASE Close(c)
    <2>1. Waiting'
      BY <1>0, <1>2 DEF Waiting, Attempts, Close, Goto
    <2> QED
      BY <1>2, <2>1 DEF Close, Goto, TypeOK, serverVars
  <1>3. CASE c \in Streams /\ BeginSend(c)
    <2>1. Waiting'
      BY <1>0, <1>3 DEF Waiting, Attempts, BeginSend, Goto
    <2>2. part' \in [Clients -> Nat] /\ cl' \in [Clients -> {"connect", "send", "wait", "close", "over", "gone"}]
      BY <1>0, <1>3 DEF BeginSend, Goto
    <2> QED
      BY <1>3, <2>1, <2>2 DEF BeginSend, TypeOK, serverVars, linkVars
  <1>4. CASE c \in Streams /\ Send(c)
    <2>1. part[c] + -1 \in Nat /\ done[c] + 0 \in Nat /\ done[c] + 1 \in Nat /\ up[c] + 1 \in Nat
      BY <1>0, <1>4 DEF Send
    <2>2. part' \in [Clients -> Nat] /\ up' \in [Clients -> Nat] /\ \A d \in Clients \ {c} : part'[d] = part[d]
      BY <1>0, <1>4, <2>1 DEF Send, Changed
    <2>3. done' \in [Clients -> Nat]
      BY <1>0, <1>4, <2>1 DEF Send, Changed
    <2>4. Waiting'
      BY <1>0, <1>4, <2>2 DEF Waiting, Attempts, Send
    <2> QED
      BY <1>4, <2>2, <2>3, <2>4 DEF Send, TypeOK, serverVars
  <1>5. CASE c \in Streams /\ SendFails(c)
    <2>1. Waiting'
      BY <1>0, <1>5 DEF Waiting, Attempts, SendFails, Goto
    <2> QED
      BY <1>5, <2>1 DEF SendFails, Goto, TypeOK, serverVars, linkVars
  <1>6. CASE c \in Probers /\ Probe(c)
    <2>1. /\ UNCHANGED <<heard, samples, stray, failed, stop, serverVars, queue, back, fin>>
          /\ cl[c] = "send"
      BY <1>6 DEF Probe
    <2>2. samples[c] \in Nat /\ lost[c] \in Nat /\ samples[c] <= Probes /\ lost[c] <= Probes
      BY <1>0, <1>6
    <2>3. CASE /\ Attempts(c) < Probes
               /\ up' = Changed(up, c, Pieces) /\ done' = Changed(done, c, 1)
               /\ part' = [part EXCEPT ![c] = Pieces] /\ cl' = [cl EXCEPT ![c] = "wait"] /\ lost' = lost
      <3>1. /\ part' \in [Clients -> Nat] /\ done' \in [Clients -> Nat] /\ up' \in [Clients -> Nat]
            /\ cl' \in [Clients -> {"connect", "send", "wait", "close", "over", "gone"}]
        <4>1. up[c] + Pieces \in Nat /\ done[c] + 1 \in Nat /\ Pieces \in Nat
          BY <1>0
        <4>2. up' \in [Clients -> Nat] /\ done' \in [Clients -> Nat]
          BY <1>0, <2>3, <4>1 DEF Changed
        <4> QED
          BY <1>0, <2>3, <4>1, <4>2
      <3>2. \A p \in Probers \ {c} : cl'[p] = cl[p] /\ part'[p] = part[p]
        BY <1>0, <2>3
      <3>3. part'[c] > 0
        BY <1>0, <1>6, <2>3
      <3>4. Waiting'
        BY <1>0, <2>1, <2>3, <3>2, <3>3 DEF Waiting, Attempts
      <3> QED
        BY <2>1, <2>3, <3>1, <3>4 DEF TypeOK, serverVars
    <2>4. CASE Attempts(c) < Probes /\ lost' = Changed(lost, c, 1) /\ UNCHANGED <<up, done, part, cl>>
      <3>1. lost' \in [Probers -> 0 .. Probes] /\ \A p \in Probers \ {c} : lost'[p] = lost[p]
        <4>1. Probes \in Nat /\ samples[c] + lost[c] < Probes
          BY <1>0, <2>4 DEF Attempts
        <4>2. lost[c] + 1 \in 0 .. Probes
          BY <2>2, <4>1
        <4> QED
          BY <1>0, <1>6, <2>4, <4>2 DEF Changed
      <3>2. Waiting'
        BY <1>0, <2>1, <2>4, <3>1 DEF Waiting, Attempts
      <3> QED
        BY <2>1, <2>4, <3>1, <3>2 DEF TypeOK, serverVars
    <2>5. CASE cl' = [cl EXCEPT ![c] = "close"] /\ UNCHANGED <<up, done, part, lost>>
      <3>1. Waiting'
        BY <1>0, <2>1, <2>5 DEF Waiting, Attempts
      <3> QED
        BY <2>1, <2>5, <3>1 DEF TypeOK, serverVars
    <2> QED
      BY <1>6, <2>3, <2>4, <2>5 DEF Probe, Goto
  <1>7. CASE c \in Probers /\ (Hear(c) \/ ProbeLost(c))
    <2>1. /\ Attempts(c) < Probes /\ part[c] > 0 /\ samples[c] \in 0 .. Probes /\ lost[c] \in 0 .. Probes
          /\ cl[c] = "wait" /\ c \in Clients
      BY <1>0, <1>7 DEF Waiting, Hear, ProbeLost
    <2>2. CASE Hear(c)
      <3>1. UNCHANGED <<done, lost, failed, stop, serverVars, queue, up, fin>> /\ back[c] > 0
        BY <2>2 DEF Hear
      <3>2. /\ back[c] + -1 \in Nat /\ heard[c] + 1 \in Nat /\ part[c] + -1 \in Nat
            /\ samples[c] + 1 \in 0 .. Probes
        <4>1. back[c] \in Nat /\ heard[c] \in Nat /\ part[c] \in Nat
          BY <1>0, <1>7, <2>1
        <4>2. samples[c] + 1 \in 0 .. Probes
          <5>1. Probes \in Nat /\ samples[c] \in Nat /\ lost[c] \in Nat /\ samples[c] + lost[c] < Probes
            BY <1>0, <2>1 DEF Attempts
          <5> QED
            BY <5>1
        <4> QED
          BY <2>1, <3>1, <4>1, <4>2
      <3>3. /\ back' \in [Clients -> Nat] /\ heard' \in [Probers -> Nat] /\ part' \in [Clients -> Nat]
            /\ part'[c] = part[c] - 1 /\ \A d \in Clients \ {c} : part'[d] = part[d]
        BY <1>0, <1>7, <2>1, <2>2, <3>2 DEF Hear, Changed
      <3>4. samples' \in [Probers -> 0 .. Probes] /\ \A d \in Probers \ {c} : samples'[d] = samples[d]
        BY <1>0, <1>7, <2>2, <3>2 DEF Hear, Changed
      <3>5. stray' \subseteq Probers
        BY <1>7, <2>2 DEF Hear, TypeOK
      <3>6. cl' \in [Clients -> {"connect", "send", "wait", "close", "over", "gone"}]
        BY <1>0, <2>2 DEF Hear, Goto
      <3>7. Waiting'
        <4>1. \A p \in Probers \ {c} : cl'[p] = cl[p] /\ part'[p] = part[p] /\ samples'[p] = samples[p]
          BY <1>0, <2>2, <3>3, <3>4 DEF Hear, Goto
        <4>2. cl'[c] = "wait" => part[c] # 1 /\ samples' = samples
          BY <1>0, <2>1, <2>2 DEF Hear, Goto, WholeProbe
        <4>3. cl'[c] = "wait" => part'[c] > 0
          BY <1>0, <2>1, <3>3, <4>2
        <4> QED
          BY <1>0, <2>1, <3>1, <4>1, <4>2, <4>3 DEF Waiting, Attempts
      <3> QED
        BY <3>1, <3>3, <3>4, <3>5, <3>6, <3>7 DEF TypeOK, serverVars
    <2>3. CASE ProbeLost(c)
      <3>1. lost' \in [Probers -> 0 .. Probes]
        <4>1. Probes \in Nat /\ samples[c] \in Nat /\ lost[c] \in Nat /\ samples[c] + lost[c] < Probes
          BY <1>0, <2>1 DEF Attempts
        <4>2. lost[c] + 1 \in 0 .. Probes
          BY <4>1
        <4> QED
          BY <1>0, <1>7, <2>3, <4>2 DEF ProbeLost, Changed
      <3>2. Waiting'
        <4>1. /\ \A p \in Probers \ {c} : cl'[p] = cl[p] /\ lost'[p] = lost[p]
              /\ cl'[c] = "send" /\ UNCHANGED <<part, samples>>
          BY <1>0, <2>1, <2>3 DEF ProbeLost, Goto, Changed
        <4> QED
          BY <1>0, <4>1 DEF Waiting, Attempts
      <3> QED
        BY <2>3, <3>1, <3>2 DEF ProbeLost, Goto, TypeOK, serverVars, linkVars
    <2> QED
      BY <1>7, <2>2, <2>3
  <1> QED
    BY <1>1, <1>2, <1>3, <1>4, <1>5, <1>6, <1>7 DEF Client

(* The server changes the numbers of a connection only when it reads.      *)
LEMMA ServerTypes ==
    ASSUME Typed, Server \/ Expire \/ KeyboardInterrupt \/ Stop \/ (\E p \in Probers : Vanish(p))
    PROVE  Typed'
  <1> USE DEF Typed
  <1>0. /\ queue \in Seq(Clients) /\ Len(queue) <= Backlog /\ Backlog \in Nat
        /\ current \subseteq Clients /\ received \in Nat /\ bytes \in Nat /\ dead \subseteq Clients
        /\ up \in [Clients -> Nat] /\ back \in [Clients -> Nat] /\ read \in [Clients -> Nat]
    BY NetAssumption DEF TypeOK
  <1>1. CASE Accept
    <2>1. Head(queue) \in Clients /\ Tail(queue) \in Seq(Clients) /\ Len(Tail(queue)) <= Backlog
      BY <1>0, <1>1, QueueFacts DEF Accept
    <2> QED
      BY <1>1, <2>1 DEF Accept, TypeOK, Waiting, Attempts, clientVars
  <1>2. ASSUME Return PROVE Typed'
    <2>1. bytes' \in Nat
      BY <1>0, <1>2 DEF Return, Tally
    <2> QED
      BY <1>2, <2>1 DEF Return, TypeOK, Waiting, Attempts, clientVars, linkVars
  <1>3. CASE Header
    BY <1>2, <1>3 DEF Header, TypeOK, Waiting, Attempts, clientVars, linkVars
  <1>4. ASSUME NEW c \in Clients, Read(c) PROVE Typed'
    <2>1. up[c] + -1 \in Nat /\ read[c] + 1 \in Nat /\ back[c] + 1 \in Nat /\ back[c] + 0 \in Nat
      BY <1>0, <1>4 DEF Read
    <2>2. up' \in [Clients -> Nat] /\ read' \in [Clients -> Nat]
      BY <1>0, <1>4, <2>1 DEF Read, Changed
    <2>3. back' \in [Clients -> Nat]
      BY <1>0, <1>4, <2>1 DEF Read, Changed
    <2>4. received' \in Nat /\ UNCHANGED <<clientVars, stop, srv, current, bytes, dead, queue, fin>>
      BY <1>0, <1>4 DEF Read
    <2>5. Waiting'
      BY <2>4 DEF Waiting, Attempts, clientVars
    <2> QED
      BY <2>2, <2>3, <2>4, <2>5 DEF TypeOK, clientVars
  <1>5. ASSUME Down PROVE Typed'
    <2>1. dead' \subseteq Clients /\ queue' \in Seq(Clients) /\ Len(queue') <= Backlog
      <3>1. ToSet(queue) \subseteq Clients
        BY <1>0, QueueFacts
      <3>2. queue' = <<>> /\ Len(<<>>) = 0 /\ <<>> \in Seq(Clients)
        BY <1>5 DEF Down
      <3> QED
        BY <1>0, <1>5, <3>1, <3>2 DEF Down
    <2> QED
      BY <1>5, <2>1 DEF Down, TypeOK, Waiting, Attempts, clientVars
  <1>6. CASE Stop
    BY <1>6 DEF Stop, TypeOK, Waiting, Attempts, clientVars, serverVars, linkVars
  <1>7. ASSUME NEW p \in Probers, Vanish(p) PROVE Typed'
    <2>1. cl' \in [Clients -> {"connect", "send", "wait", "close", "over", "gone"}]
      BY <1>7 DEF Vanish, Goto, TypeOK
    <2>2. Waiting'
      BY <1>7 DEF Vanish, Goto, Waiting, Attempts, TypeOK
    <2> QED
      BY <1>7, <2>1, <2>2 DEF Vanish, TypeOK, serverVars, linkVars
  <1>8. EndSession \/ EchoFails => Return
    BY DEF EndSession, EchoFails
  <1> QED
    BY <1>1, <1>2, <1>3, <1>4, <1>5, <1>6, <1>7, <1>8 DEF Server, Expire, KeyboardInterrupt

(* Types, and what a waiting prober has left to record.                    *)
LEMMA Types == Spec => []Typed
  <1>1. Init => Typed
    <2> SUFFICES ASSUME Init PROVE Typed
      OBVIOUS
    <2>1. /\ 0 \in 0 .. Probes /\ Probers \subseteq Clients
          /\ <<>> \in Seq(Clients) /\ Len(<<>>) = 0 /\ Backlog \in Nat /\ Probes \in Nat
      BY NetAssumption DEF Clients
    <2>2. /\ heard \in [Probers -> Nat] /\ samples \in [Probers -> 0 .. Probes] /\ lost \in [Probers -> 0 .. Probes]
          /\ part \in [Clients -> Nat] /\ done \in [Clients -> Nat]
          /\ read \in [Clients -> Nat] /\ up \in [Clients -> Nat] /\ back \in [Clients -> Nat]
      BY <2>1 DEF Init
    <2>3. Waiting
      BY <2>1 DEF Init, Waiting
    <2>4. cl \in [Clients -> {"connect", "send", "wait", "close", "over", "gone"}]
      BY DEF Init
    <2>5. queue \in Seq(Clients) /\ Len(queue) <= Backlog
      BY <2>1 DEF Init
    <2>6. /\ stray \subseteq Probers /\ failed \subseteq Streams /\ stop \in BOOLEAN
          /\ srv \in {"accept", "header", "serve", "down"}
          /\ current \subseteq Clients /\ received \in Nat /\ bytes \in Nat
          /\ fin \subseteq Clients /\ dead \subseteq Clients
      BY DEF Init
    <2> QED
      BY <2>2, <2>3, <2>4, <2>5, <2>6 DEF Typed, TypeOK
  <1>2. Typed /\ [Next]_vars => Typed'
    <2>1. Typed /\ UNCHANGED vars => Typed'
      BY DEF Typed, TypeOK, Waiting, Attempts, vars, clientVars, serverVars, linkVars
    <2> QED
      BY <2>1, ClientTypes, ServerTypes DEF Next, Over
  <1> QED
    BY <1>1, <1>2, PTL DEF Spec

(* Every variable keeps its type: the counts of a connection never go      *)
(* below zero, and a latency measurement never records more probes than it *)
(* was asked for.                                                          *)
THEOREM TypeCorrect == Spec => []TypeOK
  <1>1. Typed => TypeOK
    BY DEF Typed
  <1> QED
    BY <1>1, Types, PTL

-----------------------------------------------------------------------------
(***************************************************************************)
(* Conservation.  Neither property is inductive: a sendall under way, a    *)
(* probe under way and what the sockets hold have to be counted too.       *)
(***************************************************************************)

\* What a stream has sent has been read or is on its way.
Flow(c) ==
    /\ Payload * done[c] <= read[c] + up[c]
    /\ cl[c] \in {"connect", "send"} =>
          read[c] + up[c] = Payload * done[c] + (IF part[c] = 0 THEN 0 ELSE Payload - part[c])
    /\ part[c] <= Payload /\ up[c] <= Buffer /\ cl[c] # "wait"

\* What a prober has sent is heard, on its way back or on its way to the peer;
\* before the first loss it is one probe, of which part[p] units are missing.
Echoed(p) ==
    /\ heard[p] + back[p] + up[p] = Pieces * done[p]
    /\ lost[p] = 0 /\ cl[p] \in {"connect", "send"} => heard[p] = Pieces * done[p]
    /\ lost[p] = 0 /\ cl[p] = "wait" => heard[p] + part[p] = Pieces * done[p]

Conserved ==
    /\ \A c \in Streams : Flow(c)
    /\ \A p \in Probers : Echoed(p)
    /\ OwnEchoUnlessLost

(* Nothing about a connection changes in the other connections' steps.     *)
LEMMA OthersAreLeftAlone ==
    ASSUME Typed, Conserved, NEW c,
           \A d \in Clients \ {c} :
              /\ cl'[d] = cl[d] /\ part'[d] = part[d] /\ done'[d] = done[d]
              /\ read'[d] = read[d] /\ up'[d] = up[d] /\ back'[d] = back[d],
           \A p \in Probers \ {c} : heard'[p] = heard[p] /\ lost'[p] = lost[p],
           \A p \in stray' : p \in stray \ {c} \/ lost'[p] > 0,
           c \in Streams => Flow(c)',
           c \in Probers => Echoed(c)'
    PROVE  Conserved'
  <1>1. stray \subseteq Probers
    BY DEF Typed, TypeOK
  <1>2. \A d \in Streams \ {c} : Flow(d)'
    BY DEF Conserved, Flow, Clients
  <1>3. \A p \in Probers \ {c} : Echoed(p)'
    BY DEF Conserved, Echoed, Clients
  <1>4. \A p \in stray' : lost'[p] > 0
    BY <1>1 DEF Conserved, OwnEchoUnlessLost
  <1> QED
    BY <1>2, <1>3, <1>4 DEF Conserved, OwnEchoUnlessLost

(* A sendall, a probe and an echo are moved unit by unit, and each unit is *)
(* counted once.                                                           *)
LEMMA ConservedStep ==
    ASSUME Typed, Conserved, [Next]_vars
    PROVE  Conserved'
  <1>0. /\ part \in [Clients -> Nat] /\ done \in [Clients -> Nat] /\ up \in [Clients -> Nat]
        /\ back \in [Clients -> Nat] /\ read \in [Clients -> Nat] /\ heard \in [Probers -> Nat]
        /\ lost \in [Probers -> 0 .. Probes] /\ stray \subseteq Probers
        /\ cl \in [Clients -> {"connect", "send", "wait", "close", "over", "gone"}]
        /\ Payload \in Nat \ {0} /\ Pieces \in Nat \ {0} /\ Buffer \in Nat
        /\ Probers \subseteq Clients /\ Streams \subseteq Clients /\ Streams \cap Probers = {}
    BY NetAssumption DEF Typed, TypeOK, Clients
  <1>1. \A p \in Probers : lost[p] \in Nat
    BY <1>0
  <1>2. \A c \in Clients : part[c] \in Nat /\ done[c] \in Nat /\ up[c] \in Nat /\ back[c] \in Nat /\ read[c] \in Nat
    BY <1>0
  <1>3. \A p \in Probers : heard[p] \in Nat
    BY <1>0
  <1>15. \A p \in stray : lost[p] > 0 /\ p \in Probers
    BY <1>0 DEF Conserved, OwnEchoUnlessLost
  <1>4. ASSUME UNCHANGED <<part, done, heard, read, up, back, lost, stray>>,
               \A c \in Clients : \/ cl'[c] = cl[c]
                                  \/ cl'[c] \in {"close", "over", "gone"}
                                  \/ cl[c] = "connect" /\ cl'[c] = "send"
        PROVE  Conserved'
    <2>1. \A c \in Streams : Flow(c)'
      BY <1>0, <1>4 DEF Conserved, Flow
    <2>2. \A p \in Probers : Echoed(p)'
      BY <1>0, <1>4 DEF Conserved, Echoed
    <2> QED
      BY <1>4, <2>1, <2>2 DEF Conserved, OwnEchoUnlessLost
  <1>5. ASSUME NEW c \in Clients, Connect(c) \/ Close(c) PROVE Conserved'
    <2>1. UNCHANGED <<part, done, heard, read, up, back, lost, stray>>
      BY <1>5 DEF Connect, Close, serverVars
    <2>2. \A d \in Clients : \/ cl'[d] = cl[d]
                             \/ cl'[d] \in {"close", "over", "gone"}
                             \/ cl[d] = "connect" /\ cl'[d] = "send"
      BY <1>0, <1>5 DEF Connect, Close, Goto
    <2> QED
      BY <1>4, <2>1, <2>2
  <1>6. ASSUME NEW c \in Streams, BeginSend(c) PROVE Conserved'
    <2>1. /\ UNCHANGED <<done, heard, read, up, back, lost, stray>> /\ cl[c] = "send" /\ part[c] = 0
          /\ \A d \in Clients \ {c} : cl'[d] = cl[d] /\ part'[d] = part[d]
          /\ \/ cl'[c] = "close" /\ part'[c] = part[c]
             \/ cl'[c] = cl[c] /\ part'[c] = Payload
      BY <1>0, <1>6 DEF BeginSend, Goto, serverVars, linkVars
    <2>2. Flow(c)'
      BY <1>0, <1>2, <2>1 DEF Conserved, Flow
    <2> QED
      BY <1>0, <1>15, <2>1, <2>2, OthersAreLeftAlone
  <1>7. ASSUME NEW c \in Streams, Send(c) PROVE Conserved'
    <2>1. /\ UNCHANGED <<heard, read, back, lost, stray, cl>> /\ cl[c] = "send" /\ part[c] > 0 /\ up[c] < Buffer
          /\ \A d \in Clients \ {c} : part'[d] = part[d] /\ done'[d] = done[d] /\ up'[d] = up[d]
          /\ part'[c] = part[c] - 1 /\ up'[c] = up[c] + 1
          /\ done'[c] = IF part[c] = 1 THEN done[c] + 1 ELSE done[c]
      BY <1>0, <1>2, <1>7 DEF Send, Changed, CountedWhenSent, serverVars
    <2>2. Payload * (done[c] + 1) = Payload * done[c] + Payload /\ Payload * done[c] \in Nat
      BY <1>0, <1>2, OneMore
    <2>3. read[c] + up[c] = Payload * done[c] + (Payload - part[c]) /\ part[c] <= Payload
      BY <1>7, <2>1 DEF Conserved, Flow
    <2>4. Flow(c)'
      <3>1. CASE part[c] = 1
        BY <1>0, <1>2, <2>1, <2>2, <2>3, <3>1 DEF Flow
      <3>2. CASE part[c] # 1
        BY <1>0, <1>2, <2>1, <2>2, <2>3, <3>2 DEF Flow
      <3> QED
        BY <3>1, <3>2
    <2> QED
      BY <1>0, <1>15, <2>1, <2>4, OthersAreLeftAlone
  <1>8. ASSUME NEW c \in Streams, SendFails(c) PROVE Conserved'
    <2>1. /\ UNCHANGED <<done, heard, read, up, back, lost, stray>> /\ cl'[c] = "close" /\ part'[c] = 0
          /\ \A d \in Clients \ {c} : cl'[d] = cl[d] /\ part'[d] = part[d]
      BY <1>0, <1>8 DEF SendFails, Goto, serverVars, linkVars
    <2>2. Flow(c)'
      BY <1>0, <1>2, <2>1 DEF Conserved, Flow
    <2> QED
      BY <1>0, <1>15, <2>1, <2>2, OthersAreLeftAlone
  <1>9. ASSUME NEW p \in Probers, Probe(p) PROVE Conserved'
    <2>1. UNCHANGED <<heard, stray, read, back>> /\ cl[p] = "send" /\ p \in Clients /\ p \notin Streams
      BY <1>0, <1>9 DEF Probe, serverVars
    <2>2. CASE /\ up' = Changed(up, p, Pieces) /\ done' = Changed(done, p, 1)
               /\ part' = [part EXCEPT ![p] = Pieces] /\ cl' = [cl EXCEPT ![p] = "wait"] /\ lost' = lost
      <3>1. /\ \A d \in Clients \ {p} : /\ cl'[d] = cl[d] /\ part'[d] = part[d]
                                        /\ done'[d] = done[d] /\ up'[d] = up[d]
            /\ cl'[p] = "wait" /\ part'[p] = Pieces /\ done'[p] = done[p] + 1 /\ up'[p] = up[p] + Pieces
        BY <1>0, <2>1, <2>2 DEF Changed
      <3>2. Pieces * (done[p] + 1) = Pieces * done[p] + Pieces /\ Pieces * done[p] \in Nat
        BY <1>0, <1>2, <2>1, OneMore
      <3>3. Echoed(p)'
        BY <1>0, <1>2, <1>3, <2>1, <2>2, <3>1, <3>2 DEF Conserved, Echoed
      <3> QED
        BY <1>0, <1>15, <2>1, <2>2, <3>1, <3>3, OthersAreLeftAlone
    <2>3. CASE lost' = Changed(lost, p, 1) /\ UNCHANGED <<up, done, part, cl>>
      <3>1. lost'[p] = lost[p] + 1 /\ \A q \in Probers \ {p} : lost'[q] = lost[q]
        BY <1>0, <2>3 DEF Changed
      <3>2. Echoed(p)'
        BY <1>1, <2>1, <2>3, <3>1 DEF Conserved, Echoed
      <3> QED
        BY <1>1, <1>15, <2>1, <2>3, <3>1, <3>2, OthersAreLeftAlone
    <2>4. CASE cl' = [cl EXCEPT ![p] = "close"] /\ UNCHANGED <<up, done, part, lost>>
      <3>1. \A d \in Clients : cl'[d] = cl[d] \/ cl'[d] = "close"
        BY <1>0, <2>4
      <3> QED
        BY <1>4, <2>1, <2>4, <3>1
    <2> QED
      BY <1>9, <2>2, <2>3, <2>4 DEF Probe, Goto
  <1>10. ASSUME NEW p \in Probers, Hear(p) PROVE Conserved'
    <2>1. /\ UNCHANGED <<done, lost, up, read>> /\ cl[p] = "wait" /\ back[p] > 0
          /\ p \in Clients /\ p \notin Streams /\ part[p] > 0
      BY <1>0, <1>10 DEF Hear, serverVars, Typed, Waiting
    <2>2. /\ back'[p] = back[p] - 1 /\ heard'[p] = heard[p] + 1 /\ part'[p] = part[p] - 1
          /\ \A d \in Clients \ {p} : back'[d] = back[d] /\ part'[d] = part[d] /\ cl'[d] = cl[d]
          /\ \A q \in Probers \ {p} : heard'[q] = heard[q]
      BY <1>0, <1>10, <2>1 DEF Hear, Changed, Goto
    <2>3. cl'[p] = IF part[p] = 1 THEN "send" ELSE "wait"
      BY <1>0, <1>10, <2>1 DEF Hear, WholeProbe, Goto
    <2>4. Pieces * done[p] \in Nat
      BY <1>0, <1>2, <2>1
    <2>5. Echoed(p)'
      BY <1>1, <1>2, <1>3, <2>1, <2>2, <2>3, <2>4 DEF Conserved, Echoed
    <2>6. stray' \subseteq stray \cup {p}
      BY <1>10 DEF Hear
    <2>7. p \in stray' => lost'[p] > 0
      <3>1. CASE p \in stray
        BY <2>1, <3>1 DEF Conserved, OwnEchoUnlessLost
      <3>2. CASE p \notin stray
        <4> SUFFICES ASSUME p \in stray', lost[p] = 0 PROVE FALSE
          BY <1>1, <2>1
        <4>1. part[p] = 1 /\ EchoOf(heard[p] + 1) # done[p]
          BY <1>10, <3>2 DEF Hear, WholeProbe
        <4>2. heard[p] + 1 = Pieces * done[p]
          BY <2>1, <4>1 DEF Conserved, Echoed
        <4>3. done[p] \in Nat \ {0}
          BY <1>0, <1>2, <1>3, <2>1, <4>2
        <4>4. EchoOf(heard[p] + 1) = done[p]
          BY <1>0, <4>2, <4>3, LastUnit DEF EchoOf
        <4> QED
          BY <4>1, <4>4
      <3> QED
        BY <3>1, <3>2
    <2> QED
      BY <1>15, <2>1, <2>2, <2>5, <2>6, <2>7, OthersAreLeftAlone
  <1>11. ASSUME NEW p \in Probers, ProbeLost(p) PROVE Conserved'
    <2>1. /\ UNCHANGED <<part, done, heard, stray, read, up, back>> /\ p \in Clients /\ p \notin Streams
          /\ \A d \in Clients \ {p} : cl'[d] = cl[d]
          /\ lost'[p] = lost[p] + 1 /\ \A q \in Probers \ {p} : lost'[q] = lost[q]
      BY <1>0, <1>11 DEF ProbeLost, Changed, Goto, serverVars, linkVars
    <2>2. Echoed(p)'
      BY <1>1, <2>1 DEF Conserved, Echoed
    <2> QED
      BY <1>1, <1>15, <2>1, <2>2, OthersAreLeftAlone
  <1>12. ASSUME NEW p \in Probers, Vanish(p) PROVE Conserved'
    <2>1. /\ UNCHANGED <<part, done, heard, read, up, back, lost, stray>>
          /\ \A d \in Clients : cl'[d] = cl[d] \/ cl'[d] = "gone"
      BY <1>0, <1>12 DEF Vanish, Goto, serverVars, linkVars
    <2> QED
      BY <1>4, <2>1
  <1>13. ASSUME NEW c \in Clients, Read(c) PROVE Conserved'
    <2>1. /\ UNCHANGED <<cl, part, done, heard, lost, stray>> /\ up[c] > 0
          /\ up'[c] = up[c] - 1 /\ read'[c] = read[c] + 1
          /\ back'[c] = back[c] + IF c \in Probers THEN 1 ELSE 0
          /\ \A d \in Clients \ {c} : up'[d] = up[d] /\ read'[d] = read[d] /\ back'[d] = back[d]
      BY <1>0, <1>13 DEF Read, Changed, clientVars
    <2>2. c \in Streams => Flow(c)'
      BY <1>0, <1>2, <2>1 DEF Conserved, Flow
    <2>3. c \in Probers => Echoed(c)'
      BY <1>0, <1>2, <1>3, <2>1 DEF Conserved, Echoed
    <2> QED
      BY <1>15, <2>1, <2>2, <2>3, OthersAreLeftAlone
  <1>14. ASSUME Stop \/ Accept \/ Header \/ EndSession \/ EchoFails \/ Expire \/ KeyboardInterrupt \/ UNCHANGED vars
         PROVE  Conserved'
    <2>1. UNCHANGED <<cl, part, done, heard, read, up, back, lost, stray>>
      BY <1>14 DEF Stop, Accept, Header, EndSession, EchoFails, Return, Expire, KeyboardInterrupt, Down,
                   vars, clientVars, serverVars, linkVars
    <2> QED
      BY <1>4, <2>1
  <1> QED
    BY <1>5, <1>6, <1>7, <1>8, <1>9, <1>10, <1>11, <1>12, <1>13, <1>14 DEF Next, Client, Server, Over

(* The sums balance in every run.                                          *)
LEMMA Conservation == Spec => []Conserved
  <1>1. Init => Conserved
    BY NetAssumption DEF Init, Conserved, Flow, Echoed, OwnEchoUnlessLost, Clients
  <1> QED
    BY <1>1, ConservedStep, Types, PTL DEF Spec

(* What a stream counts as sent is at most what the peer read and what the *)
(* sockets hold, whoever failed, was refused or was cut off.               *)
THEOREM SenderKeepsPace == Spec => []SenderIsNotAhead
  <1>1. Typed /\ Conserved => SenderIsNotAhead
    <2> SUFFICES ASSUME Typed, Conserved, NEW c \in Streams
                 PROVE  Payload * done[c] <= read[c] + Buffer
      BY DEF SenderIsNotAhead
    <2>1. read[c] \in Nat /\ up[c] \in Nat /\ done[c] \in Nat /\ Payload \in Nat /\ Buffer \in Nat
      BY NetAssumption DEF Typed, TypeOK, Clients
    <2>2. Payload * done[c] \in Nat /\ Payload * done[c] <= read[c] + up[c] /\ up[c] <= Buffer
      BY <2>1 DEF Conserved, Flow
    <2> QED
      BY <2>1, <2>2
  <1> QED
    BY <1>1, Types, Conservation, PTL

(* Until a prober loses a probe, every round trip it records ends with the *)
(* echo of its own probe, into however many pieces the echoes are cut.     *)
THEOREM EchoIsItsOwn == Spec => []OwnEchoUnlessLost
  <1>1. Conserved => OwnEchoUnlessLost
    BY DEF Conserved
  <1> QED
    BY <1>1, Conservation, PTL
=============================================================================
