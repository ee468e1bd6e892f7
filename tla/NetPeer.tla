------------------------------ MODULE NetPeer ------------------------------
(***************************************************************************)
(* The two-node network test (network.py): serve, on one machine, handles  *)
(* one connection after the other; on others measure_throughput runs some  *)
(* streams against it, and measure_latency sends probes to be echoed.      *)
(*                                                                         *)
(* TCP delivers in order and loses nothing while both ends are there, so a *)
(* direction of a connection is the number of units on their way.          *)
(***************************************************************************)
EXTENDS Integers, SequencesExt

CONSTANTS
    Streams, Probers,   \* connections, by what their clients do with them
    Backlog,    \* listen(8)
    Buffer,     \* units a connection holds that were not read
    Payload,    \* units one sendall of a stream transfers
    Pieces,     \* units of a probe: recv may return less than all of it
    Probes,     \* probes of a latency measurement
    MaxSends    \* bound: sendalls of a stream

ASSUME NetAssumption ==
    /\ Streams \cap Probers = {}
    /\ {Backlog, Buffer, Payload, Pieces, Probes, MaxSends} \subseteq Nat \ {0}

VARIABLES
    cl,         \* where each client thread is
    part,       \* units of the sendall, or of the echo, under way
    done,       \* units of finished sendalls; probes sent
    heard,      \* units of echo a prober has read
    samples,    \* round trips a prober recorded
    lost,       \* probes it recorded as lost
    stray,      \* probers with a sample that ended with another probe's echo
    failed,     \* streams that noted an error
    stop,       \* measure_throughput: the event that ends the streams
    srv,        \* where the server is
    queue,      \* connections to be accepted
    current,    \* the connection being served: a set of at most one
    received,   \* _serve_one: units of this session
    bytes,      \* total_bytes
    read,       \* units of each connection the server read, and echoed
    up, back,   \* units on their way to the server, and back
    fin, dead   \* connections closed by their client; by the server

clientVars == <<cl, part, done, heard, samples, lost, stray, failed>>
serverVars == <<srv, current, received, bytes, read, dead>>
linkVars == <<queue, up, back, fin>>
vars == <<clientVars, stop, serverVars, linkVars>>

Clients == Streams \cup Probers
SumOf(f, S) == MapThenSumSet(LAMBDA c : f[c], S)

TypeOK ==
    /\ cl \in [Clients -> {"connect", "send", "wait", "close", "over", "gone"}]
    /\ part \in [Clients -> Nat] /\ done \in [Clients -> Nat]
    /\ heard \in [Probers -> Nat] /\ samples \in [Probers -> 0 .. Probes]
    /\ lost \in [Probers -> 0 .. Probes] /\ stray \subseteq Probers /\ failed \subseteq Streams
    /\ stop \in BOOLEAN
    /\ srv \in {"accept", "header", "serve", "down"}
    /\ queue \in Seq(Clients) /\ Len(queue) <= Backlog
    /\ current \subseteq Clients /\ received \in Nat /\ bytes \in Nat
    /\ read \in [Clients -> Nat] /\ up \in [Clients -> Nat] /\ back \in [Clients -> Nat]
    /\ fin \subseteq Clients /\ dead \subseteq Clients

Init ==
    /\ cl = [c \in Clients |-> "connect"]
    /\ part = [c \in Clients |-> 0] /\ done = part
    /\ heard = [p \in Probers |-> 0] /\ samples = heard /\ lost = heard
    /\ stray = {} /\ failed = {}
    /\ stop = FALSE
    /\ srv = "accept" /\ queue = <<>> /\ current = {} /\ received = 0 /\ bytes = 0
    /\ read = part /\ up = part /\ back = part
    /\ fin = {} /\ dead = {}

-----------------------------------------------------------------------------
(* The clients.                                                            *)

Goto(c, l) == cl' = [cl EXCEPT ![c] = l]
Changed(f, c, n) == [f EXCEPT ![c] = @ + n]

BacklogHasRoom == Len(queue) < Backlog

\* _client_socket: the connection, with its header, or an error.
Connect(c) ==
    /\ cl[c] = "connect"
    /\ IF srv # "down" /\ BacklogHasRoom
       THEN Goto(c, "send") /\ queue' = Append(queue, c) /\ UNCHANGED failed
       ELSE Goto(c, "over") /\ failed' = failed \cup ({c} \cap Streams) /\ UNCHANGED queue
    /\ UNCHANGED <<part, done, heard, samples, lost, stray, stop, serverVars, up, back, fin>>

BeginSend(c) ==
    /\ cl[c] = "send" /\ part[c] = 0
    /\ IF stop THEN Goto(c, "close") /\ UNCHANGED part
               ELSE done[c] < MaxSends /\ part' = [part EXCEPT ![c] = Payload] /\ UNCHANGED cl
    /\ UNCHANGED <<done, heard, samples, lost, stray, failed, stop, serverVars, linkVars>>

CountedAtOnce(c) == part[c] = Payload
CountedWhenSent(c) == part[c] = 1

Send(c) ==
    /\ cl[c] = "send" /\ part[c] > 0 /\ up[c] < Buffer
    /\ up' = Changed(up, c, 1)
    /\ part' = Changed(part, c, -1)
    /\ done' = Changed(done, c, IF CountedWhenSent(c) THEN 1 ELSE 0)
    /\ UNCHANGED <<cl, heard, samples, lost, stray, failed, stop, serverVars, queue, back, fin>>

\* A reset, or ten seconds without room while the server reads another one.
SendFails(c) ==
    /\ cl[c] = "send" /\ part[c] > 0
    /\ c \in dead \/ (up[c] = Buffer /\ current # {} /\ c \notin current)
    /\ failed' = failed \cup {c}
    /\ part' = [part EXCEPT ![c] = 0]
    /\ Goto(c, "close")
    /\ UNCHANGED <<done, heard, samples, lost, stray, stop, serverVars, linkVars>>

Close(c) ==
    /\ cl[c] = "close"
    /\ fin' = fin \cup {c}
    /\ Goto(c, "over")
    /\ UNCHANGED <<part, done, heard, samples, lost, stray, failed, stop, serverVars, queue, up, back>>

Attempts(p) == samples[p] + lost[p]

Probe(p) ==
    /\ cl[p] = "send"
    /\ \/ /\ Attempts(p) < Probes
          /\ up' = Changed(up, p, Pieces)
          /\ done' = Changed(done, p, 1)
          /\ part' = [part EXCEPT ![p] = Pieces]
          /\ Goto(p, "wait")
          /\ UNCHANGED lost
       \/ /\ Attempts(p) < Probes /\ p \in dead
          /\ lost' = Changed(lost, p, 1)
          /\ UNCHANGED <<up, done, part, cl>>
       \/ Attempts(p) = Probes /\ Goto(p, "close") /\ UNCHANGED <<up, done, part, lost>>
    /\ UNCHANGED <<heard, samples, stray, failed, stop, serverVars, queue, back, fin>>

OnePiece(p) == TRUE
WholeProbe(p) == part[p] = 1
EchoOf(n) == (n - 1) \div Pieces + 1

Hear(p) ==
    /\ cl[p] = "wait" /\ back[p] > 0
    /\ back' = Changed(back, p, -1)
    /\ heard' = Changed(heard, p, 1)
    /\ part' = Changed(part, p, -1)
    /\ IF WholeProbe(p)
       THEN /\ samples' = Changed(samples, p, 1)
            /\ stray' = IF EchoOf(heard[p] + 1) = done[p] THEN stray ELSE stray \cup {p}
            /\ Goto(p, "send")
       ELSE UNCHANGED <<cl, samples, stray>>
    /\ UNCHANGED <<done, lost, failed, stop, serverVars, queue, up, fin>>

\* Two seconds without an echo, or the peer closed the connection.
ProbeLost(p) ==
    /\ cl[p] = "wait" /\ back[p] = 0
    /\ lost' = Changed(lost, p, 1)
    /\ Goto(p, "send")
    /\ UNCHANGED <<part, done, heard, samples, stray, failed, stop, serverVars, linkVars>>

\* The prober's machine is switched off: its connection says nothing more.
Vanish(p) ==
    /\ cl[p] \in {"send", "wait"}
    /\ Goto(p, "gone")
    /\ UNCHANGED <<part, done, heard, samples, lost, stray, failed, stop, serverVars, linkVars>>

Client(c) ==
    \/ Connect(c) \/ Close(c)
    \/ c \in Streams /\ (BeginSend(c) \/ Send(c) \/ SendFails(c))
    \/ c \in Probers /\ (Probe(c) \/ Hear(c) \/ ProbeLost(c))

Stop ==
    /\ ~stop
    /\ stop' = TRUE
    /\ UNCHANGED <<clientVars, serverVars, linkVars>>


-----------------------------------------------------------------------------
(* serve and _serve_one.                                                   *)

Accept ==
    /\ srv = "accept" /\ queue # <<>>
    /\ current' = {Head(queue)}
    /\ queue' = Tail(queue)
    /\ received' = 0
    /\ srv' = "header"
    /\ UNCHANGED <<clientVars, stop, bytes, read, dead, up, back, fin>>

Tally == received

\* _serve_one returns: its connection is closed and its bytes are added.
Return ==
    /\ bytes' = bytes + Tally
    /\ received' = 0
    /\ current' = {}
    /\ dead' = dead \cup current
    /\ srv' = "accept"
    /\ UNCHANGED <<clientVars, stop, read, linkVars>>

\* recv(9) returns what there is: a header in two segments is not understood.
Header ==
    /\ srv = "header"
    /\ \/ Return
       \/ srv' = "serve" /\ UNCHANGED <<clientVars, stop, current, received, bytes, read, dead, linkVars>>

Read(c) ==
    /\ srv = "serve" /\ c \in current /\ up[c] > 0
    /\ up' = Changed(up, c, -1)
    /\ read' = Changed(read, c, 1)
    /\ received' = received + 1
    /\ back' = Changed(back, c, IF c \in Probers THEN 1 ELSE 0)
    /\ UNCHANGED <<clientVars, stop, srv, current, bytes, dead, queue, fin>>

Never(c) == FALSE
Silent(c) == cl[c] = "gone"     \* for thirty seconds

EndSession ==
    /\ srv = "serve"
    /\ \E c \in current : up[c] = 0 /\ (c \in fin \/ Silent(c))
    /\ Return

\* sendall raises, before the bytes are added, when the prober has left.
EchoFails ==
    /\ srv = "serve"
    /\ \E p \in current \cap Probers : up[p] > 0 /\ cl[p] \in {"over", "gone"}
    /\ Return

Down ==
    /\ srv' = "down"
    /\ dead' = dead \cup current \cup ToSet(queue)
    /\ queue' = <<>>
    /\ UNCHANGED <<clientVars, stop, current, received, bytes, read, up, back, fin>>

\* The deadline, which is looked at between sessions only.
Expire == srv = "accept" /\ Down

\* The session under way is not added to the tally.
KeyboardInterrupt == srv # "down" /\ Down

Server == Accept \/ Header \/ (\E c \in Clients : Read(c)) \/ EndSession \/ EchoFails

Over ==
    /\ srv = "down" /\ (\A c \in Clients : cl[c] \in {"over", "gone"})
    /\ UNCHANGED vars

Next ==
    \/ \E c \in Clients : Client(c)
    \/ \E p \in Probers : Vanish(p)
    \/ Stop \/ Server \/ Expire \/ KeyboardInterrupt \/ Over

Spec == Init /\ [][Next]_vars

(* Threads run and socket timeouts expire; nobody has to stop the server.  *)
FairSpec ==
    /\ Spec /\ WF_vars(Stop) /\ WF_vars(Server)
    /\ \A c \in Clients : WF_vars(Client(c))

-----------------------------------------------------------------------------
(* The throughput is computed at the sender: what it counts was read by    *)
(* the peer but for what the sockets hold, whatever stream failed in mid-  *)
(* sendall, was never accepted or was given up on (network.py 399-428).    *)
SenderIsNotAhead == \A c \in Streams : Payload * done[c] <= read[c] + Buffer

(* A round trip that no lost probe came before ends with the echo of its   *)
(* own probe, although echoes arrive in pieces (466-477).                  *)
OwnEchoUnlessLost == \A p \in stray : lost[p] > 0

(* No connection waits in the backlog for ever, although the server reads  *)
(* one at a time until its end and a client may vanish (337, 324).         *)
EveryoneIsServed == <>[](queue = <<>>)

-----------------------------------------------------------------------------
(* What the program says, and the code does not do.                        *)

(* network.py 381: "four streams saturate" a link one stream does not; so  *)
(* no stream waits until it fails while the peer is there.                 *)
StreamsShareThePeer == srv # "down" => failed \subseteq dead

(* network.py 439: a sample is a "round-trip time ... to a peer".          *)
EchoIsOwn == stray = {}
=============================================================================
