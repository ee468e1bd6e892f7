------------------------------ MODULE Loopback ------------------------------
(***************************************************************************)
(* The measurements in which the caller and a thread of its own hand       *)
(* something to each other: bulk transfer and round trips over a loopback  *)
(* connection (network.py _throughput, _latency) and the context switches  *)
(* of sysbench.py, where two threads alternate on a pair of events.        *)
(***************************************************************************)
EXTENDS Naturals

CONSTANTS
    Room,       \* units the sockets of a connection hold
    MaxUnits,   \* bound: units that are sent in the time there is
    Rounds      \* round trips of _latency, iterations of bench_context_switch

VARIABLES
    what,       \* "throughput", "latency" or "switch"
    caller,     \* where the caller is
    helper,     \* where the thread is
    out, in,    \* units on their way to the thread, and back
    shut,       \* the caller has closed its end
    sent,       \* units the caller counts; round trips it has timed
    taken,      \* units the thread has received; turns it took
    ping, pong, \* the two events
    late        \* the join gave up

vars == <<what, caller, helper, out, in, shut, sent, taken, ping, pong, late>>

Init ==
    /\ what \in {"throughput", "latency", "switch"}
    /\ caller = "loop" /\ helper = "wait"
    /\ out = 0 /\ in = 0 /\ shut = FALSE
    /\ sent = 0 /\ taken = 0
    /\ ping = FALSE /\ pong = FALSE
    /\ late = FALSE

-----------------------------------------------------------------------------
(* _throughput.                                                            *)

SendAll ==
    /\ caller = "loop" /\ out < Room /\ sent < MaxUnits
    /\ out' = out + 1 /\ sent' = sent + 1
    /\ UNCHANGED <<what, caller, helper, in, shut, taken, ping, pong, late>>

\* The time is over; the connection is closed on either way out of the loop.
Close ==
    /\ caller = "loop"
    /\ shut' = TRUE /\ caller' = "join"
    /\ UNCHANGED <<what, helper, out, in, sent, taken, ping, pong, late>>

Drain ==
    /\ helper = "wait" /\ out > 0
    /\ \E n \in 1 .. out : out' = out - n /\ taken' = taken + n
    /\ UNCHANGED <<what, caller, helper, in, shut, sent, ping, pong, late>>

\* recv returns nothing.
EndOfFile ==
    /\ helper = "wait" /\ shut /\ out = 0
    /\ helper' = "over"
    /\ UNCHANGED <<what, caller, out, in, shut, sent, taken, ping, pong, late>>

NotJoined == TRUE
Joined == helper = "over"

\* t.join: the time until the thread has everything belongs to the figure.
Join ==
    /\ caller = "join" /\ Joined
    /\ caller' = "over"
    /\ UNCHANGED <<what, helper, out, in, shut, sent, taken, ping, pong, late>>

JoinGivesUp ==
    /\ caller = "join" /\ helper # "over"
    /\ caller' = "over" /\ late' = TRUE
    /\ UNCHANGED <<what, helper, out, in, shut, sent, taken, ping, pong>>

-----------------------------------------------------------------------------
(* _latency.                                                               *)

SendByte ==
    /\ caller = "loop" /\ sent < Rounds
    /\ out' = out + 1 /\ caller' = "recv"
    /\ UNCHANGED <<what, helper, in, shut, sent, taken, ping, pong, late>>

ReceiveByte ==
    /\ caller = "recv" /\ in > 0
    /\ in' = in - 1 /\ sent' = sent + 1 /\ caller' = "loop"
    /\ UNCHANGED <<what, helper, out, shut, taken, ping, pong, late>>

Echo ==
    /\ helper = "wait" /\ out > 0
    /\ out' = out - 1 /\ in' = in + 1 /\ taken' = taken + 1
    /\ UNCHANGED <<what, caller, helper, shut, sent, ping, pong, late>>

-----------------------------------------------------------------------------
(* bench_context_switch: an event is set, waited for and cleared in steps  *)
(* of their own, between which the other thread may run.                   *)

SetPing ==
    /\ caller = "loop" /\ sent < Rounds
    /\ ping' = TRUE /\ caller' = "wait"
    /\ UNCHANGED <<what, helper, out, in, shut, sent, taken, pong, late>>

WaitPong ==
    /\ caller = "wait" /\ pong
    /\ caller' = "clear"
    /\ UNCHANGED <<what, helper, out, in, shut, sent, taken, ping, pong, late>>

ClearPong ==
    /\ caller = "clear"
    /\ pong' = FALSE /\ sent' = sent + 1 /\ caller' = "loop"
    /\ UNCHANGED <<what, helper, out, in, shut, taken, ping, late>>

WaitPing ==
    /\ helper = "wait" /\ ping /\ taken < Rounds
    /\ helper' = "first"
    /\ UNCHANGED <<what, caller, out, in, shut, sent, taken, ping, pong, late>>

\* The order of the responder's two steps.
SetThenClear == <<"set", "clear">>
ClearThenSet == <<"clear", "set">>
Turn == ClearThenSet

Respond ==
    /\ helper \in {"first", "second"}
    /\ LET do == Turn[IF helper = "first" THEN 1 ELSE 2]
       IN  /\ ping' = IF do = "clear" THEN FALSE ELSE ping
           /\ pong' = IF do = "set" THEN TRUE ELSE pong
    /\ helper' = IF helper = "first" THEN "second" ELSE IF taken + 1 = Rounds THEN "over" ELSE "wait"
    /\ taken' = IF helper = "second" THEN taken + 1 ELSE taken
    /\ UNCHANGED <<what, caller, out, in, shut, sent, late>>

-----------------------------------------------------------------------------
Caller ==
    \/ what = "throughput" /\ (SendAll \/ Close)
    \/ what = "latency" /\ (SendByte \/ ReceiveByte \/ (sent = Rounds /\ Close))
    \/ what = "switch" /\ (SetPing \/ WaitPong \/ ClearPong
                           \/ (caller = "loop" /\ sent = Rounds /\ caller' = "join"
                               /\ UNCHANGED <<what, helper, out, in, shut, sent, taken, ping, pong, late>>))
    \/ Join

Helper ==
    \/ what = "throughput" /\ (Drain \/ EndOfFile)
    \/ what = "latency" /\ (Echo \/ EndOfFile)
    \/ what = "switch" /\ (WaitPing \/ Respond)

Next == Caller \/ Helper \/ JoinGivesUp

-----------------------------------------------------------------------------
(* What the throughput counts has arrived when its time is taken, unless   *)
(* the thread was a second behind (network.py 56-66).                      *)
CountedIsDrained == what = "throughput" /\ caller = "over" /\ ~late => taken = sent /\ out = 0

(* A round trip that was timed had the other thread in it: neither takes   *)
(* two turns in a row (network.py 116-120, sysbench.py 184-196).           *)
TurnsAlternate == what # "throughput" => sent <= taken /\ taken <= sent + 1

(* The measurement ends, whichever way its two threads are scheduled.      *)
LoopbackEnds == <>(caller = "over")
=============================================================================
