------------------------------ MODULE Internet ------------------------------
(***************************************************************************)
(* network.py, the tests that leave the machine: internet_speed with its   *)
(* ping, handshakes, names, download and upload, each of which can fail,   *)
(* and the budgets of bytes and time. Amounts are in 64 KiB; a chunk takes *)
(* the link no time or one unit of it, as it pleases.                      *)
(***************************************************************************)
EXTENDS Naturals

CONSTANTS
    Budgets,        \* max_mb, in 64 KiB
    Attempts,       \* handshakes of tcp_latency
    Seconds,        \* time for either direction
    Replies         \* what a server may answer to an upload

VARIABLES
    host,       \* what the server's URL gives: "ok", "none", "unparsable" or "unencodable"
    budget,
    stage,
    result,     \* of each measurement: "none", "figure" or "error"
    broken,     \* measurements that met a failure
    handshakes, refused,
    received,   \* by the download
    answered,   \* to the uploads
    sent, spent,
    ping        \* what the ping line shows

vars == <<host, budget, stage, result, broken, handshakes, refused, received, answered, sent, spent, ping>>

Measurements == {"icmp", "latency", "dns", "download", "upload"}
Chunk == 4
Probe == 16

Init ==
    /\ host \in {"ok", "none", "unparsable", "unencodable"} /\ budget \in Budgets
    /\ stage = "start"
    /\ result = [x \in Measurements |-> "none"] /\ broken = {}
    /\ handshakes = 0 /\ refused = 0
    /\ received = 0 /\ answered = 0 /\ sent = 0 /\ spent = 0
    /\ ping = "none"

Put(x, r) == result' = [result EXCEPT ![x] = r]
Works(x) == Put(x, "figure") /\ UNCHANGED broken
Fails(x) == Put(x, "error") /\ broken' = broken \cup {x}

-----------------------------------------------------------------------------
Start ==
    /\ stage = "start"
    /\ stage' = CASE host = "none" -> "refused" [] host = "unparsable" -> "raised" [] OTHER -> "icmp"
    /\ UNCHANGED <<host, budget, result, broken, handshakes, refused, received, answered, sent, spent, ping>>

\* No such command, a timeout, or no reply.
Icmp ==
    /\ stage = "icmp"
    /\ Works("icmp") \/ Fails("icmp")
    /\ stage' = "latency"
    /\ UNCHANGED <<host, budget, handshakes, refused, received, answered, sent, spent, ping>>

\* Only an OSError is counted: a name that cannot be encoded raises another.
Handshake ==
    /\ stage = "latency" /\ handshakes < Attempts
    /\ IF host = "unencodable" THEN stage' = "raised" /\ UNCHANGED <<handshakes, refused>>
       ELSE /\ handshakes' = handshakes + 1
            /\ refused' \in {refused, refused + 1}
            /\ UNCHANGED stage
    /\ UNCHANGED <<host, budget, result, broken, received, answered, sent, spent, ping>>

\* ping_summary.
Latency ==
    /\ stage = "latency" /\ handshakes = Attempts
    /\ IF refused = Attempts THEN Fails("latency") ELSE Works("latency")
    /\ ping' = IF result["icmp"] = "figure" \/ refused < Attempts THEN "figure" ELSE "error"
    /\ stage' = "dns"
    /\ UNCHANGED <<host, budget, handshakes, refused, received, answered, sent, spent>>

Dns ==
    /\ stage = "dns"
    /\ Works("dns") \/ Fails("dns")
    /\ stage' = "download" /\ spent' = 0
    /\ UNCHANGED <<host, budget, handshakes, refused, received, answered, sent, ping>>

-----------------------------------------------------------------------------
(* _measure_download. The server is asked for the budget and may send      *)
(* more, or less.                                                          *)

ByTime == spent > Seconds
Enough == received >= budget \/ spent > Seconds
Stops == Enough

ReadChunk ==
    /\ stage = "download" /\ ~Stops
    /\ received' = received + (IF received = 0 THEN 1 ELSE Chunk)
    /\ spent' \in {spent, spent + 1}
    /\ UNCHANGED <<host, budget, stage, result, broken, handshakes, refused, answered, sent, ping>>

\* The end of the data or of a budget; no data is no figure.
Downloaded ==
    /\ stage = "download"
    /\ IF received = 0 THEN Fails("download") ELSE Works("download")
    /\ stage' = "probe"
    /\ UNCHANGED <<host, budget, handshakes, refused, received, answered, sent, spent, ping>>

DownloadFails ==
    /\ stage = "download"
    /\ Fails("download")
    /\ stage' = "probe"
    /\ UNCHANGED <<host, budget, handshakes, refused, received, answered, sent, spent, ping>>

-----------------------------------------------------------------------------
(* _measure_upload: a probe, then a body of the size that its rate allows. *)
(* Of either the whole answer is read, however much it is.                 *)

Upload(size, time) ==
    /\ sent' = sent + size
    /\ \E reply \in Replies : answered' = answered + reply
    /\ spent' = time
    /\ UNCHANGED <<host, budget, handshakes, refused, received, ping>>

PostProbe ==
    /\ stage = "probe"
    /\ \E time \in 0 .. 2 :
          /\ Upload(Probe, time)
          /\ IF time = 0 THEN Fails("upload") /\ stage' = "done" ELSE stage' = "body" /\ UNCHANGED <<result, broken>>

Ceiling == IF budget \div 4 > Probe THEN budget \div 4 ELSE Probe
Wished == IF (Probe * Seconds) \div spent > Probe THEN (Probe * Seconds) \div spent ELSE Probe
Size == IF Wished < Ceiling THEN Wished ELSE Ceiling
Body == Chunk * (Size \div Chunk)   \* whole chunks

PostBody ==
    /\ stage = "body"
    /\ \E time \in 0 .. 2 : Upload(Body, time) /\ IF time = 0 THEN Fails("upload") ELSE Works("upload")
    /\ stage' = "done"

\* A request that fails, of whose body some has left.
PostFails ==
    /\ stage \in {"probe", "body"}
    /\ \E size \in 0 .. (IF stage = "probe" THEN Probe ELSE Body) : Upload(size, spent)
    /\ Fails("upload")
    /\ stage' = "done"

Next ==
    \/ Start \/ Icmp \/ Handshake \/ Latency \/ Dns \/ ReadChunk \/ Downloaded \/ DownloadFails
    \/ PostProbe \/ PostBody \/ PostFails

-----------------------------------------------------------------------------
(* What fails costs its own figure and no other, and there is a ping where *)
(* either kind of it came back (network.py 743-796).                       *)
OneFailureCostsOne ==
    stage = "done" =>
        /\ \A x \in Measurements : result[x] = IF x \in broken THEN "error" ELSE "figure"
        /\ ping = IF {"icmp", "latency"} \subseteq broken THEN "error" ELSE "figure"

(* The download reads its budget and the rest of one chunk, whatever the   *)
(* server sends; the upload sends the probe and once more as much, or, of  *)
(* a budget above 4 MB, the probe and a quarter of that, whatever the link *)
(* does between the two (network.py 672, 716-728). What the server answers *)
(* to an upload nothing caps: AnswersAreCapped.                            *)
TrafficIsCapped ==
    /\ received < budget + Chunk
    /\ sent <= 2 * Probe \/ 4 * (sent - Probe) <= budget

-----------------------------------------------------------------------------
(* "Never raises" (network.py 777); "uploading a quarter of that"          *)
(* (docs/safety.md 136), to which the probe is added; "Both directions are *)
(* capped by time *and* by bytes" (network.py 779), and the answer to an   *)
(* upload is not.                                                          *)
NeverRaises == stage # "raised"
UploadIsAQuarter == 4 * sent <= budget
AnswersAreCapped == received + answered < budget + Chunk
=============================================================================
