-------------------------- MODULE SubprocessesProofs --------------------------
(***************************************************************************)
(* Theorems about the parts that MCSubprocesses composes. Each has its own *)
(* invariant; a step is a step of one part and leaves the others alone.    *)
(***************************************************************************)
EXTENDS MCSubprocesses, Integers, Sequences, Sums, TLAPS

(* What a step does to each of the parts.                                  *)
LEMMA PartSteps ==
    ASSUME [Next]_vars
    PROVE  /\ S!Next \/ UNCHANGED sustainedVars
           /\ P!Next \/ UNCHANGED powerVars
           /\ E!Next \/ UNCHANGED enginesVars
           /\ I!Next \/ UNCHANGED installerVars
           /\ L!Next \/ UNCHANGED loopbackVars
           /\ C!Next \/ UNCHANGED coresVars
           /\ F!Next \/ UNCHANGED testsVars
           /\ N!Next \/ UNCHANGED internetVars
           /\ A!Next \/ UNCHANGED acceleratorsVars
  <1>1. CASE Sustains
    BY <1>1 DEF Sustains, Others
  <1>2. CASE Meters
    BY <1>2 DEF Meters, Others
  <1>3. CASE Builds
    BY <1>3 DEF Builds, Others
  <1>4. CASE Installs
    BY <1>4 DEF Installs, Others
  <1>5. CASE HandsOver
    BY <1>5 DEF HandsOver, Others
  <1>6. CASE Counts
    BY <1>6 DEF Counts, Others
  <1>7. CASE Samples
    BY <1>7 DEF Samples, Others
  <1>8. CASE Reaches
    BY <1>8 DEF Reaches, Others
  <1>9. CASE Accelerates
    BY <1>9 DEF Accelerates, Others
  <1>10. CASE UNCHANGED vars
    BY <1>10 DEF vars
  <1> QED
    BY <1>1, <1>2, <1>3, <1>4, <1>5, <1>6, <1>7, <1>8, <1>9, <1>10 DEF Next

-----------------------------------------------------------------------------
\* Internet: what has been moved, by stage.
InternetInv ==
    /\ budget \in Nat /\ received \in Nat /\ uploaded \in Nat /\ elapsed \in Nat
    /\ section \in {"start", "icmp", "latency", "dns", "download", "probe", "body", "done", "refused", "raised"}
    /\ received < budget + N!Chunk
    /\ section \in {"start", "icmp", "latency", "dns", "download", "probe"} => uploaded = 0
    /\ section = "body" => uploaded = N!Probe /\ elapsed > 0
    /\ uploaded <= N!Probe + N!Ceiling

(* The body of the upload is within the ceiling.                           *)
LEMMA BodyFits ==
    ASSUME budget \in Nat, elapsed \in Nat \ {0}
    PROVE  N!Body \in Nat /\ N!Ceiling \in Nat /\ N!Body <= N!Ceiling /\ N!Probe <= N!Ceiling
  <1>0. Seconds \in Nat
    BY Bounds
  <1>1. N!Ceiling \in Nat /\ N!Probe <= N!Ceiling
    BY DEF N!Ceiling, N!Probe
  <1>2. (16 * Seconds) \div elapsed \in Nat
    <2>1. 16 * Seconds \in Nat
      BY <1>0
    <2> QED
      BY <2>1
  <1>3. N!Wished \in Nat
    BY <1>2 DEF N!Wished, N!Probe
  <1>4. N!Size \in Nat /\ N!Size <= N!Ceiling
    BY <1>1, <1>3 DEF N!Size
  <1>5. N!Body \in Nat /\ N!Body <= N!Size
    BY <1>4 DEF N!Body, N!Chunk
  <1> QED
    BY <1>1, <1>4, <1>5

(* Every step of the internet test keeps to what its stage allows.         *)
LEMMA InternetStep ==
    ASSUME InternetInv, N!Next
    PROVE  InternetInv'
  <1>0. /\ budget \in Nat /\ received \in Nat /\ uploaded \in Nat /\ elapsed \in Nat
        /\ N!Ceiling \in Nat /\ N!Probe = 16 /\ N!Chunk = 4 /\ N!Probe <= N!Ceiling
    <2>1. N!Ceiling \in Nat /\ N!Probe <= N!Ceiling
      BY DEF InternetInv, N!Ceiling, N!Probe
    <2> QED
      BY <2>1 DEF InternetInv, N!Probe, N!Chunk
  <1>1. budget' = budget
    BY DEF N!Next, N!Start, N!Icmp, N!Handshake, N!Latency, N!Dns, N!ReadChunk, N!Downloaded, N!DownloadFails,
           N!PostProbe, N!PostBody, N!PostFails, N!Upload
  <1>2. N!Ceiling' = N!Ceiling /\ N!Probe' = N!Probe /\ N!Chunk' = N!Chunk
    BY <1>1 DEF N!Ceiling, N!Probe, N!Chunk
  <1>3. CASE N!Start \/ N!Icmp \/ N!Handshake \/ N!Latency
    <2>1. /\ UNCHANGED <<received, uploaded, elapsed>> /\ uploaded = 0
          /\ section' \in {"refused", "raised", "icmp", "latency", "dns"}
      BY <1>3 DEF InternetInv, N!Start, N!Icmp, N!Handshake, N!Latency
    <2> QED
      BY <1>0, <1>1, <1>2, <2>1 DEF InternetInv
  <1>4. CASE N!Dns \/ N!Downloaded \/ N!DownloadFails
    <2>1. /\ UNCHANGED <<received, uploaded>> /\ uploaded = 0 /\ elapsed' \in {0, elapsed}
          /\ section' \in {"download", "probe"}
      BY <1>4 DEF InternetInv, N!Dns, N!Downloaded, N!DownloadFails
    <2> QED
      BY <1>0, <1>1, <1>2, <2>1 DEF InternetInv
  <1>5. CASE N!ReadChunk
    <2>1. /\ section = "download" /\ section' = section /\ uploaded' = uploaded
          /\ elapsed' \in {elapsed, elapsed + 1} /\ ~ (received >= budget)
          /\ received' = received + (IF received = 0 THEN 1 ELSE 4)
      BY <1>5 DEF N!ReadChunk, N!Stops, N!Enough, N!Chunk
    <2>2. received' \in Nat /\ received' < budget + 4 /\ elapsed' \in Nat
      BY <1>0, <2>1
    <2> QED
      BY <1>0, <1>1, <1>2, <2>1, <2>2 DEF InternetInv
  <1>6. CASE N!PostProbe
    <2>1. PICK time \in 0 .. 2 : N!Upload(N!Probe, time) /\ (IF time = 0 THEN section' = "done" ELSE section' = "body")
      BY <1>6 DEF N!PostProbe
    <2>2. uploaded = 0 /\ uploaded' = uploaded + N!Probe /\ elapsed' = time /\ received' = received
      BY <1>6, <2>1 DEF InternetInv, N!PostProbe, N!Upload
    <2>3. uploaded' = N!Probe /\ elapsed' \in Nat /\ (section' = "body" => elapsed' > 0)
      BY <1>0, <2>1, <2>2
    <2> QED
      BY <1>0, <1>1, <1>2, <2>1, <2>2, <2>3 DEF InternetInv
  <1>7. CASE N!PostBody
    <2>1. PICK time \in 0 .. 2 : N!Upload(N!Body, time)
      BY <1>7 DEF N!PostBody
    <2>2. uploaded = N!Probe /\ elapsed \in Nat \ {0} /\ section' = "done"
      BY <1>7 DEF InternetInv, N!PostBody
    <2>3. N!Body \in Nat /\ N!Body <= N!Ceiling
      BY <1>0, <2>2, BodyFits
    <2>4. uploaded' = N!Probe + N!Body /\ elapsed' \in Nat /\ received' = received
      BY <2>1, <2>2 DEF N!Upload
    <2> QED
      BY <1>0, <1>1, <1>2, <2>2, <2>3, <2>4 DEF InternetInv
  <1>8. CASE N!PostFails
    <2>1. PICK part \in 0 .. (IF section = "probe" THEN N!Probe ELSE N!Body) : N!Upload(part, elapsed)
      BY <1>8 DEF N!PostFails
    <2>2. section \in {"probe", "body"} /\ section' = "done"
      BY <1>8 DEF N!PostFails
    <2>3. /\ part \in Nat /\ uploaded \in {0, N!Probe}
          /\ uploaded = N!Probe => part <= N!Ceiling
          /\ uploaded = 0 => part <= N!Probe
      <3>1. CASE section = "probe"
        BY <1>0, <2>1, <3>1 DEF InternetInv
      <3>2. CASE section = "body"
        <4>1. uploaded = N!Probe /\ elapsed \in Nat \ {0}
          BY <3>2 DEF InternetInv
        <4>2. N!Body \in Nat /\ N!Body <= N!Ceiling
          BY <1>0, <4>1, BodyFits
        <4>3. part \in 0 .. N!Body
          BY <2>1, <3>2
        <4> QED
          BY <1>0, <4>1, <4>2, <4>3
      <3> QED
        BY <2>2, <3>1, <3>2
    <2>4. uploaded' = uploaded + part /\ elapsed' = elapsed /\ received' = received
      BY <2>1 DEF N!Upload
    <2>5. uploaded' \in Nat /\ uploaded' <= N!Probe + N!Ceiling
      BY <1>0, <2>3, <2>4
    <2> QED
      BY <1>0, <1>1, <1>2, <2>2, <2>4, <2>5 DEF InternetInv
  <1> QED
    BY <1>3, <1>4, <1>5, <1>6, <1>7, <1>8 DEF N!Next

(* An internet test downloads less than its budget and a chunk, and sends  *)
(* no more than the probe and the larger of a probe and a quarter of that, *)
(* for every budget, time and server. Of the answers to an upload it says  *)
(* nothing: nothing limits them.                                           *)
THEOREM TransfersAreLimited == Spec => []TrafficIsCapped
  <1>1. Init => InternetInv
    <2> SUFFICES ASSUME Init PROVE InternetInv
      OBVIOUS
    <2>1. /\ budget \in Nat /\ section = "start" /\ received = 0 /\ uploaded = 0 /\ elapsed = 0
      BY Bounds DEF Init, N!Init
    <2>2. N!Ceiling \in Nat
      BY <2>1 DEF N!Ceiling, N!Probe
    <2> QED
      BY <2>1, <2>2 DEF InternetInv, N!Probe, N!Chunk
  <1>2. InternetInv /\ [Next]_vars => InternetInv'
    <2>1. ASSUME InternetInv, UNCHANGED internetVars PROVE InternetInv'
      BY <2>1 DEF InternetInv, internetVars, N!Ceiling, N!Probe, N!Chunk
    <2> QED
      BY <2>1, InternetStep, PartSteps
  <1>3. InternetInv => TrafficIsCapped
    <2> SUFFICES ASSUME InternetInv PROVE TrafficIsCapped
      OBVIOUS
    <2>1. budget \in Nat /\ uploaded \in Nat /\ received < budget + N!Chunk /\ uploaded <= N!Probe + N!Ceiling
      BY DEF InternetInv
    <2>2. N!Ceiling = (IF budget \div 4 > 16 THEN budget \div 4 ELSE 16) /\ N!Probe = 16
      BY DEF N!Ceiling, N!Probe
    <2>3. budget \div 4 \in Nat /\ 4 * (budget \div 4) <= budget
      BY <2>1
    <2>4. CASE budget \div 4 > 16
      <3>1. uploaded - 16 <= budget \div 4
        BY <2>1, <2>2, <2>3, <2>4
      <3> QED
        BY <2>1, <2>2, <2>3, <3>1 DEF TrafficIsCapped, N!TrafficIsCapped
    <2>5. CASE ~(budget \div 4 > 16)
      BY <2>1, <2>2, <2>3, <2>5 DEF TrafficIsCapped, N!TrafficIsCapped
    <2> QED
      BY <2>4, <2>5
  <1> QED
    BY <1>1, <1>2, <1>3, PTL DEF Spec

-----------------------------------------------------------------------------
\* The measurements that are still to come, by the stage.
Ahead(x) ==
    CASE x = "icmp" -> {"start", "icmp"}
      [] x = "latency" -> {"start", "icmp", "latency"}
      [] x = "dns" -> {"start", "icmp", "latency", "dns"}
      [] x = "download" -> {"start", "icmp", "latency", "dns", "download"}
      [] x = "upload" -> {"start", "icmp", "latency", "dns", "download", "probe", "body"}

FailuresInv ==
    /\ result \in [N!Measurements -> {"none", "figure", "error"}] /\ broken \subseteq N!Measurements
    /\ handshakes \in Nat /\ refused \in Nat /\ refused <= handshakes /\ handshakes <= Attempts
    /\ section \in {"start", "icmp", "latency", "dns", "download", "probe", "body", "done", "refused", "raised"}
    /\ \A x \in N!Measurements : x \in broken <=> result[x] = "error"
    /\ section \notin {"refused", "raised"} =>
          \A x \in N!Measurements : result[x] = "none" <=> section \in Ahead(x)
    /\ section \in {"dns", "download", "probe", "body", "done"} =>
          shown = IF {"icmp", "latency"} \subseteq broken THEN "error" ELSE "figure"

(* What is measured next has its result, or its failure, to itself.        *)
LEMMA OneIsPut ==
    ASSUME FailuresInv, NEW x \in N!Measurements, N!Works(x) \/ N!Fails(x), result[x] = "none"
    PROVE  /\ result' \in [N!Measurements -> {"none", "figure", "error"}] /\ broken' \subseteq N!Measurements
           /\ \A y \in N!Measurements : y \in broken' <=> result'[y] = "error"
           /\ result'[x] # "none" /\ \A y \in N!Measurements : y # x => result'[y] = result[y]
           /\ \A y \in N!Measurements \ {x} : y \in broken' <=> y \in broken
  BY DEF FailuresInv, N!Works, N!Fails, N!Put

(* Every step of the internet test fails what it measures and no other.    *)
LEMMA FailuresStep ==
    ASSUME FailuresInv, N!Next
    PROVE  FailuresInv'
  <1>0. /\ N!Measurements = {"icmp", "latency", "dns", "download", "upload"}
        /\ handshakes \in Nat /\ refused \in Nat /\ Attempts \in Nat
    BY Bounds DEF FailuresInv, N!Measurements
  <1>1. CASE N!Start \/ N!ReadChunk
    <2>1. /\ UNCHANGED <<result, broken, handshakes, refused, shown>>
          /\ \/ section = "start" /\ section' \in {"refused", "raised", "icmp"}
             \/ section = "download" /\ section' = "download"
      BY <1>1 DEF N!Start, N!ReadChunk
    <2> QED
      BY <1>0, <2>1 DEF FailuresInv, Ahead
  <1>2. CASE N!Icmp
    <2>1. /\ section = "icmp" /\ section' = "latency" /\ UNCHANGED <<handshakes, refused>>
          /\ N!Works("icmp") \/ N!Fails("icmp")
      BY <1>2 DEF N!Icmp
    <2>2. result["icmp"] = "none" /\ "icmp" \in N!Measurements
      BY <1>0, <2>1 DEF FailuresInv, Ahead
    <2> QED
      BY <1>0, <2>1, <2>2, OneIsPut DEF FailuresInv, Ahead
  <1>3. CASE N!Handshake
    <2>1. /\ section = "latency" /\ handshakes < Attempts /\ UNCHANGED <<result, broken, shown>>
          /\ \/ section' = "raised" /\ UNCHANGED <<handshakes, refused>>
             \/ section' = section /\ handshakes' = handshakes + 1 /\ refused' \in {refused, refused + 1}
      BY <1>3 DEF N!Handshake
    <2>2. handshakes' \in Nat /\ refused' \in Nat /\ refused' <= handshakes' /\ handshakes' <= Attempts
      BY <1>0, <2>1 DEF FailuresInv
    <2> QED
      BY <1>0, <2>1, <2>2 DEF FailuresInv, Ahead
  <1>4. CASE N!Latency
    <2>1. /\ section = "latency" /\ section' = "dns" /\ UNCHANGED <<handshakes, refused>>
          /\ IF refused = Attempts THEN N!Fails("latency") ELSE N!Works("latency")
          /\ shown' = IF result["icmp"] = "figure" \/ refused < Attempts THEN "figure" ELSE "error"
      BY <1>4 DEF N!Latency
    <2>2. result["latency"] = "none" /\ "latency" \in N!Measurements /\ "icmp" \in N!Measurements
      BY <1>0, <2>1 DEF FailuresInv, Ahead
    <2>3. result["icmp"] # "none" /\ ("icmp" \in broken <=> result["icmp"] = "error") /\ refused <= Attempts
      BY <1>0, <2>1, <2>2 DEF FailuresInv, Ahead
    <2>4. "latency" \in broken' <=> refused = Attempts
      BY <2>1, <2>2 DEF FailuresInv, N!Fails, N!Works
    <2>5. "icmp" \in broken' <=> "icmp" \in broken
      BY <2>1, <2>2, OneIsPut
    <2>6. result["icmp"] \in {"figure", "error"}
      BY <2>2, <2>3 DEF FailuresInv
    <2>7. refused < Attempts <=> refused # Attempts
      BY <1>0, <2>3
    <2>8. shown' = IF {"icmp", "latency"} \subseteq broken' THEN "error" ELSE "figure"
      BY <2>1, <2>3, <2>4, <2>5, <2>6, <2>7
    <2>9. N!Works("latency") \/ N!Fails("latency")
      BY <2>1
    <2> QED
      BY <1>0, <2>1, <2>2, <2>8, <2>9, OneIsPut DEF FailuresInv, Ahead
  <1>5. CASE N!Dns
    <2>1. /\ section = "dns" /\ section' = "download" /\ UNCHANGED <<handshakes, refused, shown>>
          /\ N!Works("dns") \/ N!Fails("dns")
      BY <1>5 DEF N!Dns
    <2>2. result["dns"] = "none" /\ "dns" \in N!Measurements
      BY <1>0, <2>1 DEF FailuresInv, Ahead
    <2> QED
      BY <1>0, <2>1, <2>2, OneIsPut DEF FailuresInv, Ahead
  <1>6. CASE N!Downloaded \/ N!DownloadFails
    <2>1. /\ section = "download" /\ section' = "probe" /\ UNCHANGED <<handshakes, refused, shown>>
          /\ N!Works("download") \/ N!Fails("download")
      BY <1>6 DEF N!Downloaded, N!DownloadFails
    <2>2. result["download"] = "none" /\ "download" \in N!Measurements
      BY <1>0, <2>1 DEF FailuresInv, Ahead
    <2> QED
      BY <1>0, <2>1, <2>2, OneIsPut DEF FailuresInv, Ahead
  <1>7. CASE N!PostProbe \/ N!PostBody \/ N!PostFails
    <2>1. /\ section \in {"probe", "body"} /\ UNCHANGED <<handshakes, refused, shown>>
          /\ \/ section' = "done" /\ (N!Works("upload") \/ N!Fails("upload"))
             \/ section = "probe" /\ section' = "body" /\ UNCHANGED <<result, broken>>
      BY <1>7 DEF N!PostProbe, N!PostBody, N!PostFails, N!Upload
    <2>2. result["upload"] = "none" /\ "upload" \in N!Measurements
      BY <1>0, <2>1 DEF FailuresInv, Ahead
    <2>3. CASE section' = "done" /\ (N!Works("upload") \/ N!Fails("upload"))
      BY <1>0, <2>1, <2>2, <2>3, OneIsPut DEF FailuresInv, Ahead
    <2>4. CASE section = "probe" /\ section' = "body" /\ UNCHANGED <<result, broken>>
      BY <1>0, <2>1, <2>4 DEF FailuresInv, Ahead
    <2> QED
      BY <2>1, <2>3, <2>4
  <1> QED
    BY <1>1, <1>2, <1>3, <1>4, <1>5, <1>6, <1>7 DEF N!Next

(* The results, and what failed, agree in every behaviour.                 *)
LEMMA FailuresHold == Spec => []FailuresInv
  <1>1. Init => FailuresInv
    <2> SUFFICES ASSUME Init PROVE FailuresInv
      OBVIOUS
    <2>1. N!Init /\ Attempts \in Nat
      BY Bounds DEF Init
    <2> QED
      BY <2>1 DEF N!Init, FailuresInv, Ahead, N!Measurements
  <1>2. FailuresInv /\ [Next]_vars => FailuresInv'
    <2>1. ASSUME FailuresInv, UNCHANGED internetVars PROVE FailuresInv'
      BY <2>1 DEF FailuresInv, internetVars
    <2> QED
      BY <2>1, FailuresStep, PartSteps
  <1> QED
    BY <1>1, <1>2, PTL DEF Spec

-----------------------------------------------------------------------------
\* Loopback: what was sent has been taken or is on its way.
Drained ==
    /\ out \in Nat /\ sent \in Nat /\ taken \in Nat
    /\ taken + out = sent
    /\ shut => caller # "loop"
    /\ caller \in {"loop", "join", "over"} /\ helper \in {"wait", "over"}
    /\ helper = "over" => shut /\ out = 0
    /\ caller = "over" => late \/ helper = "over"

\* A byte is with the caller, on its way, or on its way back.
Echoed ==
    /\ out \in Nat /\ in \in Nat /\ sent \in Nat /\ taken \in Nat
    /\ caller \in {"loop", "recv", "join", "over"} /\ helper \in {"wait", "over"}
    /\ caller = "recv" => out + in = 1
    /\ caller # "recv" => out = 0 /\ in = 0
    /\ taken = sent + in

\* Where the two threads are, and what the events say of it.
Alternating ==
    /\ sent \in Nat /\ taken \in Nat /\ ping \in BOOLEAN /\ pong \in BOOLEAN
    /\ helper = "over" => taken = Rounds
    /\ \/ caller \in {"loop", "join", "over"} /\ helper \in {"wait", "over"} /\ ~ping /\ ~pong /\ taken = sent
       \/ caller = "wait" /\ helper \in {"wait", "first"} /\ ping /\ ~pong /\ taken = sent /\ sent < Rounds
       \/ caller = "wait" /\ helper = "second" /\ ~ping /\ ~pong /\ taken = sent /\ sent < Rounds
       \/ caller \in {"wait", "clear"} /\ helper \in {"wait", "over"} /\ ~ping /\ pong /\ taken = sent + 1

LoopbackInv ==
    /\ what \in {"throughput", "latency", "switch"}
    /\ what = "throughput" => Drained
    /\ what = "latency" => Echoed
    /\ what = "switch" => Alternating

(* Every step of either thread keeps count of what is between them.        *)
LEMMA LoopbackStep ==
    ASSUME LoopbackInv, L!Next
    PROVE  LoopbackInv'
  <1>0. what' = what /\ what \in {"throughput", "latency", "switch"} /\ Rounds \in Nat
    BY Bounds DEF LoopbackInv, L!Next, L!Caller, L!Helper, L!JoinGivesUp, L!SendAll, L!Close, L!Drain, L!EndOfFile,
                  L!Join, L!SendByte, L!ReceiveByte, L!Echo, L!SetPing, L!WaitPong, L!ClearPong, L!WaitPing, L!Respond
  <1>1. CASE what = "throughput"
    <2>0. Drained
      BY <1>1 DEF LoopbackInv
    <2> SUFFICES Drained'
      BY <1>0, <1>1 DEF LoopbackInv
    <2>1. CASE L!SendAll
      BY <2>0, <2>1 DEF Drained, L!SendAll
    <2>2. CASE L!Close \/ L!EndOfFile
      BY <2>0, <2>2 DEF Drained, L!Close, L!EndOfFile
    <2>3. CASE L!Drain
      <3>1. PICK n \in 1 .. out : out' = out - n /\ taken' = taken + n
        BY <2>3 DEF L!Drain
      <3>2. helper = "wait" /\ UNCHANGED <<caller, helper, shut, sent, late>>
        BY <2>3 DEF L!Drain
      <3>3. out \in Nat /\ taken \in Nat /\ sent \in Nat /\ taken + out = sent
        BY <2>0 DEF Drained
      <3>4. out' \in Nat /\ taken' \in Nat /\ taken' + out' = sent
        BY <3>1, <3>3
      <3> QED
        BY <2>0, <3>2, <3>4 DEF Drained
    <2>4. CASE L!Join \/ L!JoinGivesUp
      BY <2>0, <2>4 DEF Drained, L!Join, L!Joined, L!JoinGivesUp
    <2> QED
      BY <1>1, <2>1, <2>2, <2>3, <2>4 DEF L!Next, L!Caller, L!Helper
  <1>2. CASE what = "latency"
    <2>0. Echoed
      BY <1>2 DEF LoopbackInv
    <2> SUFFICES Echoed'
      BY <1>0, <1>2 DEF LoopbackInv
    <2>1. CASE L!SendByte
      BY <2>0, <2>1 DEF Echoed, L!SendByte
    <2>2. CASE L!ReceiveByte
      BY <2>0, <2>2 DEF Echoed, L!ReceiveByte
    <2>3. CASE L!Echo
      BY <2>0, <2>3 DEF Echoed, L!Echo
    <2>4. CASE L!Close \/ L!EndOfFile \/ L!Join \/ L!JoinGivesUp
      BY <2>0, <2>4 DEF Echoed, L!Close, L!EndOfFile, L!Join, L!JoinGivesUp
    <2> QED
      BY <1>2, <2>1, <2>2, <2>3, <2>4 DEF L!Next, L!Caller, L!Helper
  <1>3. CASE what = "switch"
    <2>0. Alternating
      BY <1>3 DEF LoopbackInv
    <2> SUFFICES Alternating'
      BY <1>0, <1>3 DEF LoopbackInv
    <2>1. CASE L!SetPing
      BY <1>0, <2>0, <2>1 DEF Alternating, L!SetPing
    <2>2. CASE L!WaitPong \/ L!ClearPong
      <3>1. /\ helper \in {"wait", "over"} /\ ~ping /\ pong /\ taken = sent + 1 /\ UNCHANGED <<helper, taken, ping>>
        BY <2>0, <2>2 DEF Alternating, L!WaitPong, L!ClearPong
      <3>2. \/ caller' = "clear" /\ pong' = pong /\ sent' = sent
            \/ caller' = "loop" /\ pong' = FALSE /\ sent' = sent + 1
        BY <2>2 DEF L!WaitPong, L!ClearPong
      <3>3. sent \in Nat /\ taken \in Nat /\ ping \in BOOLEAN /\ pong \in BOOLEAN /\ (helper = "over" => taken = Rounds)
        BY <2>0 DEF Alternating
      <3>4. CASE caller' = "clear" /\ pong' = pong /\ sent' = sent
        BY <3>1, <3>3, <3>4 DEF Alternating
      <3>5. CASE caller' = "loop" /\ pong' = FALSE /\ sent' = sent + 1
        BY <3>1, <3>3, <3>5 DEF Alternating
      <3> QED
        BY <3>2, <3>4, <3>5
    <2>3. CASE L!WaitPing
      BY <1>0, <2>0, <2>3 DEF Alternating, L!WaitPing
    <2>4. CASE L!Respond
      <3>1. CASE helper = "first"
        <4>1. ping' = FALSE /\ pong' = pong /\ helper' = "second" /\ taken' = taken /\ UNCHANGED <<caller, sent>>
          BY <2>4, <3>1 DEF L!Respond, L!Turn, L!ClearThenSet
        <4> QED
          BY <2>0, <3>1, <4>1 DEF Alternating
      <3>2. CASE helper = "second"
        <4>1. /\ ping' = ping /\ pong' = TRUE /\ taken' = taken + 1 /\ UNCHANGED <<caller, sent>>
              /\ helper' = IF taken + 1 = Rounds THEN "over" ELSE "wait"
          BY <2>4, <3>2 DEF L!Respond, L!Turn, L!ClearThenSet
        <4> QED
          BY <1>0, <2>0, <3>2, <4>1 DEF Alternating
      <3> QED
        BY <2>4, <3>1, <3>2 DEF L!Respond
    <2>5. CASE L!Join \/ L!JoinGivesUp
      BY <1>0, <2>0, <2>5 DEF Alternating, L!Join, L!JoinGivesUp
    <2>6. CASE caller = "loop" /\ caller' = "join" /\ UNCHANGED <<helper, sent, taken, ping, pong>>
      BY <1>0, <2>0, <2>6 DEF Alternating
    <2> QED
      BY <1>3, <2>1, <2>2, <2>3, <2>4, <2>5, <2>6 DEF L!Next, L!Caller, L!Helper
  <1> QED
    BY <1>0, <1>1, <1>2, <1>3

(* What is timed between two threads was handed over, for any sockets, any *)
(* amount and any number of turns.                                         *)
THEOREM TimedWasHandedOver == Spec => []TimedIsHandedOver
  <1>1. Init => LoopbackInv
    <2> SUFFICES ASSUME Init PROVE LoopbackInv
      OBVIOUS
    <2>1. /\ what \in {"throughput", "latency", "switch"} /\ caller = "loop" /\ helper = "wait"
          /\ out = 0 /\ in = 0 /\ ~shut /\ sent = 0 /\ taken = 0 /\ ping = FALSE /\ pong = FALSE
      BY DEF Init, L!Init
    <2>2. Drained /\ Echoed
      BY <2>1 DEF Drained, Echoed
    <2>3. Alternating
      BY <2>1 DEF Alternating
    <2> QED
      BY <2>1, <2>2, <2>3 DEF LoopbackInv
  <1>2. LoopbackInv /\ [Next]_vars => LoopbackInv'
    <2>1. ASSUME LoopbackInv, UNCHANGED loopbackVars PROVE LoopbackInv'
      BY <2>1 DEF LoopbackInv, Drained, Echoed, Alternating, loopbackVars
    <2> QED
      BY <2>1, LoopbackStep, PartSteps
  <1>3. LoopbackInv => TimedIsHandedOver
    <2> SUFFICES ASSUME LoopbackInv PROVE L!CountedIsDrained /\ L!TurnsAlternate
      BY DEF TimedIsHandedOver
    <2>1. L!CountedIsDrained
      BY DEF LoopbackInv, Drained, L!CountedIsDrained
    <2>2. L!TurnsAlternate
      <3>1. CASE what = "latency"
        <4>1. Echoed
          BY <3>1 DEF LoopbackInv
        <4>2. in \in {0, 1}
          BY <4>1 DEF Echoed
        <4> QED
          BY <4>1, <4>2 DEF Echoed, L!TurnsAlternate
      <3>2. CASE what = "switch"
        BY <3>2 DEF LoopbackInv, Alternating, L!TurnsAlternate
      <3> QED
        BY <3>1, <3>2 DEF LoopbackInv, L!TurnsAlternate
    <2> QED
      BY <2>1, <2>2
  <1> QED
    BY <1>1, <1>2, <1>3, PTL DEF Spec

-----------------------------------------------------------------------------
\* Sustained: the windows that were measured are the time that is gone.
SustainedInv ==
    /\ duration \in Nat /\ spent \in Nat /\ measured \in Nat
    /\ rates \in Seq({1, 2}) /\ Len(rates) = measured /\ spent = measured
    /\ step \in {"look", "window", "summarise", "returned", "interrupted"}
    /\ step \in {"summarise", "returned"} => abort = (spent < duration)
    /\ S!AbortCostsNothing

(* Every step of a load keeps the number of windows it has measured.       *)
LEMMA SustainedStep ==
    ASSUME SustainedInv, S!Next
    PROVE  SustainedInv'
  <1>0. rates \in Seq({1, 2}) /\ Len(rates) = measured /\ measured \in Nat /\ spent = measured /\ duration \in Nat
    BY DEF SustainedInv
  <1>1. CASE S!Look
    <2>1. /\ UNCHANGED <<duration, spent, rates, measured>> /\ step' \in {"window", "summarise"}
          /\ step' = "summarise" => abort' = (spent < duration)
      BY <1>1 DEF S!Look
    <2> QED
      BY <2>1 DEF SustainedInv, S!AbortCostsNothing
  <1>2. CASE S!WindowOver
    <2>1. /\ step = "window" /\ step' = "look" /\ duration' = duration
          /\ rates' = Append(rates, S!Rate) /\ measured' = measured + 1 /\ spent' = spent + 1
      BY <1>2 DEF S!WindowOver
    <2>2. S!Rate \in {1, 2}
      BY DEF S!Rate
    <2>3. rates' \in Seq({1, 2}) /\ Len(rates') = Len(rates) + 1
      BY <1>0, <2>1, <2>2
    <2> QED
      BY <1>0, <2>1, <2>3 DEF SustainedInv, S!AbortCostsNothing
  <1>3. CASE S!Summarise
    <2>1. /\ step = "summarise" /\ step' = "returned" /\ UNCHANGED <<duration, spent, rates, measured, abort>>
          /\ summary' = IF rates = <<>> THEN S!Nil
                        ELSE [windows |-> Len(rates), droop |-> S!Droop(rates), aborted |-> abort]
      BY <1>3 DEF S!Summarise, S!Kept
    <2>2. rates = <<>> <=> measured = 0
      BY <1>0
    <2>3. summary'.windows = measured /\ (measured > 0 => summary'.aborted = abort)
      <3>1. CASE measured = 0
        <4>1. summary' = [windows |-> 0, droop |-> 0, aborted |-> FALSE]
          BY <2>1, <2>2, <3>1 DEF S!Nil
        <4> QED
          BY <3>1, <4>1
      <3>2. CASE measured # 0
        <4>1. summary' = [windows |-> Len(rates), droop |-> S!Droop(rates), aborted |-> abort]
          BY <2>1, <2>2, <3>2
        <4> QED
          BY <1>0, <4>1
      <3> QED
        BY <3>1, <3>2
    <2>4. abort = (spent < duration)
      BY <2>1 DEF SustainedInv
    <2> QED
      BY <1>0, <2>1, <2>3, <2>4 DEF SustainedInv, S!AbortCostsNothing
  <1>4. CASE (\E w \in Workers : S!Share(w)) \/ (\E w \in Workers : S!Killed(w)) \/ S!Heat
    <2>1. UNCHANGED <<duration, spent, rates, measured, abort, summary, step>>
      BY <1>4 DEF S!Share, S!Killed, S!Heat
    <2> QED
      BY <2>1 DEF SustainedInv, S!AbortCostsNothing
  <1>5. CASE S!KeyboardInterrupt
    <2>1. UNCHANGED <<duration, spent, rates, measured, abort, summary>> /\ step' = "interrupted"
      BY <1>5 DEF S!KeyboardInterrupt
    <2> QED
      BY <2>1 DEF SustainedInv, S!AbortCostsNothing
  <1> QED
    BY <1>1, <1>2, <1>3, <1>4, <1>5 DEF S!Next, S!Load

(* A load loses no window, for any pool, duration and heat.                *)
THEOREM WindowsAreKept == Spec => []AbortCostsNothing
  <1>1. Init => SustainedInv
    <2> SUFFICES ASSUME Init PROVE SustainedInv
      OBVIOUS
    <2>1. S!Init /\ MaxWindows \in Nat
      BY Bounds DEF Init
    <2> QED
      BY <2>1 DEF S!Init, SustainedInv, S!AbortCostsNothing
  <1>2. SustainedInv /\ [Next]_vars => SustainedInv'
    <2>1. ASSUME SustainedInv, UNCHANGED sustainedVars PROVE SustainedInv'
      BY <2>1 DEF SustainedInv, S!AbortCostsNothing, sustainedVars
    <2> QED
      BY <2>1, SustainedStep, PartSteps
  <1>3. SustainedInv => AbortCostsNothing
    BY DEF SustainedInv, AbortCostsNothing
  <1> QED
    BY <1>1, <1>2, <1>3, PTL DEF Spec

-----------------------------------------------------------------------------
\* Power: until the load is told to stop, a process that is ready burns; and
\* what the sampler has of its readings.
PowerInv ==
    /\ task \in {"load", "energy"} /\ meter \in {"counter", "gauge", "none"}
    /\ burner \in [Burners -> {"new", "starting", "spinning", "ended"}]
    /\ stop \in BOOLEAN /\ joined \in BOOLEAN /\ estimates \in BOOLEAN
    /\ sampler \in {"off", "loop", "measuring", "flag", "ended"}
    /\ samples \in Seq({"real", "estimate"}) /\ flags \in Seq({"real", "estimate"})
    /\ pc \in {"probe", "start", "wait", "measure"} => ~stop /\ ready = P!Spinning
    /\ said => full = Burners
    /\ sampler = "off" <=> task = "load" \/ meter = "counter"
    /\ sampler = "flag" => pending \in {"real", "estimate"} /\ samples = Append(flags, pending)
    /\ sampler # "flag" => samples = flags
    /\ task = "load" => pc \in {"probe", "start", "wait", "measure", "finally", "join", "returned", "raised"}
    /\ task = "energy" => pc \in {"work", "waitThread", "flags", "label", "returned"}
    /\ joined => sampler = "ended" /\ pc \notin {"work", "waitThread"}
    /\ joined /\ pc \in {"label", "returned"} => (estimates <=> P!AllEstimates)
    /\ label = "measured" => pc = "returned" /\ task = "energy"
    /\ label = "measured" /\ joined => \E i \in DOMAIN samples : samples[i] = "real"

(* What measure_under_load does, and its processes, to the two lists and   *)
(* the label: nothing.                                                     *)
LEMMA UnderLoadStep ==
    ASSUME PowerInv, P!UnderLoad \/ (\E b \in Burners : P!Burner(b)) \/ P!KeyboardInterrupt
    PROVE  PowerInv'
  <1>0. /\ UNCHANGED <<task, meter, sampler, pending, samples, flags, joined, estimates, label>>
        /\ \/ pc' = pc
           \/ /\ pc \in {"probe", "start", "wait", "measure", "finally", "join"}
              /\ pc' \in {"start", "wait", "measure", "finally", "join", "returned", "raised"}
    BY DEF P!UnderLoad, P!Burner, P!KeyboardInterrupt, P!Probe, P!Waited, P!Measure, P!Finally, P!Joined, P!Start, P!Join,
           P!Ready, P!BurnerEnds, P!energyVars
  <1>1. burner \in [Burners -> {"new", "starting", "spinning", "ended"}] /\ stop \in BOOLEAN /\ (said => full = Burners)
    BY DEF PowerInv
  <1>2. /\ burner' \in [Burners -> {"new", "starting", "spinning", "ended"}] /\ stop' \in BOOLEAN
        /\ pc' \in {"probe", "start", "wait", "measure"} => ~stop' /\ ready' = P!Spinning'
        /\ said' => full' = Burners
    <2>1. CASE P!Probe \/ P!Waited
      <3>1. pc \in {"probe", "wait"} /\ UNCHANGED <<burner, ready, stop, full, said>>
        BY <2>1 DEF P!Probe, P!Waited
      <3>2. P!Spinning' = P!Spinning /\ ~stop /\ ready = P!Spinning
        BY <3>1 DEF PowerInv, P!Spinning
      <3> QED
        BY <1>1, <3>1, <3>2
    <2>2. CASE P!Measure
      <3>1. /\ full' = P!Spinning /\ said' = (ready = Burners) /\ pc = "measure" /\ pc' = "finally"
            /\ UNCHANGED <<burner, stop>>
        BY <2>2 DEF P!Measure, P!Started
      <3> QED
        BY <1>1, <3>1 DEF PowerInv
    <2>3. CASE P!Finally \/ P!Joined \/ P!KeyboardInterrupt
      <3>1. UNCHANGED <<burner, ready, full, said>> /\ pc' \in {"join", "returned", "raised"} /\ stop' \in {stop, TRUE}
        BY <2>3 DEF P!Finally, P!Joined, P!KeyboardInterrupt, P!Stopped, P!loadVars
      <3> QED
        BY <1>1, <3>1
    <2>4. CASE \E b \in Burners : P!Start(b)
      <3>0. PICK b \in Burners : P!Start(b)
        BY <2>4
      <3>1. /\ burner[b] = "new" /\ burner' = [burner EXCEPT ![b] = "starting"] /\ pc = "start"
            /\ UNCHANGED <<ready, stop, full, said>>
        BY <3>0 DEF P!Start
      <3>2. P!Spinning' = P!Spinning
        BY <1>1, <3>1 DEF P!Spinning
      <3> QED
        BY <1>1, <3>1, <3>2 DEF PowerInv
    <2>5. CASE \E b \in Burners : P!Join(b)
      <3>0. PICK b \in Burners : P!Join(b)
        BY <2>5
      <3> QED
        BY <1>1, <3>0 DEF P!Join
    <2>6. CASE \E b \in Burners : P!Ready(b)
      <3>0. PICK b \in Burners : P!Ready(b)
        BY <2>6
      <3>1. /\ burner[b] = "starting" /\ burner' = [burner EXCEPT ![b] = "spinning"] /\ ready' = ready \cup {b}
            /\ UNCHANGED <<pc, stop, full, said>>
        BY <3>0 DEF P!Ready
      <3>2. P!Spinning' = P!Spinning \cup {b}
        BY <1>1, <3>1 DEF P!Spinning
      <3> QED
        BY <1>1, <3>1, <3>2 DEF PowerInv
    <2>7. CASE \E b \in Burners : P!BurnerEnds(b)
      <3>0. PICK b \in Burners : P!BurnerEnds(b)
        BY <2>7
      <3> QED
        BY <1>1, <3>0 DEF P!BurnerEnds, PowerInv
    <2> QED
      BY <2>1, <2>2, <2>3, <2>4, <2>5, <2>6, <2>7 DEF P!UnderLoad, P!Burner
  <1>3. P!AllEstimates' <=> P!AllEstimates
    BY <1>0 DEF P!AllEstimates
  <1>4. sampler = "off" => ~joined
    BY DEF PowerInv
  <1>5. joined => pc' = pc
    <2>1. CASE task = "load"
      BY <1>4, <2>1 DEF PowerInv
    <2>2. CASE task = "energy"
      BY <1>0, <2>2 DEF PowerInv
    <2> QED
      BY <2>1, <2>2 DEF PowerInv
  <1>6. task = "energy" => pc' = pc
    BY <1>0 DEF PowerInv
  <1> QED
    BY <1>0, <1>2, <1>3, <1>5, <1>6 DEF PowerInv

(* What the sampler and the caller of energy_to_solution do to them.       *)
LEMMA EnergyStep ==
    ASSUME PowerInv, P!Energy
    PROVE  PowerInv'
  <1>0. /\ samples \in Seq({"real", "estimate"}) /\ flags \in Seq({"real", "estimate"})
        /\ sampler = "off" <=> task = "load" \/ meter = "counter"
        /\ joined => sampler = "ended" /\ pc \notin {"work", "waitThread"}
    BY DEF PowerInv
  <1>1. UNCHANGED <<task, meter, burner, ready, full, said>>
    BY DEF P!Energy, P!Sampler, P!Poll, P!Sample, P!Flag, P!Work, P!JoinThread, P!ReadFlags, P!Label, P!loadVars
  <1>2. P!Spinning' = P!Spinning
    BY <1>1 DEF P!Spinning
  <1>3. CASE P!Poll
    <2>1. /\ sampler = "loop" /\ sampler' \in {"ended", "measuring"}
          /\ UNCHANGED <<pc, stop, pending, samples, flags, joined, estimates, label>>
      BY <1>3 DEF P!Poll
    <2>2. P!AllEstimates' <=> P!AllEstimates
      BY <2>1 DEF P!AllEstimates
    <2> QED
      BY <1>0, <1>1, <1>2, <2>1, <2>2 DEF PowerInv
  <1>4. CASE P!Sample
    <2>1. /\ sampler = "measuring" /\ sampler' = "flag" /\ ~joined
          /\ pending' \in {"real", "estimate"} /\ samples' = Append(samples, pending')
          /\ UNCHANGED <<pc, stop, flags, joined, estimates, label>>
      BY <1>0, <1>4 DEF P!Sample, P!Readings
    <2>2. samples' \in Seq({"real", "estimate"}) /\ samples' = Append(flags', pending')
      <3>1. samples = flags
        BY <2>1 DEF PowerInv
      <3> QED
        BY <1>0, <2>1, <3>1
    <2> QED
      BY <1>0, <1>1, <1>2, <2>1, <2>2 DEF PowerInv
  <1>5. CASE P!Flag
    <2>1. /\ sampler = "flag" /\ sampler' = "loop" /\ ~joined /\ flags' = Append(flags, pending)
          /\ UNCHANGED <<pc, stop, samples, joined, estimates, label>>
      BY <1>0, <1>5 DEF P!Flag
    <2>2. pending \in {"real", "estimate"} /\ samples = Append(flags, pending)
      BY <2>1 DEF PowerInv
    <2>3. flags' \in Seq({"real", "estimate"}) /\ samples' = flags'
      BY <1>0, <2>1, <2>2
    <2> QED
      BY <1>0, <1>1, <1>2, <2>1, <2>3 DEF PowerInv
  <1>6. CASE P!Work
    <2>1. /\ pc = "work" /\ ~joined /\ UNCHANGED <<sampler, pending, samples, flags, joined, estimates, label>>
          /\ pc' \in {"label", "waitThread"} /\ stop' \in BOOLEAN /\ task = "energy"
      BY <1>0, <1>6 DEF PowerInv, P!Work, P!energyVars
    <2>2. /\ task' = "energy" /\ ~joined' /\ (said' => full' = Burners)
          /\ pc' \notin {"probe", "start", "wait", "measure"}
      BY <1>1, <2>1 DEF PowerInv
    <2>3. /\ sampler' = "flag" => pending' \in {"real", "estimate"} /\ samples' = Append(flags', pending')
          /\ sampler' # "flag" => samples' = flags'
          /\ samples' \in Seq({"real", "estimate"}) /\ flags' \in Seq({"real", "estimate"})
      BY <1>0, <2>1 DEF PowerInv
    <2>4. /\ meter' = meter /\ sampler' = sampler /\ burner' = burner /\ estimates' = estimates
      BY <1>1, <2>1
    <2> QED
      BY <2>1, <2>2, <2>3, <2>4 DEF PowerInv
  <1>7. CASE P!JoinThread
    <2>1. /\ pc = "waitThread" /\ pc' = "flags" /\ joined' = (sampler = "ended")
          /\ UNCHANGED <<stop, sampler, pending, samples, flags, estimates, label>> /\ task = "energy"
      BY <1>7 DEF PowerInv, P!JoinThread
    <2> QED
      BY <1>0, <1>1, <1>2, <2>1 DEF PowerInv
  <1>8. CASE P!ReadFlags
    <2>1. /\ pc = "flags" /\ pc' = "label" /\ estimates' = P!AllEstimates
          /\ UNCHANGED <<stop, sampler, pending, samples, flags, joined, label>> /\ task = "energy"
      BY <1>8 DEF PowerInv, P!ReadFlags
    <2>2. P!AllEstimates' <=> P!AllEstimates
      BY <2>1 DEF P!AllEstimates
    <2>3. P!AllEstimates \in BOOLEAN
      BY DEF P!AllEstimates
    <2> QED
      BY <1>0, <1>1, <1>2, <2>1, <2>2, <2>3 DEF PowerInv
  <1>9. CASE P!Label
    <2>1. /\ pc = "label" /\ pc' = "returned" /\ task = "energy"
          /\ UNCHANGED <<stop, sampler, pending, samples, flags, joined, estimates>>
      BY <1>9 DEF PowerInv, P!Label
    <2>2. P!AllEstimates' <=> P!AllEstimates
      BY <2>1 DEF P!AllEstimates
    <2>3. label' = "measured" /\ joined => \E i \in DOMAIN samples : samples[i] = "real"
      <3> SUFFICES ASSUME label' = "measured", joined PROVE \E i \in DOMAIN samples : samples[i] = "real"
        OBVIOUS
      <3>1. meter # "counter" /\ samples = flags /\ (estimates <=> P!AllEstimates)
        BY <1>0, <2>1 DEF PowerInv
      <3>2. ~(samples = <<>> \/ estimates)
        BY <1>9, <3>1 DEF P!Label
      <3>3. flags # <<>> /\ ~(\A i \in DOMAIN flags : flags[i] = "estimate")
        BY <3>1, <3>2 DEF P!AllEstimates
      <3>4. PICK i \in DOMAIN flags : flags[i] # "estimate"
        BY <3>3
      <3>5. flags[i] \in {"real", "estimate"}
        BY <1>0, <3>4
      <3> QED
        BY <3>1, <3>4, <3>5
    <2> QED
      BY <1>0, <1>1, <1>2, <2>1, <2>2, <2>3 DEF PowerInv
  <1> QED
    BY <1>3, <1>4, <1>5, <1>6, <1>7, <1>8, <1>9 DEF P!Energy, P!Sampler

(* A power figure says what it is, for any processes and however slowly    *)
(* they come up, and for any number of readings.                           *)
THEOREM FiguresSayWhatTheyAre == Spec => []PowerSaysWhatItIs
  <1>1. Init => PowerInv
    <2> SUFFICES ASSUME Init PROVE PowerInv
      OBVIOUS
    <2>1. P!Init
      BY DEF Init
    <2>2. burner \in [Burners -> {"new", "starting", "spinning", "ended"}] /\ P!Spinning = {} /\ ready = {}
      BY <2>1 DEF P!Init, P!Spinning
    <2>3. samples = <<>> /\ flags = <<>> /\ samples \in Seq({"real", "estimate"})
      BY <2>1 DEF P!Init
    <2> QED
      BY <2>1, <2>2, <2>3 DEF P!Init, PowerInv
  <1>2. PowerInv /\ [Next]_vars => PowerInv'
    <2>1. ASSUME PowerInv, UNCHANGED powerVars PROVE PowerInv'
      BY <2>1 DEF PowerInv, powerVars, P!Spinning, P!AllEstimates
    <2> QED
      BY <2>1, UnderLoadStep, EnergyStep, PartSteps DEF P!Next
  <1>3. PowerInv => PowerSaysWhatItIs
    BY DEF PowerInv, PowerSaysWhatItIs, P!FullLoadOrSaid, P!EstimateIsSaid
  <1> QED
    BY <1>1, <1>2, <1>3, PTL DEF Spec

-----------------------------------------------------------------------------
\* Engines: an executable that is not older than the source was made of it,
\* or of a later one, and so was the one that a caller is about to run.
EnginesInv ==
    /\ clock \in Nat
    /\ source \in [version : Nat, time : Nat] /\ binary \in [version : Nat, whole : BOOLEAN, time : Nat]
    /\ at \in [Callers -> {"idle", "build", "linking", "run", "answered"}]
    /\ looked \in [Callers -> Nat] /\ ran \in [Callers -> Nat]
    /\ outcome \in [Callers -> {"", "json", "error", "nothing", "raised"}]
    /\ binary.version # 0 /\ binary.time >= source.time => binary.version >= source.version
    /\ \A c \in Callers : looked[c] <= source.version
    /\ \A c \in Callers : at[c] = "run" => binary.version >= looked[c]
    /\ \A c \in Callers : outcome[c] = "json" => at[c] = "answered" /\ ran[c] >= looked[c]

(* What is answered without a run is no figure.                            *)
LEMMA NoFigure ==
    ASSUME EnginesInv, NEW c \in Callers, NEW answer \in {"error", "nothing", "raised"}, E!Answer(c, answer),
           UNCHANGED <<clock, source, binary, ran>>,
           \A d \in Callers \ {c} : looked'[d] = looked[d], looked' \in [Callers -> Nat], looked'[c] <= source.version
    PROVE  EnginesInv'
  <1>1. /\ at' = [at EXCEPT ![c] = "answered"] /\ outcome' = [outcome EXCEPT ![c] = answer]
        /\ at \in [Callers -> {"idle", "build", "linking", "run", "answered"}]
        /\ outcome \in [Callers -> {"", "json", "error", "nothing", "raised"}]
    BY DEF EnginesInv, E!Answer
  <1>2. /\ at' \in [Callers -> {"idle", "build", "linking", "run", "answered"}] /\ at'[c] = "answered"
        /\ outcome' \in [Callers -> {"", "json", "error", "nothing", "raised"}] /\ outcome'[c] = answer
        /\ \A d \in Callers \ {c} : at'[d] = at[d] /\ outcome'[d] = outcome[d]
    BY <1>1
  <1> QED
    BY <1>2 DEF EnginesInv

(* Whatever a caller does, the executables stay dated by their sources.    *)
LEMMA CallStep ==
    ASSUME EnginesInv, NEW c \in Callers, E!Call(c)
    PROVE  EnginesInv'
  <1>n. source.version \in Nat /\ source.time \in Nat /\ binary.version \in Nat /\ binary.time \in Nat /\ clock \in Nat
    BY DEF EnginesInv
  <1>v. source.version \in Nat
    BY <1>n
  <1>l. \A d \in Callers : looked[d] <= source.version
    BY DEF EnginesInv
  <1>0. /\ at \in [Callers -> {"idle", "build", "linking", "run", "answered"}]
        /\ looked \in [Callers -> Nat] /\ ran \in [Callers -> Nat]
        /\ outcome \in [Callers -> {"", "json", "error", "nothing", "raised"}]
        /\ E!Failure \in {"error", "nothing"} /\ E!CannotStart \in {"error", "nothing", "raised"}
    BY DEF EnginesInv, E!Failure, E!CannotStart
  <1>1. CASE E!Look(c)
    <2>1. looked' = [looked EXCEPT ![c] = source.version] /\ at[c] = "idle" /\ UNCHANGED <<clock, source, binary, ran>>
      BY <1>1 DEF E!Look, E!files
    <2>2. /\ looked' \in [Callers -> Nat] /\ looked'[c] = source.version
          /\ \A d \in Callers \ {c} : looked'[d] = looked[d]
      BY <1>0, <1>v, <2>1
    <2>e. looked'[c] <= source.version
      <3>1. looked'[c] = source.version
        BY <2>2
      <3> QED
        BY <1>v, <3>1
    <2>3. CASE source.version = 0
      <3>1. PICK answer \in {"error", "nothing"} : E!Answer(c, answer)
        BY <1>1, <2>3 DEF E!Look
      <3> QED
        BY <2>1, <2>2, <2>e, <3>1, NoFigure
    <2>4. CASE source.version # 0
      <3>1. at' = [at EXCEPT ![c] = IF E!Stale THEN "build" ELSE "run"] /\ outcome' = outcome
        BY <1>1, <2>4 DEF E!Look
      <3>2. /\ at' \in [Callers -> {"idle", "build", "linking", "run", "answered"}] /\ at'[c] # "answered"
            /\ \A d \in Callers \ {c} : at'[d] = at[d]
            /\ at'[c] = "run" => ~E!Stale
        BY <1>0, <3>1
      <3>3. at'[c] = "run" => binary.version >= looked'[c]
        <4> SUFFICES ASSUME at'[c] = "run" PROVE binary.version >= looked'[c]
          OBVIOUS
        <4>1. binary.version # 0 /\ ~(binary.time < source.time)
          BY <3>2 DEF E!Stale
        <4>2. binary.time >= source.time
          BY <1>n, <4>1
        <4>3. binary.version >= source.version
          BY <4>1, <4>2 DEF EnginesInv
        <4>4. looked'[c] = source.version
          BY <2>2
        <4> QED
          BY <4>3, <4>4
      <3>4. outcome[c] # "json"
        BY <2>1 DEF EnginesInv
      <3> QED
        BY <2>1, <2>2, <2>e, <3>1, <3>2, <3>3, <3>4 DEF EnginesInv
    <2> QED
      BY <2>3, <2>4
  <1>2. CASE E!Rejects(c) \/ E!CompilerKilled(c)
    <2>1. /\ at' = [at EXCEPT ![c] = "build"] /\ at[c] \in {"build", "linking"}
          /\ UNCHANGED <<clock, source, binary, looked, ran, outcome>>
      BY <1>2 DEF E!Rejects, E!CompilerKilled, E!NextCompiler, E!files, E!answers
    <2>2. /\ at' \in [Callers -> {"idle", "build", "linking", "run", "answered"}] /\ at'[c] = "build"
          /\ \A d \in Callers \ {c} : at'[d] = at[d]
      BY <1>0, <2>1
    <2> QED
      BY <2>1, <2>2 DEF EnginesInv
  <1>3. CASE E!Compiles(c) \/ E!Links(c)
    <2>1. PICK whole \in BOOLEAN, next \in {"linking", "run"} :
              /\ at' = [at EXCEPT ![c] = next] /\ at[c] \in {"build", "linking"}
              /\ binary' = [version |-> source.version, whole |-> whole, time |-> clock]
              /\ UNCHANGED <<clock, source, looked, ran, outcome>>
      BY <1>3 DEF E!Compiles, E!Links, E!answers
    <2>2. /\ at' \in [Callers -> {"idle", "build", "linking", "run", "answered"}] /\ at'[c] = next
          /\ \A d \in Callers \ {c} : at'[d] = at[d]
      BY <1>0, <2>1
    <2>3. binary' \in [version : Nat, whole : BOOLEAN, time : Nat] /\ binary'.version = source.version
      BY <1>n, <2>1
    <2>4. \A d \in Callers : binary'.version >= looked'[d]
      <3> TAKE d \in Callers
      <3>1. looked'[d] <= source.version /\ looked'[d] \in Nat /\ binary'.version = source.version
        BY <1>0, <1>l, <2>1, <2>3
      <3> QED
        BY <1>v, <3>1
    <2>5. binary'.version >= source'.version
      <3>1. binary'.version = source.version /\ source'.version = source.version
        BY <2>1, <2>3
      <3> QED
        BY <1>v, <3>1
    <2> QED
      BY <2>1, <2>2, <2>3, <2>4, <2>5 DEF EnginesInv
  <1>4. CASE E!NoneLeft(c)
    <2>1. E!Answer(c, E!Failure) /\ UNCHANGED <<clock, source, binary, looked, ran>>
      BY <1>4 DEF E!NoneLeft, E!files
    <2>2. looked'[c] <= source.version
      BY <2>1 DEF EnginesInv
    <2> QED
      BY <1>0, <2>1, <2>2, NoFigure
  <1>5. CASE E!Runs(c)
    <2>1. at[c] = "run" /\ UNCHANGED <<clock, source, binary, looked>>
      BY <1>5 DEF E!Runs, E!files
    <2>2. CASE binary.whole
      <3>1. PICK answer \in {"json", E!Failure} : E!Answer(c, answer)
        BY <1>5, <2>2 DEF E!Runs
      <3>2. ran' = [ran EXCEPT ![c] = binary.version]
        BY <1>5, <2>2 DEF E!Runs
      <3>v. binary.version \in Nat
        BY <1>n
      <3>5. ran' \in [Callers -> Nat] /\ ran'[c] = binary.version /\ \A d \in Callers \ {c} : ran'[d] = ran[d]
        BY <1>0, <3>v, <3>2
      <3>3. /\ at' \in [Callers -> {"idle", "build", "linking", "run", "answered"}] /\ at'[c] = "answered"
            /\ outcome' \in [Callers -> {"", "json", "error", "nothing", "raised"}]
            /\ \A d \in Callers \ {c} : at'[d] = at[d] /\ outcome'[d] = outcome[d]
        BY <1>0, <3>1 DEF E!Answer
      <3>4. ran'[c] >= looked'[c]
        BY <2>1, <3>5 DEF EnginesInv
      <3> QED
        BY <2>1, <3>3, <3>4, <3>5 DEF EnginesInv
    <2>3. CASE ~binary.whole
      <3>1. E!Answer(c, E!CannotStart) /\ ran' = ran
        BY <1>5, <2>3 DEF E!Runs
      <3>2. looked'[c] <= source.version
        BY <2>1 DEF EnginesInv
      <3> QED
        BY <1>0, <2>1, <3>1, <3>2, NoFigure
    <2> QED
      BY <2>2, <2>3
  <1>6. CASE E!Again(c)
    <2>1. /\ at' = [at EXCEPT ![c] = "idle"] /\ looked' = [looked EXCEPT ![c] = 0]
          /\ ran' = [ran EXCEPT ![c] = 0] /\ outcome' = [outcome EXCEPT ![c] = ""]
          /\ UNCHANGED <<clock, source, binary>>
      BY <1>6 DEF E!Again, E!files
    <2>2. /\ at' \in [Callers -> {"idle", "build", "linking", "run", "answered"}] /\ at'[c] = "idle"
          /\ looked' \in [Callers -> Nat] /\ looked'[c] = 0 /\ ran' \in [Callers -> Nat]
          /\ outcome' \in [Callers -> {"", "json", "error", "nothing", "raised"}] /\ outcome'[c] = ""
      BY <1>0, <2>1
    <2>3. \A d \in Callers \ {c} : at'[d] = at[d] /\ looked'[d] = looked[d] /\ ran'[d] = ran[d] /\ outcome'[d] = outcome[d]
      BY <1>0, <2>1
    <2>4. looked'[c] <= source'.version
      <3>1. looked'[c] = 0 /\ source'.version = source.version
        BY <2>1, <2>2
      <3> QED
        BY <1>v, <3>1
    <2> QED
      BY <2>1, <2>2, <2>3, <2>4 DEF EnginesInv
  <1> QED
    BY <1>1, <1>2, <1>3, <1>4, <1>5, <1>6 DEF E!Call

(* Figures come from an engine of the source as its caller found it, or of *)
(* a later one, for any number of callers and any number of edits.         *)
LEMMA EnginesAreOfTheSource == Spec => []E!NoFiguresOfAnOldEngine
  <1>1. Init => EnginesInv
    <2> SUFFICES ASSUME Init PROVE EnginesInv
      OBVIOUS
    <2>1. E!Init
      BY DEF Init
    <2>2. PICK v \in {0, 1} : source = [version |-> v, time |-> 0]
      BY <2>1 DEF E!Init
    <2>3. source \in [version : Nat, time : Nat] /\ source.version \in {0, 1}
      BY <2>2
    <2>4. binary = [version |-> 0, whole |-> FALSE, time |-> 0] \/ binary = [version |-> 1, whole |-> TRUE, time |-> 0]
      BY <2>1 DEF E!Init, E!None
    <2>5. binary \in [version : Nat, whole : BOOLEAN, time : Nat] /\ binary.version \in {0, 1}
      <3>1. ASSUME NEW n \in Nat, NEW b \in BOOLEAN, binary = [version |-> n, whole |-> b, time |-> 0], n \in {0, 1}
            PROVE  binary \in [version : Nat, whole : BOOLEAN, time : Nat] /\ binary.version \in {0, 1}
        BY <3>1
      <3> QED
        BY <2>4, <3>1
    <2>6. binary.version # 0 => binary.version >= source.version
      BY <2>3, <2>5
    <2>7. \A c \in Callers : looked[c] <= source.version /\ at[c] # "run" /\ outcome[c] # "json"
      <3> TAKE c \in Callers
      <3>1. looked[c] = 0 /\ at[c] = "idle" /\ outcome[c] = ""
        BY <2>1 DEF E!Init
      <3>2. source.version \in Nat
        BY <2>3
      <3>3. looked[c] <= source.version
        <4>1. looked[c] = 0
          BY <3>1
        <4> QED
          BY <3>2, <4>1
      <3> QED
        BY <3>1, <3>3
    <2>8. /\ clock = 0 /\ at \in [Callers -> {"idle", "build", "linking", "run", "answered"}]
          /\ looked \in [Callers -> Nat] /\ ran \in [Callers -> Nat]
          /\ outcome \in [Callers -> {"", "json", "error", "nothing", "raised"}]
      BY <2>1 DEF E!Init
    <2>9. clock \in Nat
      BY <2>8
    <2>10. /\ \A c \in Callers : looked[c] <= source.version
           /\ \A c \in Callers : at[c] = "run" => binary.version >= looked[c]
           /\ \A c \in Callers : outcome[c] = "json" => at[c] = "answered" /\ ran[c] >= looked[c]
      BY <2>7
    <2>11. binary.version # 0 /\ binary.time >= source.time => binary.version >= source.version
      BY <2>6
    <2> QED
      BY <2>3, <2>5, <2>8, <2>9, <2>10, <2>11 DEF EnginesInv
  <1>2. EnginesInv /\ [Next]_vars => EnginesInv'
    <2>1. ASSUME EnginesInv, UNCHANGED enginesVars PROVE EnginesInv'
      BY <2>1 DEF EnginesInv, enginesVars
    <2>2. ASSUME EnginesInv, E!Tick PROVE EnginesInv'
      <3>1. clock' = clock + 1 /\ UNCHANGED <<source, binary, at, looked, ran, outcome>>
        BY <2>2 DEF E!Tick, E!answers
      <3>0. clock \in Nat
        BY <2>2 DEF EnginesInv
      <3>2. clock' \in Nat
        BY <3>0, <3>1
      <3> QED
        BY <2>2, <3>1, <3>2 DEF EnginesInv
    <2>3. ASSUME EnginesInv, E!Edit PROVE EnginesInv'
      <3>1. /\ source' = [version |-> source.version + 1, time |-> clock] /\ clock > binary.time
            /\ UNCHANGED <<clock, binary, at, looked, ran, outcome>>
        BY <2>3 DEF E!Edit, E!answers
      <3>0. binary.time \in Nat /\ clock \in Nat /\ source.version \in Nat
        BY <2>3 DEF EnginesInv
      <3>2. source' \in [version : Nat, time : Nat] /\ source'.version = source.version + 1 /\ source'.time = clock
        BY <3>0, <3>1
      <3>3. \A c \in Callers : looked'[c] <= source'.version
        <4> TAKE c \in Callers
        <4>1. looked'[c] <= source.version /\ looked'[c] \in Nat /\ source.version \in Nat
          BY <2>3, <3>1 DEF EnginesInv
        <4>2. source'.version = source.version + 1
          BY <3>2
        <4> QED
          BY <4>1, <4>2
      <3>4. ~(binary'.time >= source'.time)
        <4>1. binary'.time = binary.time /\ source'.time = clock /\ clock > binary.time
          BY <3>1, <3>2
        <4> QED
          BY <3>0, <4>1
      <3> QED
        BY <2>3, <3>1, <3>2, <3>3, <3>4 DEF EnginesInv
    <2> QED
      BY <2>1, <2>2, <2>3, CallStep, PartSteps DEF E!Next
  <1>3. EnginesInv => E!NoFiguresOfAnOldEngine
    BY DEF EnginesInv, E!NoFiguresOfAnOldEngine
  <1> QED
    BY <1>1, <1>2, <1>3, PTL DEF Spec

-----------------------------------------------------------------------------
\* Accelerators: what is timed is timed in order, and nothing is scored
\* before everything was.
Kinds == {"accelerates", "falls back", "runs on the CPU", "raises"}

Timings ==
    /\ timed \in Seq(Nat)
    /\ \A i \in DOMAIN timed : i \in DOMAIN (IF half = "gpu" THEN gpus ELSE providers)

GpuInv ==
    /\ turn \in {"start", "devices", "matmul", "over"}
    /\ turn \in {"start", "devices"} => ~available /\ best = 0
    /\ available => Len(timed) = Len(gpus) /\ best = A!SelectBest
    /\ ~available => best = 0
    /\ turn = "over" /\ opencl # "absent" => (matmul # {} <=> torch = "works")

NpuInv ==
    /\ turn \in {"start", "write", "baseline", "providers", "over"}
    /\ turn \in {"start", "write", "baseline"} => timed = <<>>
    /\ \A i \in DOMAIN timed : timed[i] > 0 /\ timed[i] >= ENGAGE => providers[i] = "accelerates"
    /\ turn # "over" => best = 0
    /\ turn = "over" => best = A!First({i \in A!Engaged : \A j \in A!Engaged : timed[j] <= timed[i]})

AcceleratorsInv ==
    /\ half \in {"gpu", "npu"} /\ available \in BOOLEAN
    /\ gpus \in Seq(A!Devices \cup {A!Apple}) /\ providers \in Seq(Kinds)
    /\ (\A i \in DOMAIN gpus : gpus[i] \in A!Devices) \/ (\A i \in DOMAIN gpus : gpus[i] = A!Apple)
    /\ Timings
    /\ half = "gpu" => GpuInv
    /\ half = "npu" => NpuInv

(* The first of some positions is one of them.                             *)
LEMMA FirstIsOne ==
    ASSUME NEW K \in SUBSET (Nat \ {0})
    PROVE  /\ K = {} => A!First(K) = 0
           /\ K # {} => A!First(K) \in K /\ A!First(K) # 0
  <1>1. CASE K = {}
    BY <1>1 DEF A!First
  <1>2. CASE K # {}
    <2>1. \E n \in K : \A m \in K : n <= m
      BY <1>2, LeastNumber
    <2>2. A!First(K) \in K
      BY <1>2, <2>1 DEF A!First, A!Min
    <2> QED
      BY <1>2, <2>2
  <1> QED
    BY <1>1, <1>2

(* Among some of what was timed there is a fastest.                        *)
LEMMA FastestOf ==
    ASSUME timed \in Seq(Nat), NEW K \in SUBSET DOMAIN timed, K # {}
    PROVE  \E i \in K : \A j \in K : timed[j] <= timed[i]
  <1>1. IsFiniteSet(K)
    <2>1. IsFiniteSet(1 .. Len(timed)) /\ DOMAIN timed = 1 .. Len(timed)
      BY FS_Interval
    <2> QED
      BY <2>1, FS_Subset
  <1> DEFINE T == {timed[i] : i \in K}
  <1>2. T \in SUBSET Nat /\ T # {}
    OBVIOUS
  <1>3. IsFiniteSet(T)
    <2> DEFINE speed == [i \in K |-> timed[i]]
    <2>1. speed \in Surjection(K, T)
      BY DEF Surjection
    <2> QED
      BY <1>1, <2>1, FS_Surjection
  <1>4. Max(T) \in T /\ \A n \in T : n <= Max(T)
    BY <1>2, <1>3, Greatest
  <1>5. PICK i \in K : timed[i] = Max(T)
    BY <1>4
  <1>6. \A j \in K : timed[j] \in T
    OBVIOUS
  <1> QED
    BY <1>4, <1>5, <1>6

(* The class of a device is one of three, and of a device whose name does  *)
(* not mislead it is the first where it has memory of its own.             *)
LEMMA RankOfPlain ==
    ASSUME NEW d \in A!Devices \cup {A!Apple}
    PROVE  /\ A!Rank(d) \in {0, 1, 2}
           /\ d \in A!Devices /\ A!Plain(d) => (A!Rank(d) = 0 <=> A!IsGpu(d) /\ ~d.shares)
  <1>1. d.name \in {"discrete", "integrated", "plain", "cpu", "apple"} /\ d.shares \in BOOLEAN /\ d.reported \in BOOLEAN
    <2>1. CASE d \in [name : {"discrete", "integrated", "plain"}, shares : BOOLEAN, reported : BOOLEAN]
      BY <2>1
    <2>2. CASE d = [name |-> "cpu", shares |-> TRUE, reported |-> TRUE]
      BY <2>2
    <2>3. CASE d = [name |-> "apple", shares |-> TRUE, reported |-> TRUE]
      BY <2>3
    <2> QED
      BY <2>1, <2>2, <2>3 DEF A!Devices, A!Apple
  <1>2. d \in A!Devices => d.name # "apple" /\ (d.name = "cpu" => d.shares)
    BY DEF A!Devices
  <1>3. A!Class(d) \in {"discrete", "integrated", "unknown"}
    BY <1>1 DEF A!Class
  <1>4. A!Rank(d) \in {0, 1, 2} /\ (A!Rank(d) = 0 <=> A!Class(d) = "discrete")
    BY <1>3 DEF A!Rank
  <1>5. ASSUME d \in A!Devices, A!Plain(d) PROVE A!Class(d) = "discrete" <=> A!IsGpu(d) /\ ~d.shares
    BY <1>1, <1>2, <1>5 DEF A!Class, A!Plain, A!IsGpu
  <1> QED
    BY <1>4, <1>5

(* What select_best takes, where something was measured.                   *)
LEMMA BestIsFound ==
    ASSUME AcceleratorsInv, half = "gpu", available
    PROVE  /\ best = 0 <=> A!Usable = {}
           /\ best # 0 => /\ best \in A!Usable
                          /\ \A j \in A!Usable : \/ A!Rank(gpus[best]) < A!Rank(gpus[j])
                                                 \/ A!Rank(gpus[best]) = A!Rank(gpus[j]) /\ timed[best] >= timed[j]
  <1> DEFINE Better(i, j) == \/ A!Rank(gpus[i]) < A!Rank(gpus[j])
                             \/ A!Rank(gpus[i]) = A!Rank(gpus[j]) /\ timed[i] >= timed[j]
             K == {i \in A!Usable : \A j \in A!Usable : Better(i, j)}
  <1>1. /\ timed \in Seq(Nat) /\ A!Usable \subseteq DOMAIN timed /\ A!Usable \subseteq Nat \ {0}
        /\ \A i \in A!Usable : timed[i] \in Nat /\ A!Rank(gpus[i]) \in {0, 1, 2}
    <2>0. timed \in Seq(Nat)
      BY DEF AcceleratorsInv, Timings
    <2>1. timed \in Seq(Nat) /\ A!Usable \subseteq DOMAIN timed /\ DOMAIN timed = 1 .. Len(timed)
      BY <2>0 DEF A!Usable
    <2>2. \A i \in A!Usable : gpus[i] \in A!Devices \cup {A!Apple}
      BY <2>1 DEF AcceleratorsInv, Timings
    <2> QED
      BY <2>1, <2>2, RankOfPlain
  <1>2. A!SelectBest = A!First(K)
    BY DEF A!SelectBest
  <1>3. A!Usable # {} => K # {}
    <2> SUFFICES ASSUME A!Usable # {} PROVE K # {}
      OBVIOUS
    <2> DEFINE R == {A!Rank(gpus[i]) : i \in A!Usable}
    <2>1. R \in SUBSET Nat /\ R # {}
      BY <1>1
    <2>2. PICK r \in R : \A m \in R : r <= m
      BY <2>1, LeastNumber
    <2> DEFINE U == {i \in A!Usable : A!Rank(gpus[i]) = r}
    <2>3. U \in SUBSET DOMAIN timed /\ U # {} /\ U \subseteq A!Usable
      BY <1>1, <2>2
    <2>4. PICK i \in U : \A j \in U : timed[j] <= timed[i]
      BY <1>1, <2>3, FastestOf
    <2>5. ASSUME NEW j \in A!Usable PROVE Better(i, j)
      <3>1. A!Rank(gpus[j]) \in R /\ A!Rank(gpus[i]) = r /\ r \in Nat /\ A!Rank(gpus[j]) \in Nat
        BY <2>1, <2>2, <2>4, <1>1
      <3>2. r <= A!Rank(gpus[j])
        BY <2>2, <3>1
      <3>3. CASE A!Rank(gpus[j]) = r
        <4>1. timed[j] <= timed[i] /\ timed[i] \in Nat /\ timed[j] \in Nat
          BY <1>1, <2>3, <2>4, <3>3
        <4> QED
          BY <3>1, <3>3, <4>1
      <3>4. CASE A!Rank(gpus[j]) # r
        BY <3>1, <3>2, <3>4
      <3> QED
        BY <3>3, <3>4
    <2> QED
      BY <2>3, <2>4, <2>5
  <1>4. K \in SUBSET (Nat \ {0}) /\ (A!Usable = {} => K = {})
    BY <1>1
  <1>5. best = A!First(K)
    BY <1>2 DEF AcceleratorsInv, GpuInv
  <1>6. best = 0 <=> K = {}
    BY <1>4, <1>5, FirstIsOne
  <1>7. best # 0 => best \in K
    BY <1>4, <1>5, FirstIsOne
  <1> QED
    BY <1>3, <1>4, <1>6, <1>7

(* The choice depends on the devices and on what was timed.                *)
LEMMA SameBest ==
    ASSUME timed' = timed, gpus' = gpus
    PROVE  A!SelectBest' = A!SelectBest
  BY DEF A!SelectBest, A!Usable, A!First, A!Rank, A!Class

(* Every step of the GPU section keeps the timings and the choice.         *)
LEMMA GpuStep ==
    ASSUME AcceleratorsInv, half = "gpu", A!Next
    PROVE  AcceleratorsInv'
  <1>0. /\ GpuInv /\ Timings /\ available \in BOOLEAN /\ timed \in Seq(Nat) /\ gpus \in Seq(A!Devices \cup {A!Apple})
        /\ \A i \in DOMAIN timed : i \in DOMAIN gpus
    BY DEF AcceleratorsInv, Timings
  <1>1. UNCHANGED <<half, opencl, torch, gpus, providers>>
    BY DEF A!Next, A!StartGpu, A!MeasureDevice, A!EnumerationFails, A!DevicesOver, A!Matmul, A!StartNpu, A!WriteModel,
           A!OtherRun, A!Baseline, A!BenchProvider, A!ProvidersOver, A!machine
  <1> SUFFICES Timings' /\ GpuInv' /\ available' \in BOOLEAN
    <2>1. half' = half /\ gpus' = gpus /\ providers' = providers
      BY <1>1
    <2>2. half' # "npu"
      BY <2>1
    <2>3. A!Devices' = A!Devices /\ A!Apple' = A!Apple
      BY DEF A!Devices, A!Apple
    <2> QED
      BY <2>1, <2>2, <2>3 DEF AcceleratorsInv
  <1>2. CASE A!StartGpu
    <2>1. UNCHANGED <<timed, available, best, matmul>> /\ turn = "start" /\ turn' \in {"over", "matmul", "devices"}
      BY <1>2 DEF A!StartGpu, A!Guarded
    <2>2. turn' = "over" => opencl = "absent"
      BY <1>2 DEF A!StartGpu, A!Guarded
    <2>3. ~available' /\ best' = 0 /\ available' = available
      BY <1>0, <2>1 DEF GpuInv
    <2> QED
      BY <1>0, <1>1, <2>1, <2>2, <2>3 DEF GpuInv, Timings
  <1>3. CASE A!MeasureDevice
    <2>1. /\ turn = "devices" /\ Len(timed) < Len(gpus) /\ UNCHANGED <<turn, available, best, matmul>>
          /\ \E s \in Speeds \cup {0} : timed' = Append(timed, s)
      BY <1>3 DEF A!MeasureDevice
    <2>2. PICK s \in Nat : timed' = Append(timed, s)
      BY <2>1, Bounds
    <2>3. timed' \in Seq(Nat) /\ \A i \in DOMAIN timed' : i \in DOMAIN gpus
      BY <1>0, <2>1, <2>2
    <2>4. ~available' /\ best' = 0
      BY <1>0, <2>1 DEF GpuInv
    <2> QED
      BY <1>0, <1>1, <2>1, <2>3, <2>4 DEF GpuInv, Timings
  <1>4. CASE A!EnumerationFails
    <2>1. turn = "devices" /\ timed' = <<>> /\ turn' = "matmul" /\ UNCHANGED <<available, best, matmul>>
      BY <1>4 DEF A!EnumerationFails
    <2>2. ~available' /\ best' = 0
      BY <1>0, <2>1 DEF GpuInv
    <2> QED
      BY <1>0, <1>1, <2>1, <2>2 DEF GpuInv, Timings
  <1>5. CASE A!DevicesOver
    <2>1. /\ Len(timed) = Len(gpus) /\ available' = TRUE /\ best' = A!SelectBest /\ turn' = "matmul"
          /\ UNCHANGED <<timed, matmul>>
      BY <1>5 DEF A!DevicesOver
    <2>2. A!SelectBest' = A!SelectBest
      BY <1>1, <2>1, SameBest
    <2> QED
      BY <1>0, <1>1, <2>1, <2>2 DEF GpuInv, Timings
  <1>6. CASE A!Matmul
    <2>1. /\ turn = "matmul" /\ turn' = "over" /\ UNCHANGED <<timed, available, best>>
          /\ matmul' \in IF torch = "works" THEN (SUBSET {"fp32", "fp16"}) \ {{}} ELSE {{}}
      BY <1>6 DEF A!Matmul
    <2>2. matmul' # {} <=> torch = "works"
      BY <2>1
    <2>3. A!SelectBest' = A!SelectBest
      BY <1>1, <2>1, SameBest
    <2> QED
      BY <1>0, <1>1, <2>1, <2>2, <2>3 DEF GpuInv, Timings
  <1>7. CASE A!OtherRun
    <2>1. UNCHANGED <<turn, timed, available, best, matmul>>
      BY <1>7 DEF A!OtherRun
    <2>2. A!SelectBest' = A!SelectBest
      BY <1>1, <2>1, SameBest
    <2> QED
      BY <1>0, <1>1, <2>1, <2>2 DEF GpuInv, Timings
  <1> QED
    BY <1>0, <1>2, <1>3, <1>4, <1>5, <1>6, <1>7
    DEF GpuInv, A!Next, A!StartNpu, A!WriteModel, A!Baseline, A!BenchProvider, A!ProvidersOver

(* Every step of the NPU section keeps the timings and the choice.         *)
LEMMA NpuStep ==
    ASSUME AcceleratorsInv, half = "npu", A!Next
    PROVE  AcceleratorsInv'
  <1> DEFINE Top == A!First({i \in A!Engaged : \A j \in A!Engaged : timed[j] <= timed[i]})
  <1>0. /\ NpuInv /\ Timings /\ available \in BOOLEAN /\ timed \in Seq(Nat)
        /\ providers \in Seq(Kinds)
        /\ \A i \in DOMAIN timed : i \in DOMAIN providers
    BY DEF AcceleratorsInv, Timings
  <1>1. UNCHANGED <<half, opencl, torch, gpus, providers>>
    BY DEF A!Next, A!StartGpu, A!MeasureDevice, A!EnumerationFails, A!DevicesOver, A!Matmul, A!StartNpu, A!WriteModel,
           A!OtherRun, A!Baseline, A!BenchProvider, A!ProvidersOver, A!machine
  <1> SUFFICES Timings' /\ NpuInv' /\ available' \in BOOLEAN
    <2>1. half' = half /\ gpus' = gpus /\ providers' = providers
      BY <1>1
    <2>2. half' # "gpu"
      BY <2>1
    <2>3. A!Devices' = A!Devices /\ A!Apple' = A!Apple
      BY DEF A!Devices, A!Apple
    <2> QED
      BY <2>1, <2>2, <2>3 DEF AcceleratorsInv
  <1>2. ASSUME timed' = timed PROVE Top' = Top /\ Timings'
    BY <1>0, <1>1, <1>2 DEF Timings, A!Engaged, A!Usable, A!First
  <1>3. timed = <<>> => Top = 0
    <2> SUFFICES ASSUME timed = <<>> PROVE Top = 0
      OBVIOUS
    <2>1. A!Engaged = {}
      BY DEF A!Engaged, A!Usable
    <2>2. {i \in A!Engaged : \A j \in A!Engaged : timed[j] <= timed[i]} = {}
      BY <2>1
    <2> QED
      BY <2>2 DEF A!First
  <1> HIDE DEF Top
  <1>4. CASE A!StartNpu \/ A!WriteModel \/ A!Baseline
    <2>1. /\ turn \in {"start", "write", "baseline"} /\ turn' \in {"write", "baseline", "providers", "over"}
          /\ timed' = timed /\ best' = best /\ available' \in {available, TRUE}
      BY <1>4 DEF A!StartNpu, A!WriteModel, A!Baseline
    <2>2. timed' = <<>> /\ best' = 0 /\ Top' = 0
      BY <1>0, <1>2, <1>3, <2>1 DEF NpuInv
    <2>3. Timings'
      BY <1>2, <2>1
    <2> QED
      BY <1>0, <1>1, <2>1, <2>2, <2>3 DEF NpuInv, Top
  <1>5. CASE A!BenchProvider
    <2>1. /\ turn = "providers" /\ Len(timed) < Len(providers) /\ UNCHANGED <<turn, available, best>>
          /\ \E s \in A!Timed(providers[Len(timed) + 1]) : timed' = Append(timed, s)
      BY <1>5 DEF A!BenchProvider
    <2>2. PICK s \in A!Timed(providers[Len(timed) + 1]) : timed' = Append(timed, s)
      BY <2>1
    <2>3. /\ Len(timed) \in Nat /\ Len(timed) + 1 \in DOMAIN providers
          /\ providers[Len(timed) + 1] \in Kinds
      <3>0. timed \in Seq(Nat)
        BY <1>0
      <3>p. providers \in Seq(Kinds)
        BY <1>0
      <3>1. Len(timed) \in Nat
        BY <3>0
      <3>2. Len(providers) \in Nat /\ DOMAIN providers = 1 .. Len(providers)
        BY <3>p
      <3>3. Len(timed) + 1 \in DOMAIN providers
        BY <2>1, <3>1, <3>2
      <3>4. providers[Len(timed) + 1] \in Kinds
        BY <3>p, <3>3
      <3> QED
        BY <3>1, <3>3, <3>4
    <2>4. s \in Nat /\ (s > 0 /\ s >= ENGAGE => providers[Len(timed) + 1] = "accelerates")
      <3>1. CASE s = 0
        BY <3>1
      <3>2. CASE providers[Len(timed) + 1] = "runs on the CPU" /\ s \in Noise
        <4>1. s \in Nat /\ ENGAGE \in Nat /\ s < ENGAGE
          BY <3>2, Bounds
        <4> QED
          BY <4>1
      <3>3. CASE providers[Len(timed) + 1] = "accelerates" /\ s \in Speeds
        BY <3>3, Bounds
      <3> QED
        BY <2>2, <2>3, <3>1, <3>2, <3>3 DEF A!Timed, Kinds
    <2>5. /\ timed' \in Seq(Nat) /\ Len(timed') = Len(timed) + 1 /\ timed'[Len(timed) + 1] = s
          /\ \A i \in DOMAIN timed : timed'[i] = timed[i]
          /\ \A i \in DOMAIN timed' : i \in DOMAIN timed \/ i = Len(timed) + 1
      <3>1. timed \in Seq(Nat) /\ s \in Nat /\ timed' = Append(timed, s)
        BY <1>0, <2>2, <2>4
      <3> QED
        BY <3>1
    <2>6. \A i \in DOMAIN timed' : timed'[i] > 0 /\ timed'[i] >= ENGAGE => providers[i] = "accelerates"
      BY <1>0, <2>4, <2>5 DEF NpuInv
    <2>7. Timings'
      BY <1>0, <1>1, <2>3, <2>5 DEF Timings
    <2> QED
      BY <1>0, <1>1, <2>1, <2>6, <2>7 DEF NpuInv
  <1>6. CASE A!ProvidersOver
    <2>1. /\ turn = "providers" /\ turn' = "over" /\ UNCHANGED <<timed, available>>
          /\ best' = Top
      BY <1>6 DEF A!ProvidersOver, Top
    <2>2. Timings' /\ Top' = Top
      BY <1>2, <2>1
    <2> QED
      BY <1>0, <1>1, <2>1, <2>2 DEF NpuInv, Top
  <1>7. CASE A!OtherRun
    <2>1. UNCHANGED <<turn, timed, available, best, matmul>>
      BY <1>7 DEF A!OtherRun
    <2>2. Timings' /\ Top' = Top
      BY <1>2, <2>1
    <2> QED
      BY <1>0, <1>1, <2>1, <2>2 DEF NpuInv, Top
  <1> QED
    BY <1>0, <1>4, <1>5, <1>6, <1>7
    DEF NpuInv, A!Next, A!StartGpu, A!MeasureDevice, A!EnumerationFails, A!DevicesOver, A!Matmul

(* A list of at most two is a list.                                        *)
LEMMA UpToTwoIsList ==
    ASSUME NEW K, NEW s \in A!UpToTwo(K)
    PROVE  s \in Seq(K) /\ \A i \in DOMAIN s : s[i] \in K
  <1>1. CASE s = <<>>
    BY <1>1
  <1>2. CASE \E x \in K : s = <<x>>
    BY <1>2
  <1>3. CASE s \in K \X K
    <2>1. PICK x \in K, y \in K : s = <<x, y>>
      BY <1>3
    <2> QED
      BY <2>1
  <1> QED
    BY <1>1, <1>2, <1>3 DEF A!UpToTwo

(* Both sections keep their timings and their choice in every behaviour.   *)
LEMMA AcceleratorsHold == Spec => []AcceleratorsInv
  <1>1. Init => AcceleratorsInv
    <2> SUFFICES ASSUME Init PROVE AcceleratorsInv
      OBVIOUS
    <2>1. A!Init
      BY DEF Init
    <2>2. /\ half \in {"gpu", "npu"} /\ turn = "start" /\ timed = <<>> /\ available = FALSE /\ best = 0
          /\ gpus \in A!UpToTwo(A!Devices) \cup {<<A!Apple>>} /\ providers \in A!UpToTwo(Kinds)
      BY <2>1 DEF A!Init, Kinds
    <2>3. /\ gpus \in Seq(A!Devices \cup {A!Apple})
          /\ (\A i \in DOMAIN gpus : gpus[i] \in A!Devices) \/ (\A i \in DOMAIN gpus : gpus[i] = A!Apple)
      <3>1. CASE gpus \in A!UpToTwo(A!Devices)
        <4>1. gpus \in Seq(A!Devices) /\ \A i \in DOMAIN gpus : gpus[i] \in A!Devices
          BY <3>1, UpToTwoIsList
        <4> QED
          BY <4>1
      <3>2. CASE gpus = <<A!Apple>>
        BY <3>2
      <3> QED
        BY <2>2, <3>1, <3>2
    <2>4. providers \in Seq(Kinds)
      BY <2>2, UpToTwoIsList
    <2>5. Timings
      BY <2>2 DEF Timings
    <2>6. GpuInv
      BY <2>2 DEF GpuInv
    <2>7. NpuInv
      <3>1. DOMAIN timed = {}
        BY <2>2
      <3> QED
        BY <2>2, <3>1 DEF NpuInv
    <2> QED
      BY <2>2, <2>3, <2>4, <2>5, <2>6, <2>7 DEF AcceleratorsInv
  <1>2. AcceleratorsInv /\ [Next]_vars => AcceleratorsInv'
    <2>1. ASSUME AcceleratorsInv, UNCHANGED acceleratorsVars PROVE AcceleratorsInv'
      <3>1. UNCHANGED <<half, opencl, torch, gpus, providers, turn, timed, available, best, matmul>>
        BY <2>1 DEF acceleratorsVars
      <3>2. A!SelectBest' = A!SelectBest
        BY <3>1, SameBest
      <3>3. half = "gpu" => GpuInv'
        BY <2>1, <3>1, <3>2 DEF AcceleratorsInv, GpuInv
      <3>4. half = "npu" => NpuInv'
        BY <2>1, <3>1 DEF AcceleratorsInv, NpuInv, A!Engaged, A!Usable, A!First
      <3>5. Timings'
        BY <2>1, <3>1 DEF AcceleratorsInv, Timings
      <3>6. A!Devices' = A!Devices /\ A!Apple' = A!Apple
        BY DEF A!Devices, A!Apple
      <3> QED
        BY <2>1, <3>1, <3>3, <3>4, <3>5, <3>6 DEF AcceleratorsInv
    <2>2. AcceleratorsInv => half \in {"gpu", "npu"}
      BY DEF AcceleratorsInv
    <2> QED
      BY <2>1, <2>2, GpuStep, NpuStep, PartSteps
  <1> QED
    BY <1>1, <1>2, PTL DEF Spec

(* The discrete card is scored where there is one.                         *)
LEMMA Discrete == AcceleratorsInv => A!DiscreteIsScored
  <1> SUFFICES ASSUME AcceleratorsInv, half = "gpu", best # 0, \A i \in DOMAIN gpus : A!Plain(gpus[i])
               PROVE  LET discrete == {i \in A!Usable : A!IsGpu(gpus[i]) /\ ~gpus[i].shares}
                      IN  discrete # {} => best \in discrete /\ \A i \in discrete : timed[i] <= timed[best]
    BY DEF A!DiscreteIsScored
  <1> DEFINE discrete == {i \in A!Usable : A!IsGpu(gpus[i]) /\ ~gpus[i].shares}
  <1>1. available /\ GpuInv /\ Timings /\ timed \in Seq(Nat)
    BY DEF AcceleratorsInv, GpuInv, Timings
  <1>2. /\ best \in A!Usable
        /\ \A j \in A!Usable : \/ A!Rank(gpus[best]) < A!Rank(gpus[j])
                               \/ A!Rank(gpus[best]) = A!Rank(gpus[j]) /\ timed[best] >= timed[j]
    BY <1>1, BestIsFound
  <1>3. \A i \in A!Usable : i \in DOMAIN timed /\ i \in DOMAIN gpus /\ timed[i] \in Nat
    BY <1>1 DEF A!Usable, Timings
  <1>4. CASE \A i \in DOMAIN gpus : gpus[i] = A!Apple
    <2>1. A!Apple.shares = TRUE
      BY DEF A!Apple
    <2>2. discrete = {}
      BY <1>3, <1>4, <2>1
    <2> QED
      BY <2>2
  <1>5. CASE \A i \in DOMAIN gpus : gpus[i] \in A!Devices
    <2>1. \A i \in A!Usable : /\ A!Rank(gpus[i]) \in {0, 1, 2}
                              /\ A!Rank(gpus[i]) = 0 <=> A!IsGpu(gpus[i]) /\ ~gpus[i].shares
      BY <1>3, <1>5, RankOfPlain
    <2>2. ASSUME NEW i \in discrete PROVE best \in discrete /\ timed[i] <= timed[best]
      <3>1. A!Rank(gpus[i]) = 0 /\ A!Rank(gpus[best]) \in {0, 1, 2}
        BY <1>2, <2>1
      <3>2. A!Rank(gpus[best]) = 0 /\ timed[best] >= timed[i]
        BY <1>2, <3>1
      <3>3. timed[best] \in Nat /\ timed[i] \in Nat
        BY <1>2, <1>3
      <3> QED
        BY <1>2, <2>1, <3>2, <3>3
    <2> QED
      BY <2>2
  <1> QED
    BY <1>4, <1>5 DEF AcceleratorsInv

(* What is scored as a neural accelerator is the fastest that ran.         *)
LEMMA Engagement == AcceleratorsInv => A!EngagedRan
  <1> SUFFICES ASSUME AcceleratorsInv, half = "npu", turn = "over"
               PROVE  LET engaged == {i \in A!Usable : providers[i] = "accelerates" /\ timed[i] >= ENGAGE}
                      IN  IF engaged = {} THEN best = 0
                          ELSE best \in engaged /\ \A i \in engaged : timed[i] <= timed[best]
    BY DEF A!EngagedRan
  <1> DEFINE K == {i \in A!Engaged : \A j \in A!Engaged : timed[j] <= timed[i]}
  <1>1. NpuInv /\ timed \in Seq(Nat)
    BY DEF AcceleratorsInv, Timings
  <1>2. best = A!First(K)
    BY <1>1 DEF NpuInv
  <1>3. A!Engaged = {i \in A!Usable : providers[i] = "accelerates" /\ timed[i] >= ENGAGE}
    BY <1>1 DEF NpuInv, A!Engaged, A!Usable
  <1>4. A!Engaged \in SUBSET DOMAIN timed /\ A!Engaged \subseteq Nat \ {0}
    <2>1. A!Engaged \in SUBSET DOMAIN timed
      BY DEF A!Engaged, A!Usable
    <2>2. DOMAIN timed = 1 .. Len(timed)
      BY <1>1
    <2> QED
      BY <2>1, <2>2
  <1>5. A!Engaged # {} => K # {}
    BY <1>1, <1>4, FastestOf
  <1>6. K \in SUBSET (Nat \ {0})
    BY <1>4
  <1>7. CASE A!Engaged = {}
    BY <1>2, <1>3, <1>6, <1>7, FirstIsOne
  <1>8. CASE A!Engaged # {}
    <2>1. best \in K
      BY <1>2, <1>5, <1>6, <1>8, FirstIsOne
    <2> QED
      BY <1>3, <1>8, <2>1
  <1> QED
    BY <1>7, <1>8

(* A figure is of what it names, for any number of callers and edits, any  *)
(* speeds, and any threshold that the CPU stays below.                     *)
THEOREM FiguresNameTheirEngine == Spec => []FiguresAreOfWhatTheyName
  <1>1. AcceleratorsInv => A!DiscreteIsScored /\ A!EngagedRan
    BY Discrete, Engagement
  <1>2. E!NoFiguresOfAnOldEngine /\ A!DiscreteIsScored /\ A!EngagedRan => FiguresAreOfWhatTheyName
    BY DEF FiguresAreOfWhatTheyName
  <1> QED
    BY <1>1, <1>2, EnginesAreOfTheSource, AcceleratorsHold, PTL

-----------------------------------------------------------------------------
\* Installer: what is tried is what was missing, in the order of the tiers.
PackagesInv ==
    /\ tiers \in Seq(DOMAIN I!Tier) /\ here \in BOOLEAN
    /\ stage \in {"start", "ask", "environment", "pip", "result", "system", "done"}
    /\ todo \subseteq I!Places /\ ok \subseteq I!Places /\ failed \subseteq I!Places /\ skipped \subseteq I!Places
    /\ todo \cap I!Tried = {} /\ ok \cap failed = {} /\ ok \cap skipped = {} /\ failed \cap skipped = {}
    /\ stage = "start" => todo = {}
    /\ stage \in {"start", "ask", "environment"} => I!Tried = {}
    /\ stage \in {"system", "result"} => todo = {}
    /\ stage \in {"ask", "environment", "pip", "result"} \/ I!Tried # {} => todo \cup I!Tried = I!MissingFrom(I!AsFound)
    /\ here => \A x \in ok : I!PackageAt(x) \in own
    /\ \A x \in skipped :
          /\ I!PackageAt(x) = "tensorrt_libs" /\ \A y \in todo : I!Before(x, y)
          /\ here => \A y \in ok : I!PackageAt(y) = "onnxruntime" => I!Before(x, y)
    /\ stage = "done" /\ I!Tried # {} => (exit = 4 <=> ok = {})

\* Places are pairs of numbers, and one of two comes before the other.
LEMMA PlacesAreOrdered ==
    ASSUME tiers \in Seq(DOMAIN I!Tier), NEW x \in I!Places, NEW y \in I!Places
    PROVE  x = y \/ I!Before(x, y) \/ I!Before(y, x)
  <1>1. \A z \in I!Places : /\ z[1] \in DOMAIN tiers /\ z[2] \in DOMAIN I!Tier[tiers[z[1]]]
                            /\ z = <<z[1], z[2]>>
    BY DEF I!Places
  <1>2. DOMAIN tiers \subseteq Nat /\ \A k \in DOMAIN tiers : tiers[k] \in DOMAIN I!Tier
    OBVIOUS
  <1>3. \A t \in DOMAIN I!Tier : DOMAIN I!Tier[t] \subseteq Nat
    BY DEF I!Tier
  <1>4. x[1] \in Nat /\ x[2] \in Nat /\ y[1] \in Nat /\ y[2] \in Nat
    BY <1>1, <1>2, <1>3
  <1> QED
    BY <1>1, <1>4 DEF I!Before

\* Nothing has been tried.
LEMMA PackagesInit == Init => PackagesInv
  <1> SUFFICES ASSUME Init PROVE PackagesInv
    OBVIOUS
  <1>1. I!Init
    BY DEF Init
  <1>2. tiers \in Seq(DOMAIN I!Tier)
    BY <1>1, Bounds DEF I!Init
  <1> QED
    BY <1>1, <1>2 DEF I!Init, PackagesInv, I!Tried

\* What was there when the run began does not change, nor what was missing.
LEMMA MissingStays ==
    ASSUME PackagesInv, NEW x \in todo, stage = "pip", UNCHANGED tiers, UNCHANGED nvidia,
           ok' = ok \cup {x}, own' = own \cup {I!PackageAt(x)} \/ own' = own
    PROVE  I!MissingFrom(I!AsFound)' = I!MissingFrom(I!AsFound)
  <1>1. I!PackageAt(x) \notin I!AsFound
    BY DEF PackagesInv, I!MissingFrom
  <1>2. I!AsFound' = I!AsFound
    BY <1>1 DEF I!AsFound, I!PackageAt
  <1>3. \A z : I!PackageAt(z)' = I!PackageAt(z)
    BY DEF I!PackageAt
  <1>4. \A q : I!applies(q)' = I!applies(q)
    BY DEF I!applies
  <1> QED
    BY <1>2 DEF I!MissingFrom, I!Places, I!PackageAt, I!applies

\* One package of pip_install.
LEMMA InstallStep == ASSUME PackagesInv, I!Install PROVE PackagesInv'
  <1>0. /\ stage = "pip" /\ UNCHANGED <<tiers, here, nvidia, stage, exit>>
        /\ tiers \in Seq(DOMAIN I!Tier) /\ here \in BOOLEAN
    BY DEF I!Install, I!args, PackagesInv
  <1>1. PICK x \in todo : (\A y \in todo : ~I!Before(y, x)) /\ (I!Skip(x) \/ I!Succeed(x) \/ I!Fail(x))
    BY DEF I!Install
  <1>2. /\ I!Places' = I!Places /\ (\A z : I!PackageAt(z)' = I!PackageAt(z))
        /\ \A y, z : I!Before(y, z)' = I!Before(y, z)
    BY <1>0 DEF I!Places, I!PackageAt, I!Before
  <1>3. \A y \in todo : y # x => I!Before(x, y)
    BY <1>1, PlacesAreOrdered DEF PackagesInv
  <1>4. todo \cup I!Tried = I!MissingFrom(I!AsFound) /\ x \notin I!Tried
    BY <1>0, <1>1 DEF PackagesInv
  <1>5. CASE I!Skip(x)
    <2>1. /\ skipped' = skipped \cup {x} /\ todo' = todo \ {x} /\ UNCHANGED <<own, ok, failed>>
          /\ ~I!pip_target(I!PackageAt(x))
      BY <1>5 DEF I!Skip
    <2>2. I!MissingFrom(I!AsFound)' = I!MissingFrom(I!AsFound)
      BY <1>0, <2>1 DEF I!MissingFrom, I!AsFound, I!Places, I!PackageAt, I!applies
    <2>3. todo' \cup I!Tried' = I!MissingFrom(I!AsFound)' /\ todo' \cap I!Tried' = {}
      BY <1>4, <2>1, <2>2 DEF I!Tried, PackagesInv
    <2>4. I!PackageAt(x) = "tensorrt_libs" /\ "onnxruntime" \notin own
      BY <1>4, <2>1 DEF I!pip_target, I!MissingFrom, I!Importing
    <2>5. here => \A y \in ok : I!PackageAt(y) # "onnxruntime"
      BY <2>4 DEF PackagesInv
    <2>6. \A z \in skipped' : /\ I!PackageAt(z) = "tensorrt_libs" /\ \A y \in todo' : I!Before(z, y)
                              /\ here => \A y \in ok : I!PackageAt(y) = "onnxruntime" => I!Before(z, y)
      BY <1>3, <2>1, <2>4, <2>5 DEF PackagesInv
    <2>7. ok \cap failed' = {} /\ ok \cap skipped' = {} /\ failed' \cap skipped' = {}
      BY <1>4, <2>1 DEF PackagesInv, I!Tried
    <2> QED
      BY <1>0, <1>1, <1>2, <2>1, <2>3, <2>6, <2>7 DEF PackagesInv
  <1>6. CASE I!Succeed(x)
    <2>1. /\ ok' = ok \cup {x} /\ todo' = todo \ {x} /\ UNCHANGED <<failed, skipped>>
          /\ own' = IF here THEN own \cup {I!PackageAt(x)} ELSE own
      BY <1>6 DEF I!Succeed
    <2>2. I!MissingFrom(I!AsFound)' = I!MissingFrom(I!AsFound)
      BY <1>0, <1>1, <2>1, MissingStays
    <2>3. todo' \cup I!Tried' = I!MissingFrom(I!AsFound)' /\ todo' \cap I!Tried' = {}
      BY <1>4, <2>1, <2>2 DEF I!Tried, PackagesInv
    <2>4. here => \A y \in ok' : I!PackageAt(y) \in own'
      BY <2>1 DEF PackagesInv
    <2>5. \A z \in skipped : /\ I!PackageAt(z) = "tensorrt_libs" /\ \A y \in todo' : I!Before(z, y)
                             /\ here => \A y \in ok' : I!PackageAt(y) = "onnxruntime" => I!Before(z, y)
      BY <1>1, <2>1 DEF PackagesInv
    <2>6. ok' \cap failed = {} /\ ok' \cap skipped = {}
      BY <1>4, <2>1 DEF PackagesInv, I!Tried
    <2> QED
      BY <1>0, <1>1, <1>2, <2>1, <2>3, <2>4, <2>5, <2>6 DEF PackagesInv
  <1>7. CASE I!Fail(x)
    <2>1. failed' = failed \cup {x} /\ todo' = todo \ {x} /\ UNCHANGED <<own, ok, skipped>>
      BY <1>7 DEF I!Fail, I!AfterFailure
    <2>2. I!MissingFrom(I!AsFound)' = I!MissingFrom(I!AsFound)
      BY <1>0, <2>1 DEF I!MissingFrom, I!AsFound, I!Places, I!PackageAt, I!applies
    <2>3. todo' \cup I!Tried' = I!MissingFrom(I!AsFound)' /\ todo' \cap I!Tried' = {}
      BY <1>4, <2>1, <2>2 DEF I!Tried, PackagesInv
    <2>4. ok \cap failed' = {} /\ failed' \cap skipped = {}
      BY <1>4, <2>1 DEF PackagesInv, I!Tried
    <2> QED
      BY <1>0, <1>1, <1>2, <2>1, <2>3, <2>4 DEF PackagesInv
  <1> QED
    BY <1>1, <1>5, <1>6, <1>7

\* What a stage that leaves the packages alone may do.
LEMMA StageStep ==
    ASSUME PackagesInv, UNCHANGED <<tiers, here, nvidia, own, ok, failed, skipped>>,
           stage' \in {"ask", "environment", "pip", "result", "system", "done"},
           todo' \subseteq I!Places, todo' \cap I!Tried = {}, I!Tried # {} => todo' = todo,
           stage' \in {"ask", "environment"} => I!Tried = {},
           stage' \in {"system", "result"} => todo' = {},
           stage' \in {"ask", "environment", "pip", "result"} => todo' \cup I!Tried = I!MissingFrom(I!AsFound),
           stage' = "done" /\ I!Tried # {} => (exit' = 4 <=> ok = {})
    PROVE  PackagesInv'
  <1>1. /\ I!Places' = I!Places /\ (\A z : I!PackageAt(z)' = I!PackageAt(z))
        /\ (\A y, z : I!Before(y, z)' = I!Before(y, z)) /\ I!Tried' = I!Tried
    BY DEF I!Places, I!PackageAt, I!Before, I!Tried
  <1>2. I!MissingFrom(I!AsFound)' = I!MissingFrom(I!AsFound)
    BY DEF I!MissingFrom, I!AsFound, I!Places, I!PackageAt, I!applies
  <1>3. \A x \in skipped : /\ I!PackageAt(x) = "tensorrt_libs" /\ \A y \in todo' : I!Before(x, y)
                           /\ here => \A y \in ok : I!PackageAt(y) = "onnxruntime" => I!Before(x, y)
    BY DEF PackagesInv, I!Tried
  <1>4. /\ tiers \in Seq(DOMAIN I!Tier) /\ here \in BOOLEAN
        /\ ok \subseteq I!Places /\ failed \subseteq I!Places /\ skipped \subseteq I!Places
        /\ ok \cap failed = {} /\ ok \cap skipped = {} /\ failed \cap skipped = {}
        /\ here => \A x \in ok : I!PackageAt(x) \in own
        /\ I!Tried # {} => todo \cup I!Tried = I!MissingFrom(I!AsFound)
    BY DEF PackagesInv
  <1> QED
    BY <1>1, <1>2, <1>3, <1>4 DEF PackagesInv

\* The stages around it.
LEMMA InstallerStep == ASSUME PackagesInv, I!Next PROVE PackagesInv'
  <1>1. CASE I!Install
    BY <1>1, InstallStep
  <1>2. CASE I!Survey
    <2>1. /\ stage = "start" /\ UNCHANGED <<tiers, here, nvidia, own, ok, failed, skipped>>
          /\ stage' \in {"ask", "system", "done"} /\ todo' = IF stage' = "ask" THEN I!Missing ELSE {}
      BY <1>2 DEF I!Survey, I!args, I!Done
    <2>2. I!Tried = {} /\ todo = {}
      BY <2>1 DEF PackagesInv
    <2>3. I!AsFound = own /\ I!Missing = I!MissingFrom(own) /\ I!MissingFrom(own) \subseteq I!Places
      BY <2>2 DEF I!AsFound, I!Tried, I!Missing, I!MissingFrom
    <2> QED
      BY <2>1, <2>2, <2>3, StageStep
  <1>3. CASE I!Ask
    <2>1. /\ stage = "ask" /\ UNCHANGED <<tiers, here, nvidia, own, ok, failed, skipped, todo>>
          /\ stage' \in {"pip", "environment", "done"}
      BY <1>3 DEF I!Ask, I!args, I!Done
    <2> QED
      BY <2>1, StageStep DEF PackagesInv
  <1>4. CASE I!ensure_venv
    <2>1. /\ stage = "environment" /\ UNCHANGED <<tiers, here, nvidia, own, ok, failed, skipped, todo>>
          /\ stage' \in {"pip", "done"}
      BY <1>4 DEF I!ensure_venv, I!args, I!Done
    <2> QED
      BY <2>1, StageStep DEF PackagesInv
  <1>5. CASE I!Result
    <2>1. /\ stage = "pip" /\ todo = {} /\ UNCHANGED <<tiers, here, nvidia, own, ok, failed, skipped, todo>>
          /\ stage' \in {"result", "system"}
      BY <1>5 DEF I!Result, I!args
    <2> QED
      BY <2>1, StageStep DEF PackagesInv
  <1>6. CASE I!system_install
    <2>1. /\ stage = "system" /\ UNCHANGED <<tiers, here, nvidia, own, ok, failed, skipped, todo>>
          /\ IF I!Tried = {} THEN stage' = "done" ELSE stage' = "result"
      BY <1>6 DEF I!system_install, I!args, I!Done
    <2> QED
      BY <2>1, StageStep DEF PackagesInv
  <1>7. CASE I!Exit
    <2>1. /\ stage = "result" /\ UNCHANGED <<tiers, here, nvidia, own, ok, failed, skipped, todo>>
          /\ stage' = "done" /\ exit' = IF ok # {} THEN 0 ELSE 4
      BY <1>7 DEF I!Exit, I!args, I!Done
    <2> QED
      BY <2>1, StageStep DEF PackagesInv
  <1> QED
    BY <1>1, <1>2, <1>3, <1>4, <1>5, <1>6, <1>7 DEF I!Next

\* At the end.
LEMMA PackagesCostThemselves == PackagesInv => I!OneFailureCostsOne
  BY DEF PackagesInv, I!OneFailureCostsOne

-----------------------------------------------------------------------------
(* What fails costs itself: one package of any selection of tiers, one     *)
(* measurement over the internet, one device.                              *)
THEOREM FailuresCostThemselves == Spec => []OneFailureCostsOne
  <1>1. FailuresInv => N!OneFailureCostsOne
    <2> SUFFICES ASSUME FailuresInv, section = "done"
                 PROVE  /\ \A x \in N!Measurements : result[x] = IF x \in broken THEN "error" ELSE "figure"
                        /\ shown = IF {"icmp", "latency"} \subseteq broken THEN "error" ELSE "figure"
      BY DEF N!OneFailureCostsOne
    <2>1. shown = IF {"icmp", "latency"} \subseteq broken THEN "error" ELSE "figure"
      BY DEF FailuresInv
    <2>2. ASSUME NEW x \in N!Measurements PROVE result[x] = IF x \in broken THEN "error" ELSE "figure"
      <3>1. "done" \notin Ahead(x)
        BY DEF Ahead, N!Measurements
      <3>2. result[x] # "none" /\ (x \in broken <=> result[x] = "error") /\ result[x] \in {"none", "figure", "error"}
        BY <3>1 DEF FailuresInv
      <3> QED
        BY <3>2
    <2> QED
      BY <2>1, <2>2
  <1>2. AcceleratorsInv => A!OneFailureCostsOne
    BY BestIsFound DEF AcceleratorsInv, GpuInv, A!OneFailureCostsOne
  <1>3. PackagesInv /\ [Next]_vars => PackagesInv'
    <2>1. ASSUME PackagesInv, UNCHANGED installerVars PROVE PackagesInv'
      BY <2>1 DEF PackagesInv, installerVars, I!Tried, I!AsFound, I!Places, I!Before, I!MissingFrom, I!PackageAt, I!applies
    <2> QED
      BY <2>1, InstallerStep, PartSteps
  <1>4. Spec => []PackagesInv
    BY <1>3, PackagesInit, PTL DEF Spec
  <1>5. I!OneFailureCostsOne /\ N!OneFailureCostsOne /\ A!OneFailureCostsOne => OneFailureCostsOne
    BY DEF OneFailureCostsOne
  <1> QED
    BY <1>1, <1>2, <1>4, <1>5, PackagesCostThemselves, FailuresHold, AcceleratorsHold, PTL

-----------------------------------------------------------------------------
\* Interference: undisturbed, one thread brings the load to one, or down.
TestsInv ==
    /\ cores \in Nat /\ load \in Nat /\ foreign \in Nat /\ before \in Nat /\ disturbed \in BOOLEAN
    /\ test \in F!Tests \cup {"none"}
    /\ test = "cpu_int" /\ ~disturbed => load <= before \/ load <= 1000
    /\ F!BlameNeedsACulprit

(* Every quarter minute and every test keeps undisturbed loads down.       *)
LEMMA TestsStep ==
    ASSUME TestsInv, F!Next
    PROVE  TestsInv'
  <1>0. /\ cores \in Nat /\ load \in Nat /\ foreign \in Nat /\ before \in Nat /\ disturbed \in BOOLEAN
        /\ test \in {"cpu_int", "cpu_multi", "video", "none"}
        /\ flagged \notin {"none", "video"} /\ cores >= 4 => disturbed
    BY DEF TestsInv, F!Tests, F!BlameNeedsACulprit
  <1>1. CASE F!Begin
    <2>1. /\ test' \in F!Tests /\ before' = load /\ disturbed' = FALSE /\ flagged' = "none"
          /\ UNCHANGED <<cores, load, foreign>>
      BY <1>1 DEF F!Begin
    <2>2. load' <= before'
      BY <1>0, <2>1
    <2>3. F!Tests' = F!Tests /\ F!BlameNeedsACulprit'
      BY <2>1 DEF F!Tests, F!BlameNeedsACulprit
    <2> QED
      BY <1>0, <2>1, <2>2, <2>3 DEF TestsInv
  <1>2. CASE F!Quarter
    <2>1. /\ load' = (78 * load + 22 * 1000 * (F!Threads + foreign)) \div 100
          /\ disturbed' = (disturbed \/ foreign > 0) /\ UNCHANGED <<cores, foreign, test, before, flagged>>
      BY <1>2 DEF F!Quarter
    <2>2. F!Threads \in Nat /\ (test = "cpu_int" => F!Threads = 1)
      BY <1>0 DEF F!Threads
    <2>3. load' \in Nat
      <3>1. 78 * load + 22 * 1000 * (F!Threads + foreign) \in Nat
        BY <1>0, <2>2
      <3> QED
        BY <2>1, <3>1
    <2>4. ASSUME test = "cpu_int", ~disturbed' PROVE load' <= before \/ load' <= 1000
      <3>0. ~(foreign > 0) /\ ~disturbed
        BY <2>1, <2>4
      <3>1. foreign = 0 /\ ~disturbed
        BY <1>0, <3>0
      <3>2. load' = (78 * load + 22000) \div 100
        BY <2>1, <2>2, <2>4, <3>1
      <3>4. load <= before \/ load <= 1000
        BY <2>4, <3>1 DEF TestsInv
      <3>5. load \in Nat /\ before \in Nat /\ load' \in Nat
        BY <1>0, <2>3
      <3>6. PICK m \in Nat, n \in Nat, b \in Nat : m = load /\ n = load' /\ b = before
        BY <3>5
      <3>7. m <= b \/ m <= 1000
        BY <3>4, <3>6
      <3>9. n = (78 * m + 22000) \div 100
        BY <3>2, <3>6
      <3>8. n <= b \/ n <= 1000
        BY <3>7, <3>9
      <3> QED
        BY <3>6, <3>8
    <2>5. disturbed' \in BOOLEAN /\ (disturbed => disturbed')
      BY <1>0, <2>1
    <2> QED
      BY <1>0, <2>1, <2>3, <2>4, <2>5 DEF TestsInv, F!Tests, F!BlameNeedsACulprit
  <1>3. CASE F!End(TRUE) \/ F!End(FALSE)
    <2>1. test' = "none" /\ UNCHANGED <<cores, load, foreign, before, disturbed>>
      BY <1>3 DEF F!End
    <2>2. flagged' = "none" \/ (F!Rose /\ flagged' = test)
      BY <1>3 DEF F!End
    <2>3. ASSUME flagged' \notin {"none", "video"}, cores >= 4 PROVE disturbed
      <3>1. load > before + Threshold * cores /\ test = "cpu_int"
        BY <1>0, <2>2, <2>3 DEF F!Rose, F!SELF_PARALLEL_TESTS, F!SaturatingTests
      <3>2. Threshold * cores >= 1000
        <4>1. Threshold \in Nat /\ Threshold >= 250
          BY Bounds
        <4>2. cores \in Nat /\ cores >= 4
          BY <1>0, <2>3
        <4>3. \A m \in Nat, n \in Nat : m >= 250 /\ n >= 4 => m * n >= 250 * 4
          OBVIOUS
        <4>4. Threshold * cores >= 250 * 4
          BY <4>1, <4>2, <4>3
        <4> QED
          BY <4>4
      <3>3. Threshold * cores \in Nat
        BY <1>0, Bounds
      <3>4. ~(load <= before \/ load <= 1000)
        BY <1>0, <3>1, <3>2, <3>3
      <3> QED
        BY <1>0, <3>1, <3>4 DEF TestsInv
    <2> QED
      BY <1>0, <2>1, <2>3 DEF TestsInv, F!BlameNeedsACulprit
  <1>4. CASE F!Foreign
    <2>1. foreign' \in {0, cores} /\ UNCHANGED <<cores, load, test, before, disturbed, flagged>>
      BY <1>4 DEF F!Foreign
    <2> QED
      BY <1>0, <2>1 DEF TestsInv, F!Tests, F!BlameNeedsACulprit
  <1> QED
    BY <1>1, <1>2, <1>3, <1>4 DEF F!Next

(* A test that does not load every core itself is not blamed without a     *)
(* culprit, on any machine of four cores or more and for any threshold of  *)
(* a quarter of a core or more.                                            *)
THEOREM CulpritsAreThere == Spec => []F!BlameNeedsACulprit
  <1>1. Init => TestsInv
    <2> SUFFICES ASSUME Init PROVE TestsInv
      OBVIOUS
    <2>1. F!Init
      BY DEF Init
    <2>2. cores \in Nat
      BY <2>1, Bounds DEF F!Init
    <2> QED
      BY <2>1, <2>2 DEF F!Init, TestsInv, F!BlameNeedsACulprit
  <1>2. TestsInv /\ [Next]_vars => TestsInv'
    <2>1. ASSUME TestsInv, UNCHANGED testsVars PROVE TestsInv'
      BY <2>1 DEF TestsInv, testsVars, F!Tests, F!BlameNeedsACulprit
    <2> QED
      BY <2>1, TestsStep, PartSteps
  <1>3. TestsInv => F!BlameNeedsACulprit
    BY DEF TestsInv
  <1> QED
    BY <1>1, <1>2, <1>3, PTL DEF Spec

-----------------------------------------------------------------------------
\* Cores: what is measured is what each worker adds, and a cause is real.
CoresInv ==
    /\ fast \in Nat \ {0} /\ slow \in Nat /\ smt \in BOOLEAN
    /\ slowRate \in 0 .. 100 /\ lastRate \in 0 .. 100
    /\ physical \in {0, fast + slow} /\ workers \in 1 .. C!Logical
    /\ gains \in Seq(0 .. 100) /\ Len(gains) <= workers /\ \A n \in 1 .. Len(gains) : gains[n] = C!Adds(n)
    /\ C!CauseIsReal

\* Nothing is measured yet.
LEMMA CoresInit == Init => CoresInv
  <1> SUFFICES ASSUME Init PROVE CoresInv
    OBVIOUS
  <1>1. C!Init
    BY DEF Init
  <1>2. fast \in Nat \ {0} /\ slow \in Nat /\ smt \in BOOLEAN
    BY <1>1, Bounds DEF C!Init
  <1>3. slowRate \in 0 .. 100 /\ lastRate \in 0 .. 100
    BY <1>1, Bounds DEF C!Init
  <1> QED
    BY <1>1, <1>2, <1>3 DEF C!Init, CoresInv, C!CauseIsReal

\* What a worker adds is at most a core.
LEMMA AddsIs ==
    ASSUME CoresInv, NEW n \in Nat \ {0}
    PROVE  /\ C!Adds(n) \in 0 .. 100
           /\ C!Adds(1) = 100
           /\ n <= fast /\ n # fast => C!Adds(n) = 100
           /\ n > fast + slow => C!Adds(n) = C!SiblingRate
           /\ C!Lands(n) = "fast" <=> n <= fast
           /\ C!Lands(n) = "slow" <=> n > fast /\ n <= fast + slow
           /\ C!Lands(n) = "sibling" <=> n > fast + slow
           /\ n = fast /\ n > 1 => C!Adds(n) = lastRate
  <1>1. fast \in Nat \ {0} /\ slow \in Nat /\ slowRate \in 0 .. 100 /\ lastRate \in 0 .. 100
    BY DEF CoresInv
  <1> QED
    BY <1>1 DEF C!Adds, C!Lands, C!SiblingRate

\* One more worker.
LEMMA MeasureStep == ASSUME CoresInv, C!Measure PROVE CoresInv'
  <1>1. /\ cause = "unknown" /\ Len(gains) < workers /\ gains' = Append(gains, C!Adds(Len(gains) + 1))
        /\ UNCHANGED <<fast, slow, smt, slowRate, lastRate, physical, workers, cause>>
    BY DEF C!Measure
  <1>2. gains \in Seq(0 .. 100) /\ Len(gains) \in Nat /\ C!Logical \in Nat /\ workers \in 1 .. C!Logical
    BY DEF CoresInv, C!Logical, C!Siblings
  <1>3. C!Adds(Len(gains) + 1) \in 0 .. 100
    BY <1>2, AddsIs
  <1>4. \A n : C!Adds(n)' = C!Adds(n)
    BY <1>1 DEF C!Adds, C!Lands
  <1>5. gains' \in Seq(0 .. 100) /\ Len(gains') = Len(gains) + 1 /\ Len(gains') <= workers'
    BY <1>1, <1>2, <1>3
  <1>6. \A n \in 1 .. Len(gains') : gains'[n] = C!Adds(n)
    BY <1>1, <1>2, <1>3 DEF CoresInv
  <1>7. C!Logical' = C!Logical
    BY <1>1 DEF C!Logical, C!Siblings
  <1>8. C!CauseIsReal'
    BY <1>1 DEF C!CauseIsReal
  <1> QED
    BY <1>1, <1>4, <1>5, <1>6, <1>7, <1>8 DEF CoresInv

\* The elements of a sequence.
LEMMA Elements == ASSUME NEW D, NEW q \in Seq(D) PROVE \A n \in 1 .. Len(q) : q[n] \in D
  OBVIOUS

\* The groups, when all is measured.
LEMMA GroupsAre ==
    ASSUME CoresInv
    PROVE  /\ DOMAIN gains = 1 .. Len(gains) /\ Len(gains) \in Nat
           /\ \A n \in 1 .. Len(gains) : gains[n] = C!Adds(n) /\ gains[n] \in 0 .. 100
           /\ Len(gains) > 0 => \A g \in 0 .. 100 : C!LinearGain(g) <=> g >= LinearPercent
           /\ C!TheFast \cap C!TheSlow = {} /\ C!TheFast \cup C!TheSlow = 1 .. Len(gains)
           /\ C!TheFast \subseteq 1 .. Len(gains) /\ C!TheSlow \subseteq 1 .. Len(gains)
  <1>1. gains \in Seq(0 .. 100) /\ \A n \in 1 .. Len(gains) : gains[n] = C!Adds(n)
    BY DEF CoresInv
  <1>2. DOMAIN gains = 1 .. Len(gains) /\ Len(gains) \in Nat /\ \A n \in 1 .. Len(gains) : gains[n] \in 0 .. 100
    <2>1. gains \in Seq(0 .. 100)
      BY <1>1
    <2>2. DOMAIN gains = 1 .. Len(gains) /\ Len(gains) \in Nat
      BY ONLY <2>1
    <2>3. \A n \in 1 .. Len(gains) : gains[n] \in 0 .. 100
      BY <2>1, Elements
    <2> QED
      BY <2>2, <2>3
  <1>3. ASSUME Len(gains) > 0, NEW g \in 0 .. 100 PROVE C!LinearGain(g) <=> g >= LinearPercent
    <2>1. gains[1] = 100
      BY <1>1, <1>2, <1>3, AddsIs
    <2>2. LinearPercent \in Nat
      BY Bounds DEF C!SiblingRate
    <2> QED
      BY <2>1, <2>2 DEF C!LinearGain
  <1> QED
    BY <1>1, <1>2, <1>3 DEF C!TheFast, C!TheSlow

\* What a group adds is a total of Sums.
LEMMA GainIsTotal == ASSUME NEW D PROVE C!Gain(D) = Total(gains, D)
  BY DEF C!Gain, C!MapThenSumSet, C!MapThenFoldSet, Total, MapThenSumSet, MapThenFoldSet

\* Cardinality is the same in an instance.
LEMMA CountIs == ASSUME NEW D PROVE C!Cardinality(D) = Cardinality(D)
  BY Zenon DEF C!Cardinality, Cardinality

\* The leading run of workers that scale.
LEMMA LinearIs ==
    ASSUME CoresInv
    PROVE  /\ C!Linear \in 0 .. Len(gains)
           /\ \A i \in 1 .. C!Linear : C!LinearGain(gains[i])
           /\ C!Linear = Len(gains) \/ ~C!LinearGain(gains[C!Linear + 1])
  <1> DEFINE Run(n) == /\ \A i \in 1 .. n : C!LinearGain(gains[i])
                       /\ n = Len(gains) \/ ~C!LinearGain(gains[n + 1])
             Ends == {n \in 0 .. Len(gains) : n = Len(gains) \/ ~C!LinearGain(gains[n + 1])}
  <1>1. Len(gains) \in Nat
    BY GroupsAre
  <1>2. Ends \in SUBSET Nat /\ Len(gains) \in Ends
    BY <1>1
  <1>3. PICK n \in Ends : \A m \in Ends : n <= m
    BY <1>2, LeastNumber
  <1>4. n \in 0 .. Len(gains) /\ (n = Len(gains) \/ ~C!LinearGain(gains[n + 1]))
    BY <1>3
  <1>5. ASSUME NEW i \in 1 .. n PROVE C!LinearGain(gains[i])
    <2>1. i - 1 \in 0 .. Len(gains) /\ i - 1 # Len(gains) /\ ~(n <= i - 1) /\ (i - 1) + 1 = i
      BY <1>1, <1>4
    <2>2. i - 1 \notin Ends
      BY <1>3, <2>1
    <2> HIDE DEF Ends
    <2>3. C!LinearGain(gains[(i - 1) + 1])
      BY <2>1, <2>2 DEF Ends
    <2> QED
      BY <2>1, <2>3
  <1>6. \E k \in 0 .. Len(gains) : Run(k)
    BY <1>4, <1>5
  <1>7. C!Linear = CHOOSE k \in 0 .. Len(gains) : Run(k)
    BY DEF C!Linear
  <1> HIDE DEF Run
  <1>8. C!Linear \in 0 .. Len(gains) /\ Run(C!Linear)
    BY <1>6, <1>7
  <1> QED
    BY <1>8 DEF Run

\* Second threads are claimed where most of the slower workers ran on one:
\* of the others only the last before the knee can be slower.
LEMMA SmtIsReal ==
    ASSUME CoresInv, physical # 0, Len(gains) = workers, workers = C!Logical, C!TheSlow # {}, C!SmtCapable, C!Knee
    PROVE  smt /\ C!Cardinality(C!Slowed("sibling")) >= C!Cardinality(C!Slowed("slow")) + C!Cardinality(C!Slowed("fast"))
  <1>1. fast \in Nat \ {0} /\ slow \in Nat /\ physical = fast + slow /\ smt \in BOOLEAN
    BY DEF CoresInv
  <1>2. smt /\ C!Logical = fast + slow + fast
    BY <1>1 DEF C!SmtCapable, C!Logical, C!Siblings
  <1>3. /\ C!TheSlow \subseteq 1 .. fast + slow + fast
        /\ \A n \in 1 .. Len(gains) : n \in C!TheSlow <=> ~C!LinearGain(gains[n])
    BY <1>2, GroupsAre DEF C!TheSlow
  <1>4. /\ C!Linear \in Nat /\ C!Linear + 1 >= physical
        /\ \A n \in C!TheSlow : n > C!Linear
    <2>1. C!Linear \in 0 .. Len(gains) /\ \A i \in 1 .. C!Linear : C!LinearGain(gains[i])
      BY LinearIs
    <2>2. physical <= C!Linear + KneeTolerance /\ KneeTolerance \in 0 .. 1
      BY Bounds DEF C!Knee, C!KneeAtPhysical
    <2>3. C!Linear \in Nat
      BY <2>1
    <2>4. ASSUME NEW n \in C!TheSlow PROVE n > C!Linear
      <3>1. n \in 1 .. Len(gains) /\ ~C!LinearGain(gains[n])
        BY <1>3, GroupsAre
      <3> QED
        BY <2>1, <2>3, <3>1
    <2> QED
      BY <1>1, <2>2, <2>3, <2>4
  <1>5. \A n \in C!TheSlow : n <= physical => n = physical
    BY <1>1, <1>3, <1>4
  <1>6. \A n \in 1 .. fast + slow + fast :
            /\ C!Lands(n) = "sibling" <=> n > physical
            /\ C!Lands(n) = "slow" => n <= physical
            /\ C!Lands(n) = "fast" => n <= physical
    BY <1>1, AddsIs
  <1>7. C!Slowed("slow") \cup C!Slowed("fast") \subseteq {physical} /\ C!Slowed("slow") \cap C!Slowed("fast") = {}
    BY <1>3, <1>5, <1>6 DEF C!Slowed
  <1>8. physical + 1 \in C!Slowed("sibling")
    <2>1. physical + 1 \in 1 .. Len(gains) /\ physical + 1 \in 1 .. fast + slow + fast /\ physical + 1 > fast + slow
      BY <1>1, <1>2
    <2>2. gains[physical + 1] = C!SiblingRate
      BY <1>1, <2>1, AddsIs, GroupsAre
    <2>3. C!SiblingRate < LinearPercent /\ C!SiblingRate \in 0 .. 100
      BY Bounds DEF C!SiblingRate
    <2>4. ~C!LinearGain(gains[physical + 1])
      <3>1. Len(gains) > 0 /\ LinearPercent \in Nat
        BY <1>1, <1>2, Bounds DEF C!SiblingRate
      <3>2. C!LinearGain(C!SiblingRate) <=> C!SiblingRate >= LinearPercent
        BY <2>3, <3>1, GroupsAre
      <3>3. ~C!LinearGain(C!SiblingRate)
        BY <2>3, <3>1, <3>2
      <3> QED
        BY <2>2, <3>3, Zenon
    <2> QED
      BY <1>1, <1>3, <1>6, <2>1, <2>4 DEF C!Slowed
  <1>9. IsFiniteSet(C!Slowed("sibling"))
    <2>1. IsFiniteSet(1 .. fast + slow + fast)
      BY <1>1, FS_Interval
    <2>2. C!Slowed("sibling") \subseteq 1 .. fast + slow + fast
      BY <1>3 DEF C!Slowed
    <2> QED
      BY <2>1, <2>2, FS_Subset
  <1>10. Cardinality(C!Slowed("sibling")) \in Nat /\ Cardinality(C!Slowed("sibling")) >= 1
    BY <1>8, <1>9, FS_CardinalityType, FS_EmptySet
  <1>11. \/ Cardinality(C!Slowed("slow")) = 0 /\ Cardinality(C!Slowed("fast")) = 0
         \/ Cardinality(C!Slowed("slow")) = 1 /\ Cardinality(C!Slowed("fast")) = 0
         \/ Cardinality(C!Slowed("slow")) = 0 /\ Cardinality(C!Slowed("fast")) = 1
    <2>1. Cardinality({physical}) = 1 /\ Cardinality({}) = 0
      BY FS_Singleton, FS_EmptySet
    <2>2. \/ C!Slowed("slow") = {} /\ C!Slowed("fast") = {}
          \/ C!Slowed("slow") = {physical} /\ C!Slowed("fast") = {}
          \/ C!Slowed("slow") = {} /\ C!Slowed("fast") = {physical}
      BY <1>7
    <2> QED
      BY <2>1, <2>2, Zenon
  <1>12. /\ C!Cardinality(C!Slowed("sibling")) = Cardinality(C!Slowed("sibling"))
         /\ C!Cardinality(C!Slowed("slow")) = Cardinality(C!Slowed("slow"))
         /\ C!Cardinality(C!Slowed("fast")) = Cardinality(C!Slowed("fast"))
    BY CountIs
  <1>13. C!Cardinality(C!Slowed("sibling")) >= C!Cardinality(C!Slowed("slow")) + C!Cardinality(C!Slowed("fast"))
    BY <1>10, <1>11, <1>12
  <1> QED
    BY <1>2, <1>13

\* Slower cores are claimed where there are some: a last fast core alone
\* pulls the average down as far only if it adds as little itself.
LEMMA HybridIsReal ==
    ASSUME CoresInv, physical # 0, Len(gains) = workers, workers = C!Logical, C!Hybrid, ~C!SmtCapable
    PROVE  ~smt /\ (C!Slowed("slow") # {} \/ lastRate < HybridPercent)
  <1>1. fast \in Nat \ {0} /\ slow \in Nat /\ physical = fast + slow /\ smt \in BOOLEAN
    BY DEF CoresInv
  <1>2. ~smt
    BY <1>1 DEF C!SmtCapable, C!Logical, C!Siblings
  <1>3. Len(gains) = fast + slow
    BY <1>1, <1>2 DEF C!Logical, C!Siblings
  <1>4. ASSUME C!Slowed("slow") = {}, lastRate >= HybridPercent PROVE FALSE
    <2>1. ASSUME NEW n \in C!TheSlow PROVE n = fast /\ n > 1
      <3>1. n \in 1 .. fast + slow /\ ~C!LinearGain(gains[n]) /\ gains[n] = C!Adds(n) /\ gains[n] \in 0 .. 100
        BY <1>3, GroupsAre DEF C!TheSlow
      <3>2. C!Lands(n) # "slow"
        BY <1>4 DEF C!Slowed
      <3>3. n <= fast
        BY <1>1, <3>1, <3>2, AddsIs
      <3>4. gains[n] # 100
        <4>1. Len(gains) > 0 /\ LinearPercent \in 0 .. 100
          BY <1>1, <1>3, Bounds DEF C!SiblingRate
        <4>2. C!LinearGain(100) <=> 100 >= LinearPercent
          BY <4>1, GroupsAre
        <4>3. C!LinearGain(100)
          BY <4>1, <4>2
        <4> QED
          BY <3>1, <4>3, Zenon
      <3>5. n = fast
        BY <1>1, <3>1, <3>3, <3>4, AddsIs
      <3>6. n # 1
        BY <3>1, <3>4, AddsIs
      <3> QED
        BY <1>1, <3>1, <3>5, <3>6
    <2>2. C!TheSlow # {}
      BY DEF C!Hybrid
    <2>3. C!TheSlow = {fast} /\ fast > 1
      BY <2>1, <2>2
    <2>4. fast \in 1 .. Len(gains) /\ gains[fast] = lastRate /\ lastRate \in 0 .. 100
      BY <1>1, <1>3, <2>3, AddsIs, GroupsAre DEF CoresInv
    <2>5. Total(gains, C!TheSlow) = lastRate
      <3>1. IsFiniteSet({}) /\ fast \notin {} /\ \A x \in {} \cup {fast} : gains[x] \in Int
        BY <2>4, FS_EmptySet
      <3>2. Total(gains, {fast}) = gains[fast]
        BY <3>1, TotalAdd
      <3> QED
        BY <2>3, <2>4, <3>2, Zenon
    <2>6. IsFiniteSet(C!TheFast)
      <3>1. IsFiniteSet(1 .. Len(gains))
        BY <1>1, <1>3, FS_Interval
      <3> QED
        BY <3>1, GroupsAre, FS_Subset
    <2>7. Total(gains, C!TheFast) \in Nat /\ Total(gains, C!TheFast) <= 100 * Cardinality(C!TheFast)
      <3>0. \A g \in 0 .. 100 : g \in Nat /\ g <= 100
        OBVIOUS
      <3>1. \A x \in C!TheFast : gains[x] \in Nat /\ gains[x] <= 100
        <4>1. \A x \in C!TheFast : x \in 1 .. Len(gains)
          BY GroupsAre
        <4>2. \A x \in 1 .. Len(gains) : gains[x] \in 0 .. 100
          BY GroupsAre
        <4> QED
          BY <3>0, <4>1, <4>2, Zenon
      <3> QED
        BY <2>6, <3>1, TotalAtMost
    <2>8. Cardinality(C!TheFast) \in Nat /\ Cardinality(C!TheSlow) = 1
      <3>1. Cardinality({fast}) = 1
        BY FS_Singleton
      <3> QED
        BY <2>3, <2>6, <3>1, FS_CardinalityType, Zenon
    <2>9. 100 * lastRate * Cardinality(C!TheFast) < HybridPercent * Total(gains, C!TheFast) * 1
      <3>1. 100 * C!Gain(C!TheSlow) * C!Cardinality(C!TheFast) < HybridPercent * C!Gain(C!TheFast) * C!Cardinality(C!TheSlow)
        BY DEF C!Hybrid
      <3>2. /\ C!Gain(C!TheSlow) = lastRate /\ C!Gain(C!TheFast) = Total(gains, C!TheFast)
            /\ C!Cardinality(C!TheFast) = Cardinality(C!TheFast) /\ C!Cardinality(C!TheSlow) = 1
        BY <2>5, <2>8, GainIsTotal, CountIs, Zenon
      <3> QED
        BY <3>1, <3>2, Zenon
    <2>10. ASSUME NEW r \in Nat, NEW h \in Nat, r >= h, NEW t \in Nat, NEW k \in Nat, t <= 100 * k
           PROVE  ~ (100 * r * k < h * t * 1)
      <3>1. h * t <= r * t
        BY <2>10, Z3
      <3>2. r * t <= r * (100 * k)
        BY <2>10, Z3
      <3>3. r * (100 * k) = 100 * r * k
        BY Z3
      <3>4. h * t * 1 = h * t /\ h * t \in Nat /\ r * t \in Nat /\ 100 * r * k \in Nat
        BY Z3
      <3> HIDE <2>10
      <3> QED
        BY <3>1, <3>2, <3>3, <3>4, Z3
    <2>11. lastRate \in Nat /\ HybridPercent \in Nat
      BY <2>4, Bounds
    <2> QED
      BY <1>4, <2>7, <2>8, <2>9, <2>10, <2>11, Zenon
  <1>5. lastRate \in Nat /\ HybridPercent \in Nat
    BY Bounds DEF CoresInv
  <1> QED
    BY <1>2, <1>4, <1>5

\* A cause is named.
LEMMA ClassifyStep == ASSUME CoresInv, C!Classify PROVE CoresInv'
  <1>1. /\ cause = "unknown" /\ Len(gains) = workers
        /\ UNCHANGED <<fast, slow, smt, slowRate, lastRate, physical, workers, gains>>
        /\ cause' = "hybrid" => C!Hybrid /\ ~C!SmtCapable
        /\ cause' = "smt" => C!TheSlow # {} /\ C!SmtCapable /\ C!Knee
    BY DEF C!Classify
  <1>2. C!Logical' = C!Logical /\ (\A n : C!Adds(n)' = C!Adds(n)) /\ (\A k : C!Slowed(k)' = C!Slowed(k))
    BY <1>1 DEF C!Logical, C!Siblings, C!Adds, C!Lands, C!Slowed, C!TheSlow, C!LinearGain
  <1>3. C!CauseIsReal'
    <2> SUFFICES ASSUME physical # 0, workers = C!Logical
                 PROVE  /\ cause' = "hybrid" => ~smt /\ (C!Slowed("slow") # {} \/ lastRate < HybridPercent)
                        /\ cause' = "smt" => /\ smt
                                             /\ C!Cardinality(C!Slowed("sibling"))
                                                  >= C!Cardinality(C!Slowed("slow")) + C!Cardinality(C!Slowed("fast"))
      BY <1>1, <1>2 DEF C!CauseIsReal
    <2> QED
      BY <1>1, HybridIsReal, SmtIsReal
  <1> QED
    BY <1>1, <1>2, <1>3 DEF CoresInv

\* Every step keeps it.
LEMMA CoresStep == CoresInv /\ [Next]_vars => CoresInv'
  <1>1. ASSUME CoresInv, UNCHANGED coresVars PROVE CoresInv'
    <2>1. UNCHANGED <<fast, slow, smt, slowRate, lastRate, physical, workers, gains, cause>>
      BY <1>1 DEF coresVars
    <2>2. C!Logical' = C!Logical /\ (\A n : C!Adds(n)' = C!Adds(n)) /\ (\A k : C!Slowed(k)' = C!Slowed(k))
      BY <2>1 DEF C!Logical, C!Siblings, C!Adds, C!Lands, C!Slowed, C!TheSlow, C!LinearGain
    <2> QED
      BY <1>1, <2>1, <2>2 DEF CoresInv, C!CauseIsReal
  <1> QED
    BY <1>1, MeasureStep, ClassifyStep, PartSteps DEF C!Next

(* What is blamed was there: slower cores, or a last fast one that adds    *)
(* less than HYBRID_DROP_RATIO of a core; second threads; whatever else    *)
(* disturbed a test; on any processor whose second threads add less than   *)
(* LINEAR_SCALING_RATIO of a core (cores.py 137-169, interference.py       *)
(* 72-88).                                                                 *)
THEOREM CausesAreReal == Spec => []BlameIsFounded
  <1>1. CoresInv => C!CauseIsReal
    BY DEF CoresInv
  <1>2. Spec => []C!CauseIsReal
    BY <1>1, CoresInit, CoresStep, PTL DEF Spec
  <1>3. BlameIsFounded <=> C!CauseIsReal /\ F!BlameNeedsACulprit
    BY DEF BlameIsFounded
  <1> QED
    BY <1>2, <1>3, CulpritsAreThere, PTL
=============================================================================
