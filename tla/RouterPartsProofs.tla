--------------------------- MODULE RouterPartsProofs ---------------------------
(* Proofs about the parts of the router around the dispatcher: the expiry of a  *)
(* token stream, the tables of direct tool calls, the cache of key checks, and   *)
(* the keys, the model and the policies it starts with.                          *)
EXTENDS MCRouterParts, SubsequenceProofs, SequenceTheorems, FiniteSetTheorems, WellFoundedInduction, TLAPS

-----------------------------------------------------------------------------
(* Token streams.                                                            *)

\* Executions of a job follow each other: all before the last are at their tool
\* calls or lost with their worker.  Once the last is over, its own TTL is still
\* due or the key has one; and a key that has expired has no writer left.
StreamInv ==
  /\ TsTypeOK
  /\ \A x, y \in Tries : y < x /\ run[x] # "no" => run[y] \in {"tools", "lost"}
  /\ (\A x \in Tries : ~timedOut[x]) =>
       \A x \in Tries : run[x] = "over" =>
         /\ ttl = "never" => due[x] = "done"
         /\ ttl = "absent" => \A y \in Tries : post[y] = "nothing" /\ due[y] = "nothing"

\* A step of one execution, with what it does to the key.
LEMMA StreamInvKept ==
  ASSUME StreamInv, [StreamNext]_tsvars
  PROVE  StreamInv'
<1> USE DEF StreamInv, TsTypeOK, TTLs, Publish, SetTTL
<1>1. ASSUME NEW x \in Tries, SendJob(x) PROVE StreamInv'
  <2>1. x \in Nat /\ Tries \subseteq Nat /\ (x > 1 => x - 1 \in Tries)
    BY TokenStreamAssumption DEF Tries
  <2>2. run' = [run EXCEPT ![x] = "running"] /\ run[x] = "no" /\ UNCHANGED <<ttl, timedOut, due>>
    BY <1>1 DEF SendJob
  <2>3. \A y \in Tries : y < x => run[y] \in {"tools", "lost"}
    <3>1. SUFFICES ASSUME NEW y \in Tries, y < x PROVE run[y] \in {"tools", "lost"}
      OBVIOUS
    <3>2. x - 1 \in Tries /\ run[x - 1] \in {"tools", "lost"} /\ y <= x - 1
      BY <1>1, <2>1, <3>1 DEF SendJob, Tries
    <3> QED  BY <2>1, <3>2
  <2>4. \A y \in Tries : run[y] # "over"
    BY <2>1, <2>2, <2>3
  <2>5. TsTypeOK'
    BY <1>1 DEF SendJob
  <2>6. \A w, y \in Tries : y < w /\ run'[w] # "no" => run'[y] \in {"tools", "lost"}
    BY <2>1, <2>2, <2>3
  <2> QED  BY <2>2, <2>4, <2>5, <2>6
<1>2. ASSUME NEW x \in Tries, run[x] = "running"
      PROVE  \A y \in Tries : run[y] # "over"
  BY <1>2, TokenStreamAssumption DEF Tries
<1>3. ASSUME NEW x \in Tries, PublishSentinel(x) \/ SetPostTTL(x) \/ SetDueTTL(x) PROVE StreamInv'
  BY <1>3 DEF PublishSentinel, SetPostTTL, SetDueTTL
<1>4. ASSUME NEW x \in Tries, HandleToken(x) \/ HandleToolGenerating(x) \/ ExpireStaleJob(x)
      PROVE  StreamInv'
  BY <1>2, <1>4 DEF HandleToken, HandleToolGenerating, ExpireStaleJob, Handling
<1>5. ASSUME NEW x \in Tries, HandleComplete(x) \/ HandleWorkerError(x) \/ ContinuationFails(x)
      PROVE  StreamInv'
  <2>1. TsTypeOK'
    BY <1>5 DEF HandleComplete, HandleWorkerError, ContinuationFails, Handling
  <2>2. \A y \in Tries : y > x => run[y] = "no"
    <3>1. CASE run[x] = "running"
      BY <3>1, TokenStreamAssumption DEF Tries
    <3>2. CASE run[x] # "running"
      <4>1. run[x] = "tools" /\ (x < Executions => run[x + 1] = "no")
        BY <1>5, <3>2 DEF HandleComplete, HandleWorkerError, ContinuationFails, Handling
      <4>2. ASSUME NEW y \in Tries, y > x PROVE x + 1 \in Tries /\ (y = x + 1 \/ x + 1 < y)
        BY <4>2, TokenStreamAssumption DEF Tries
      <4> QED  BY <4>1, <4>2, TokenStreamAssumption DEF Tries
    <3> QED  BY <3>1, <3>2
  <2>3. \A y \in Tries : y # x => y < x \/ y > x
    BY TokenStreamAssumption DEF Tries
  <2>4. /\ \A y \in Tries : y # x => run'[y] = run[y]
        /\ run'[x] = "tools" \/ (run'[x] = "over" /\ due'[x] = "done" /\ ttl' # "absent")
    BY <1>5 DEF HandleComplete, HandleWorkerError, ContinuationFails, Handling
  <2>5. run[x] \in {"running", "tools"}
    BY <1>5 DEF HandleComplete, HandleWorkerError, ContinuationFails, Handling
  <2>6. \A y \in Tries : y # x => run[y] # "over"
    BY <2>2, <2>3, <2>5
  <2>7. \A w, y \in Tries : y < w /\ run'[w] # "no" => run'[y] \in {"tools", "lost"}
    <3>1. SUFFICES ASSUME NEW w \in Tries, NEW y \in Tries, y < w, run'[w] # "no"
                   PROVE  run'[y] \in {"tools", "lost"}
      OBVIOUS
    <3>2. y # x
      BY <2>2, <2>4, <3>1, TokenStreamAssumption DEF Tries
    <3> QED  BY <2>4, <2>5, <3>1, <3>2
  <2> QED  BY <2>1, <2>4, <2>6, <2>7
<1>6. ASSUME NEW x \in Tries, WorkerLost(x) PROVE StreamInv'
  BY <1>6 DEF WorkerLost
<1>7. CASE KeyExpires
  BY <1>7 DEF KeyExpires
<1>8. CASE UNCHANGED tsvars
  BY <1>8 DEF tsvars
<1> QED
  BY <1>1, <1>3, <1>4, <1>5, <1>6, <1>7, <1>8 DEF StreamNext

\* The key of a job that is over has an expiry, in whatever order dispatcher,
\* handlers, sweep and continuation wrote to it, unless the job timed out.
THEOREM StreamsExpire == StreamSpec => []NoStreamLeft
<1>1. StreamInit => StreamInv
  BY DEF StreamInit, StreamInv, TsTypeOK, TTLs
<1>2. StreamInv => NoStreamLeft
  BY DEF StreamInv, NoStreamLeft, AtRest
<1> QED
  BY <1>1, <1>2, StreamInvKept, PTL DEF StreamSpec

-----------------------------------------------------------------------------
(* Direct tool calls.                                                        *)

\* A request is in the tables from its registration on; once it waits, its job
\* has been sent, so a request that is still there when it is over was never
\* answered.
CallTables ==
  /\ conts \subseteq Requests /\ refs \subseteq Requests
  /\ step \in [Requests -> {"new", "dispatch", "registered", "waiting", "generating", "reply",
                            "over", "refused"}]
  /\ job \in [Requests -> {"none", "sent", "lost", "answered"}]
  /\ \A r \in conts \cup refs :
       \/ step[r] = "registered"
       \/ step[r] \in {"waiting", "reply", "over"} /\ job[r] \in {"sent", "lost"}

LEMMA CallTablesKept ==
  ASSUME CallTables, [McpNext]_mcpvars
  PROVE  CallTables'
<1> USE DEF CallTables, Goes, conn, call
<1>1. ASSUME NEW r \in Requests, HandleMessage(r) \/ DispatchRequest(r) PROVE CallTables'
  BY <1>1 DEF HandleMessage, DispatchRequest
<1>2. ASSUME NEW r \in Requests, SendToolJob(r) PROVE CallTables'
  BY <1>2 DEF SendToolJob
<1>3. ASSUME NEW r \in Requests, ToolResult(r) PROVE CallTables'
  BY <1>3 DEF ToolResult
<1>4. ASSUME NEW r \in Requests,
             PollResult(r) \/ CallTimesOut(r) \/ CallReturns(r) \/ GenerateEnds(r) \/ Reply(r)
      PROVE  CallTables'
  BY <1>4 DEF PollResult, CallTimesOut, CallReturns, GenerateEnds, Reply
<1>5. CASE HandleSSE \/ SSEWrites \/ ClientLeaves \/ ToolsWorkerGoes
  BY <1>5 DEF HandleSSE, SSEWrites, ClientLeaves, ToolsWorkerGoes
<1>6. CASE UNCHANGED mcpvars
  BY <1>6 DEF mcpvars
<1> QED
  BY <1>1, <1>2, <1>3, <1>4, <1>5, <1>6 DEF McpNext

\* Whichever of result, timeout and failed send comes first, the tables keep a
\* call after its goroutine only if its worker never answers.
THEOREM CallsLeaveTheTables == McpSpec => []CallForgotten
<1>1. McpInit => CallTables
  BY DEF McpInit, CallTables
<1>2. CallTables => CallForgotten
  BY DEF CallTables, CallForgotten
<1> QED
  BY <1>1, <1>2, CallTablesKept, PTL DEF McpSpec

-----------------------------------------------------------------------------
(* Responses of an MCP session.                                              *)

InEvents(r) == \E i \in 1 .. Len(events) : events[i] = r
InDelivered(r) == \E i \in 1 .. Len(delivered) : delivered[i] = r
Responded(r) == InEvents(r) \/ InDelivered(r) \/ r \in dropped

\* Every response is in one place.
ApartInv ==
  /\ events \in Seq(Requests) /\ delivered \in Seq(Requests) /\ dropped \subseteq Requests
  /\ \A i, k \in 1 .. Len(events) : events[i] = events[k] => i = k
  /\ \A i, k \in 1 .. Len(delivered) : delivered[i] = delivered[k] => i = k
  /\ \A r \in Requests :
       /\ ~ (InEvents(r) /\ InDelivered(r))
       /\ r \in dropped => ~ InEvents(r) /\ ~ InDelivered(r)
       /\ r \in dropped => Len(events) + Len(delivered) >= ChanCap

\* A response is there once its request is over, unless that was
\* notifications/initialized.
OverInv ==
  /\ step \in [Requests -> {"new", "dispatch", "registered", "waiting", "generating", "reply",
                            "over", "refused"}]
  /\ asks \in [Requests -> Asks \cup {"nothing"}]
  /\ \A r \in Requests :
       /\ Responded(r) <=> step[r] = "over" /\ asks[r] # "initialized"
       /\ step[r] \in {"registered", "waiting", "generating", "reply"} => asks[r] # "initialized"

\* The response of a request goes to the channel or is dropped.
LEMMA ResponseGoesOnce ==
  ASSUME ApartInv, NEW r \in Requests, ~ Responded(r), SendSSEResponse(r)
  PROVE  /\ ApartInv' /\ Responded(r)'
         /\ \A q \in Requests : q # r => (Responded(q)' <=> Responded(q))
<1> USE DEF ApartInv, Responded, InEvents, InDelivered
<1>1. CASE Len(events) < ChanCap
  <2>1. events' = Append(events, r) /\ UNCHANGED <<delivered, dropped>>
    BY <1>1 DEF SendSSEResponse
  <2>2. /\ events' \in Seq(Requests) /\ Len(events') = Len(events) + 1 /\ Len(events) \in Nat
        /\ events'[Len(events) + 1] = r
        /\ \A i \in 1 .. Len(events) : events'[i] = events[i]
    BY <2>1
  <2>3. Len(delivered) \in Nat
    OBVIOUS
  <2>4. \A q : InEvents(q)' <=> InEvents(q) \/ q = r
    BY <2>2
  <2>5. \A q : InDelivered(q)' <=> InDelivered(q)
    BY <2>1
  <2>6. \A i, k \in 1 .. Len(events') : events'[i] = events'[k] => i = k
    <3>1. \A i \in 1 .. Len(events) : events[i] # r
      OBVIOUS
    <3> QED  BY <2>2, <3>1
  <2>7. \A q \in Requests : q \in dropped => Len(events') + Len(delivered) >= ChanCap
    BY <2>2, <2>3, McpAssumption
  <2>8. \A q \in Requests : q \in dropped => q # r
    OBVIOUS
  <2>9. ~ InEvents(r) /\ ~ InDelivered(r)
    OBVIOUS
  <2> HIDE DEF InEvents, InDelivered
  <2>10. ApartInv'
    BY <2>1, <2>2, <2>4, <2>5, <2>6, <2>7, <2>8, <2>9
  <2> QED  BY <2>1, <2>4, <2>5, <2>10
<1>2. CASE ~ (Len(events) < ChanCap)
  <2>1. dropped' = dropped \cup {r} /\ UNCHANGED <<events, delivered>>
    BY <1>2 DEF SendSSEResponse
  <2>2. Len(events) + Len(delivered) >= ChanCap
    BY <1>2, McpAssumption
  <2> QED  BY <2>1, <2>2
<1> QED
  BY <1>1, <1>2

\* The stream takes the first response of the channel.
LEMMA WritingMoves ==
  ASSUME ApartInv, SSEWrites
  PROVE  ApartInv' /\ \A q \in Requests : Responded(q)' <=> Responded(q)
<1> USE DEF ApartInv, Responded, InEvents, InDelivered
<1>1. /\ events # <<>> /\ events' = Tail(events) /\ delivered' = Append(delivered, Head(events))
      /\ UNCHANGED dropped
  BY DEF SSEWrites
<1>2. PICK h : h = Head(events)
  OBVIOUS
<1>3. /\ Len(events) \in Nat \ {0} /\ Len(events') = Len(events) - 1 /\ events[1] = h /\ h \in Requests
      /\ events' \in Seq(Requests) /\ \A i \in 1 .. Len(events') : events'[i] = events[i + 1]
  BY <1>1, <1>2
<1>4. /\ Len(delivered) \in Nat /\ Len(delivered') = Len(delivered) + 1
      /\ delivered'[Len(delivered) + 1] = h /\ delivered' \in Seq(Requests)
      /\ \A i \in 1 .. Len(delivered) : delivered'[i] = delivered[i]
  BY <1>1, <1>2, <1>3
<1>5. \A q : InEvents(q) <=> InEvents(q)' \/ q = h
  <2>1. \A i \in 1 .. Len(events) : i = 1 \/ (i - 1 \in 1 .. Len(events') /\ events'[i - 1] = events[i])
    BY <1>3
  <2>2. \A i \in 1 .. Len(events') : i + 1 \in 1 .. Len(events)
    BY <1>3
  <2>3. ASSUME NEW q, InEvents(q) PROVE InEvents(q)' \/ q = h
    <3>1. PICK i \in 1 .. Len(events) : events[i] = q
      BY <2>3
    <3> QED  BY <1>3, <2>1, <3>1
  <2>4. ASSUME NEW q, InEvents(q)' PROVE InEvents(q)
    <3>1. PICK i \in 1 .. Len(events') : events'[i] = q
      BY <2>4
    <3>2. i + 1 \in 1 .. Len(events) /\ events[i + 1] = q
      BY <1>3, <2>2, <3>1
    <3> QED  BY <3>2
  <2>5. InEvents(h)
    BY <1>3
  <2> QED  BY <2>3, <2>4, <2>5
<1>6. ~ InEvents(h)'
  BY <1>3
<1>7. \A q : InDelivered(q)' <=> InDelivered(q) \/ q = h
  BY <1>4, SMTT(30)
<1>8. ~ InDelivered(h)
  BY <1>3
<1>9. \A i, k \in 1 .. Len(events') : events'[i] = events'[k] => i = k
  BY <1>3
<1>10. \A i, k \in 1 .. Len(delivered') : delivered'[i] = delivered'[k] => i = k
  BY <1>4, <1>8
<1>11. Len(events') + Len(delivered') = Len(events) + Len(delivered)
  BY <1>3, <1>4
<1>12. h \notin dropped
  BY <1>3
<1> HIDE DEF InEvents, InDelivered
<1> QED
  BY <1>1, <1>3, <1>4, <1>5, <1>6, <1>7, <1>8, <1>9, <1>10, <1>11, <1>12

LEMMA ResponsesKept ==
  ASSUME ApartInv, OverInv, [McpNext]_mcpvars
  PROVE  ApartInv' /\ OverInv'
<1>1. ASSUME NEW r \in Requests, ~ Responded(r), SendSSEResponse(r),
             step' = [step EXCEPT ![r] = "over"],
             asks' \in [Requests -> Asks \cup {"nothing"}], asks'[r] # "initialized",
             \A q \in Requests : q # r => asks'[q] = asks[q]
      PROVE  ApartInv' /\ OverInv'
  BY <1>1, ResponseGoesOnce DEF OverInv
<1>2. ASSUME UNCHANGED <<events, delivered, dropped>>, OverInv => OverInv'
      PROVE  ApartInv' /\ OverInv'
  BY <1>2 DEF ApartInv, InEvents, InDelivered
<1>3. ASSUME UNCHANGED <<events, delivered, dropped>>, NEW q
      PROVE  Responded(q)' <=> Responded(q)
  BY <1>3 DEF Responded, InEvents, InDelivered
<1>4. ASSUME NEW r \in Requests, HandleMessage(r) PROVE ApartInv' /\ OverInv'
  <2>1. CASE ~ (session = "open" /\ asks'[r] = "malformed")
    <3>1. UNCHANGED <<events, delivered, dropped>>
      BY <1>4, <2>1 DEF HandleMessage, conn
    <3>2. step[r] = "new" /\ ~ Responded(r)
      BY <1>4 DEF HandleMessage, OverInv
    <3>3. step' = [step EXCEPT ![r] = IF session # "open" THEN "refused" ELSE "dispatch"]
      BY <1>4, <2>1 DEF HandleMessage, Goes
    <3>4. asks' \in [Requests -> Asks \cup {"nothing"}] /\ \A q \in Requests : q # r => asks'[q] = asks[q]
      BY <1>4 DEF HandleMessage, OverInv
    <3> QED  BY <1>2, <1>3, <3>1, <3>2, <3>3, <3>4 DEF OverInv
  <2>2. CASE session = "open" /\ asks'[r] = "malformed"
    <3>1. /\ SendSSEResponse(r) /\ step[r] = "new" /\ asks'[r] = "malformed"
          /\ step' = [step EXCEPT ![r] = "over"]
      BY <1>4, <2>2 DEF HandleMessage, Goes, OverInv
    <3>2. \E a \in Asks : asks' = [asks EXCEPT ![r] = a]
      BY <1>4 DEF HandleMessage
    <3>3. ~ Responded(r)
      BY <3>1 DEF OverInv
    <3> QED  BY <1>1, <3>1, <3>2, <3>3 DEF OverInv
  <2> QED  BY <2>1, <2>2
<1>5. ASSUME NEW r \in Requests,
             DispatchRequest(r) \/ SendToolJob(r) \/ ToolResult(r) \/ PollResult(r)
             \/ CallTimesOut(r) \/ CallReturns(r) \/ GenerateEnds(r)
      PROVE  ApartInv' /\ OverInv'
  BY <1>2, <1>3, <1>5 DEF DispatchRequest, SendToolJob, ToolResult, PollResult, CallTimesOut,
       CallReturns, GenerateEnds, OverInv, Goes, conn
<1>6. ASSUME NEW r \in Requests, Reply(r) PROVE ApartInv' /\ OverInv'
  <2>1. step[r] = "reply" /\ SendSSEResponse(r) /\ step' = [step EXCEPT ![r] = "over"] /\ asks' = asks
    BY <1>6 DEF Reply, Goes
  <2>2. ~ Responded(r) /\ asks'[r] # "initialized"
    BY <2>1 DEF OverInv
  <2> QED  BY <1>1, <2>1, <2>2 DEF OverInv
<1>7. CASE SSEWrites
  BY <1>7, WritingMoves DEF SSEWrites, OverInv
<1>8. CASE HandleSSE \/ ClientLeaves \/ ToolsWorkerGoes \/ UNCHANGED mcpvars
  BY <1>2, <1>3, <1>8 DEF HandleSSE, ClientLeaves, ToolsWorkerGoes, mcpvars, conn, OverInv
<1> QED
  BY <1>4, <1>5, <1>6, <1>7, <1>8 DEF McpNext

\* Where a response is, among all that were queued.
LEMMA PlacesOf ==
  ASSUME ApartInv, NEW r \in Requests
  PROVE  /\ Cardinality(Places(r)) \in {0, 1}
         /\ Cardinality(Places(r)) = 1 <=> InEvents(r) \/ InDelivered(r)
<1> DEFINE all == events \o delivered
<1>1. /\ Len(events) \in Nat /\ Len(delivered) \in Nat /\ Len(all) = Len(events) + Len(delivered)
      /\ \A i \in 1 .. Len(events) : all[i] = events[i]
      /\ \A i \in 1 .. Len(delivered) : all[i + Len(events)] = delivered[i]
  BY DEF ApartInv
<1>2. \A i \in 1 .. Len(all) : i \in 1 .. Len(events) \/ i - Len(events) \in 1 .. Len(delivered)
  BY <1>1
<1>3. \A i, k \in Places(r) : i = k
  BY <1>1, <1>2 DEF Places, ApartInv, InEvents, InDelivered
<1>4. Places(r) # {} <=> InEvents(r) \/ InDelivered(r)
  <2>1. ASSUME Places(r) # {} PROVE InEvents(r) \/ InDelivered(r)
    <3>1. PICK i \in 1 .. Len(all) : all[i] = r
      BY <2>1 DEF Places
    <3>2. CASE i \in 1 .. Len(events)
      BY <1>1, <3>1, <3>2 DEF InEvents
    <3>3. CASE i - Len(events) \in 1 .. Len(delivered)
      <4>1. delivered[i - Len(events)] = r
        BY <1>1, <3>1, <3>3
      <4> QED  BY <3>3, <4>1 DEF InDelivered
    <3> QED  BY <1>2, <3>2, <3>3
  <2>2. ASSUME InEvents(r) PROVE Places(r) # {}
    <3>1. PICK i \in 1 .. Len(events) : events[i] = r
      BY <2>2 DEF InEvents
    <3>2. i \in 1 .. Len(all) /\ all[i] = r
      BY <1>1, <3>1
    <3> QED  BY <3>2 DEF Places
  <2>3. ASSUME InDelivered(r) PROVE Places(r) # {}
    <3>1. PICK i \in 1 .. Len(delivered) : delivered[i] = r
      BY <2>3 DEF InDelivered
    <3>2. i + Len(events) \in 1 .. Len(all) /\ all[i + Len(events)] = r
      BY <1>1, <3>1
    <3> QED  BY <3>2 DEF Places
  <2> QED  BY <2>1, <2>2, <2>3
<1>5. CASE Places(r) = {}
  BY <1>4, <1>5, FS_EmptySet
<1>6. CASE Places(r) # {}
  <2>1. PICK i : Places(r) = {i}
    BY <1>3, <1>6
  <2> QED  BY <1>4, <1>6, <2>1, FS_Singleton
<1> QED
  BY <1>5, <1>6

\* An MCP client has one response to each message it had accepted, notifications
\* other than notifications/initialized included; a response is lost only to a
\* channel that was full.
THEOREM OneResponseEach == McpSpec => []OneResponse
<1>1. McpInit => ApartInv /\ OverInv
  <2> SUFFICES ASSUME McpInit PROVE ApartInv /\ OverInv
    OBVIOUS
  <2>1. events = <<>> /\ delivered = <<>> /\ dropped = {}
    BY DEF McpInit
  <2>2. ApartInv /\ \A r : ~ Responded(r)
    BY <2>1 DEF ApartInv, Responded, InEvents, InDelivered
  <2> QED  BY <2>2 DEF McpInit, OverInv
<1>2. ApartInv /\ OverInv => OneResponse
  <2> SUFFICES ASSUME ApartInv, OverInv, NEW r \in Requests
               PROVE  /\ Times(r) <= 1
                      /\ step[r] = "over" => (Times(r) = 0 <=> asks[r] = "initialized")
                      /\ r \in dropped => Len(events \o delivered) >= ChanCap
    BY DEF OneResponse
  <2>1. Len(events \o delivered) = Len(events) + Len(delivered)
    BY DEF ApartInv
  <2>2. Times(r) \in {0, 1} /\ (Times(r) = 0 <=> ~ Responded(r))
    BY PlacesOf DEF Times, Responded, ApartInv
  <2> QED  BY <2>1, <2>2 DEF ApartInv, OverInv
<1> QED
  BY <1>1, <1>2, ResponsesKept, PTL DEF McpSpec

-----------------------------------------------------------------------------
(* Key checks.                                                               *)

\* The cache holds nothing but Argon2's verdicts; a request that reached a
\* handler is one its endpoint routes there; a session is one an API key opened;
\* an answer is the right one.
AdmissionInv ==
  /\ toolsKey \in BOOLEAN
  /\ streams \subseteq SessionIds /\ opener \in [SessionIds -> Keys \cup {"none"}]
  /\ \A s \in streams : opener[s] = "api"
  /\ ask.to \in Endpoints
  /\ \A c \in verdicts : c.valid = Matches(c.key, c.hash)
  /\ stage \in {"routed", "hashing"} =>
       Routed(ask.to, AfterV1(ask.to, ask.v1s)) = "handler" /\ ask.to # "health"
  /\ stage = "hashing" => ask.key # "none" /\ ask.to \notin MCPMessages
  /\ ServedByRole

\* A routed endpoint has its key compared with the hash of its role.
LEMMA HashIsOfTheRole ==
  ASSUME AdmissionInv, stage \in {"routed", "hashing"}, ask.to \notin MCPMessages
  PROVE  RoleOf(ask.to) = Hash(ask.to) /\ Hash(ask.to) # "none" /\ RoleOf(ask.to) # "nobody"
BY DEF AdmissionInv, Routed, AfterV1, RoleOf, Hash, Endpoints, OpenAI, Anthropic, Tools, MCPMessages, Sockets, Open

\* Every spelling of a path that exists is routed to its handler.
LEMMA ExistingPathsAreRouted ==
  ASSUME NEW to \in Endpoints, NEW n \in 0 .. 2, n > 0 => to \in OpenAI \cup Anthropic
  PROVE  /\ Routed(to, AfterV1(to, n)) # "served"
         /\ to # "nowhere" /\ (to \in Tools \cup MCPMessages \cup {"tools_hello"} => toolsKey)
              => Routed(to, AfterV1(to, n)) = "handler"
         /\ RoleOf("health") = "nobody" /\ "health" \notin MCPMessages
BY DEF Routed, AfterV1, RoleOf, Endpoints, OpenAI, Anthropic, Tools, MCPMessages, Sockets, Open

LEMMA AdmissionInvKept ==
  ASSUME AdmissionInv, [AdmissionNext]_admvars
  PROVE  AdmissionInv'
<1>1. CASE Arrive
  <2>1. PICK to \in Endpoints, n \in 0 .. 2, key \in Keys \cup {"none"}, s \in SessionIds \cup {"none"} :
          /\ n > 0 => to \in OpenAI \cup Anthropic
          /\ ask' = [to |-> to, v1s |-> n, key |-> key, session |-> s]
          /\ LET r == Routed(to, AfterV1(to, n)) IN
             IF r # "handler" THEN stage' = "answered" /\ reply' = r
             ELSE IF to = "health" THEN stage' = "answered" /\ reply' = "served"
             ELSE stage' = "routed" /\ reply' = "nothing"
    BY <1>1 DEF Arrive
  <2>2. UNCHANGED <<toolsKey, verdicts, sessions>> /\ ask'.to = to /\ ask'.v1s = n
    BY <1>1, <2>1 DEF Arrive
  <2>3. PICK r : r = Routed(to, AfterV1(to, n))
    OBVIOUS
  <2>4. Routed(to, AfterV1(to, n))' = r
    BY <2>2, <2>3 DEF Routed, AfterV1
  <2>5. stage' \in {"routed", "hashing"} =>
          Routed(ask.to, AfterV1(ask.to, ask.v1s))' = "handler" /\ ask'.to # "health"
    BY <2>1, <2>2, <2>3, <2>4
  <2>6. ServedByRole'
    <3>1. SUFFICES ASSUME stage' = "answered", Exists'
                   PROVE  reply' = "served" /\ to = "health"
      BY <2>2, ExistingPathsAreRouted DEF ServedByRole
    <3> QED  BY <2>1, <2>2, <2>3, <3>1, ExistingPathsAreRouted DEF Exists
  <2>7. stage' # "hashing"
    BY <2>1
  <2> QED  BY <2>1, <2>2, <2>5, <2>6, <2>7 DEF AdmissionInv, sessions
<1>2. ASSUME stage \in {"routed", "hashing"}, ask.to \notin MCPMessages, Answer(ask.key = Hash(ask.to)),
             UNCHANGED <<toolsKey, ask>>, \A c \in verdicts' : c.valid = Matches(c.key, c.hash)
      PROVE  AdmissionInv'
  <2>1. streams' \subseteq SessionIds /\ opener' \in [SessionIds -> Keys \cup {"none"}]
        /\ \A s \in streams' : opener'[s] = "api"
    <3>1. CASE UNCHANGED sessions
      BY <3>1 DEF sessions, AdmissionInv
    <3>2. CASE ask.key = Hash(ask.to) /\ OpenSession /\ ask.to = "mcp_sse"
      <4>1. ask.key = "api" /\ "api" \in Keys
        BY <3>2 DEF Hash, Keys
      <4>2. PICK s \in SessionIds : /\ opener[s] = "none" /\ opener' = [opener EXCEPT ![s] = "api"]
                                    /\ streams' = streams \cup {s}
        BY <3>2, <4>1 DEF OpenSession
      <4> QED  BY <4>1, <4>2 DEF AdmissionInv
    <3> QED  BY <1>2, <3>1, <3>2 DEF Answer, OpenSession
  <2>2. ServedByRole'
    BY <1>2, HashIsOfTheRole DEF ServedByRole, Answer, Exists
  <2> QED  BY <1>2, <2>1, <2>2 DEF AdmissionInv, Answer
<1>3. CASE MissingKey
  <2>1. Answer(ask.key = Hash(ask.to))
    BY <1>3, HashIsOfTheRole DEF MissingKey, AsksForKey
  <2> QED  BY <1>2, <1>3, <2>1 DEF MissingKey, AsksForKey, AdmissionInv
<1>4. CASE CacheHit
  <2>1. Answer(ask.key = Hash(ask.to))
    BY <1>4 DEF CacheHit, AdmissionInv, SameVerdict, Matches
  <2> QED  BY <1>2, <1>4, <2>1 DEF CacheHit, AsksForKey, AdmissionInv
<1>5. CASE Verify
  <2>1. Answer(ask.key = Hash(ask.to)) /\ \A c \in verdicts' : c.valid = Matches(c.key, c.hash)
    BY <1>5 DEF Verify, AdmissionInv, Matches
  <2> QED  BY <1>2, <1>5, <2>1 DEF Verify, AdmissionInv
<1>6. CASE CacheMiss \/ VerdictExpires \/ UNCHANGED admvars
  BY <1>6 DEF CacheMiss, AsksForKey, VerdictExpires, admvars, sessions, AdmissionInv, ServedByRole, Exists,
               Routed, AfterV1
<1>7. CASE Leave
  BY <1>7 DEF Leave, sessions, AdmissionInv, ServedByRole, Nobody, Endpoints, Open
<1>8. CASE MessageToSession
  BY <1>8 DEF MessageToSession, sessions, AdmissionInv, ServedByRole
<1>9. CASE SessionEnds
  BY <1>9 DEF SessionEnds, AdmissionInv, ServedByRole, Exists, Routed, AfterV1
<1> QED
  BY <1>1, <1>3, <1>4, <1>5, <1>6, <1>7, <1>8, <1>9 DEF AdmissionNext

\* Cached verdict or fresh one, and however the path spells /v1, a request that
\* exists is served exactly if it brings the key of its endpoint's role, and a
\* message to an MCP session exactly if an API key has it open.
THEOREM KeysAreChecked == AdmissionSpec => []ServedByRole
<1>1. AdmissionInit => AdmissionInv
  BY DEF AdmissionInit, AdmissionInv, ServedByRole, Nobody, Endpoints, Open, Keys
<1>2. AdmissionInv => ServedByRole
  BY DEF AdmissionInv
<1> QED
  BY <1>1, <1>2, AdmissionInvKept, PTL DEF AdmissionSpec
-----------------------------------------------------------------------------
(* Keys, the model and the policies of a router that serves.                 *)

\* What setup showed is nowhere yet, is printed and waits for the operator, or is in
\* place; and a router that runs has the keys that are in place.
KeyInv ==
  /\ setups \in Nat /\ setups <= MaxSetups /\ shown \subseteq KeyRoles /\ applied \in BOOLEAN
  /\ environ \in [KeyRoles -> Nat] /\ dotenv \in [KeyRoles -> Nat] /\ printed \in [KeyRoles -> Nat]
  /\ applied => /\ printed = NoHashes
                /\ \A r \in shown : r = "tools" \/ environ[r] = Unset => Effective[r] = setups
  /\ printed # NoHashes => \A r \in KeyRoles : printed[r] = IF r \in shown THEN setups ELSE Unset
  /\ router # "down" => config.keys = Effective

LEMMA HashesMade ==
  ASSUME NEW roles \in SUBSET KeyRoles, setups \in Nat
  PROVE  /\ Hashes(roles) \in [KeyRoles -> Nat] /\ NoHashes \in [KeyRoles -> Nat]
         /\ \A r \in KeyRoles : Hashes(roles)[r] = IF r \in roles THEN setups + 1 ELSE Unset
         /\ \A r \in KeyRoles : NoHashes[r] = Unset
         /\ setups + 1 # Unset
BY DEF Hashes, NoHashes, Unset

LEMMA ShownRoles == \A t : Shown(t) \subseteq KeyRoles /\ ("tools" \in Shown(t) => t = Unset)
BY DEF Shown, KeyRoles

LEMMA KeyInvKept ==
  ASSUME KeyInv, [StartNext]_startvars
  PROVE  KeyInv'
<1>0. /\ setups \in Nat /\ setups <= MaxSetups /\ shown \subseteq KeyRoles /\ MaxSetups \in Nat
      /\ environ \in [KeyRoles -> Nat] /\ dotenv \in [KeyRoles -> Nat] /\ printed \in [KeyRoles -> Nat]
  BY StartAssumption DEF KeyInv
<1>1. ASSUME UNCHANGED keyvars, router' # "down" => config'.keys = Effective PROVE KeyInv'
  <2>1. Effective' = Effective
    BY <1>1 DEF keyvars, Effective
  <2> QED  BY <1>1, <2>1 DEF keyvars, KeyInv
<1>2. CASE SetupWriteEnv
  <2>1. /\ router' = "down" /\ setups < MaxSetups /\ setups' = setups + 1 /\ environ' = environ /\ applied' = TRUE
        /\ printed' = NoHashes /\ shown' = Shown(Effective.tools) /\ dotenv' = Hashes(shown') /\ dotenv = NoHashes
    BY <1>2 DEF SetupWriteEnv, CanSetUp
  <2>2. /\ shown' \subseteq KeyRoles /\ dotenv' \in [KeyRoles -> Nat]
        /\ \A r \in KeyRoles : dotenv'[r] = IF r \in shown' THEN setups + 1 ELSE Unset
        /\ printed' \in [KeyRoles -> Nat]
    BY <1>0, <2>1, HashesMade, ShownRoles
  <2>3. "tools" \in shown' => environ["tools"] = Unset
    <3>1. "tools" \in shown' => Effective["tools"] = Unset
      BY <2>1, ShownRoles
    <3>2. Effective["tools"] = IF environ["tools"] # Unset THEN environ["tools"] ELSE dotenv["tools"]
      BY DEF Effective, KeyRoles
    <3> QED  BY <3>1, <3>2
  <2>4. ASSUME NEW r \in shown', r = "tools" \/ environ'[r] = Unset PROVE Effective'[r] = setups'
    <3>1. r \in KeyRoles /\ environ'[r] = Unset /\ dotenv'[r] = setups + 1
      BY <2>1, <2>2, <2>3, <2>4
    <3> QED  BY <2>1, <3>1 DEF Effective
  <2>5. setups' \in Nat /\ setups' <= MaxSetups
    BY <1>0, <2>1
  <2> QED  BY <1>0, <2>1, <2>2, <2>4, <2>5 DEF KeyInv
<1>3. ASSUME NEW roles \in SUBSET KeyRoles, SetupPrint(roles) PROVE KeyInv'
  <2>1. /\ router' = "down" /\ setups < MaxSetups /\ setups' = setups + 1 /\ UNCHANGED <<environ, dotenv>>
        /\ applied' = FALSE /\ shown' = roles /\ printed' = Hashes(roles)
    BY <1>3 DEF SetupPrint, CanSetUp
  <2>2. printed' \in [KeyRoles -> Nat] /\ \A r \in KeyRoles : printed'[r] = IF r \in roles THEN setups + 1 ELSE Unset
    BY <1>0, <2>1, HashesMade
  <2>3. setups' \in Nat /\ setups' <= MaxSetups
    BY <1>0, <2>1
  <2> QED  BY <1>0, <2>1, <2>2, <2>3 DEF KeyInv
<1>4. CASE SetupFly
  <2>1. /\ router' = "down" /\ setups < MaxSetups /\ setups' = setups + 1 /\ dotenv' = dotenv
        /\ applied' = TRUE /\ shown' = KeyRoles /\ printed' = NoHashes /\ environ' = Hashes(KeyRoles)
    BY <1>4 DEF SetupFly, CanSetUp
  <2>2. /\ environ' \in [KeyRoles -> Nat] /\ \A r \in KeyRoles : environ'[r] = setups'
        /\ setups' # Unset /\ printed' \in [KeyRoles -> Nat]
    BY <1>0, <2>1, HashesMade
  <2>3. \A r \in KeyRoles : Effective'[r] = setups'
    BY <2>2 DEF Effective
  <2>4. setups' \in Nat /\ setups' <= MaxSetups
    BY <1>0, <2>1
  <2> QED  BY <1>0, <2>1, <2>2, <2>3, <2>4 DEF KeyInv
<1>5. CASE OperatorCopies
  <2>1. PICK inEnv : inEnv = IF environ.tools # Unset THEN {"tools"} ELSE {}
    OBVIOUS
  <2>2. /\ router' = "down" /\ printed # NoHashes /\ UNCHANGED <<setups, shown>>
        /\ printed' = NoHashes /\ applied' = TRUE
        /\ environ' = [r \in KeyRoles |-> IF r \in inEnv /\ printed[r] # Unset THEN printed[r] ELSE environ[r]]
        /\ dotenv' = [r \in KeyRoles |-> IF r \in KeyRoles \ inEnv /\ printed[r] # Unset THEN printed[r] ELSE dotenv[r]]
    BY <1>5, <2>1 DEF OperatorCopies
  <2>3. \A r \in KeyRoles : printed[r] = IF r \in shown THEN setups ELSE Unset
    BY <2>2 DEF KeyInv
  <2>4. setups # Unset
    <3> SUFFICES ASSUME setups = Unset PROVE FALSE
      OBVIOUS
    <3>1. \A r \in KeyRoles : printed[r] = Unset
      BY <2>3
    <3>2. printed = NoHashes
      BY <1>0, <3>1 DEF NoHashes
    <3> QED  BY <2>2, <3>2
  <2>5. ASSUME NEW r \in shown', r = "tools" \/ environ'[r] = Unset PROVE Effective'[r] = setups'
    <3>1. r \in KeyRoles /\ r \in shown /\ printed[r] = setups
      BY <1>0, <2>2, <2>3
    <3>2. CASE r \in inEnv
      <4>1. environ'[r] = setups
        BY <2>2, <2>4, <3>1, <3>2
      <4> QED  BY <2>2, <2>4, <3>1, <4>1 DEF Effective
    <3>3. CASE r \notin inEnv
      <4>1. environ'[r] = environ[r] /\ dotenv'[r] = setups
        BY <2>2, <2>4, <3>1, <3>3
      <4>2. environ'[r] = Unset
        BY <2>1, <2>5, <3>3, <4>1
      <4> QED  BY <2>2, <3>1, <4>1, <4>2 DEF Effective
    <3> QED  BY <3>2, <3>3
  <2>6. environ' \in [KeyRoles -> Nat] /\ dotenv' \in [KeyRoles -> Nat] /\ printed' \in [KeyRoles -> Nat]
    BY <1>0, <2>2, HashesMade
  <2> QED  BY <1>0, <2>2, <2>5, <2>6 DEF KeyInv
<1>6. CASE LoadConfig
  <2>1. UNCHANGED keyvars
    BY <1>6 DEF LoadConfig
  <2>2. config'.keys = Effective
    BY <1>6 DEF LoadConfig
  <2> QED  BY <1>1, <2>1, <2>2
<1>7. CASE Exits
  BY <1>1, <1>7 DEF Exits
<1>8. ASSUME NEW phase, EntersPhase(phase), router # "down" PROVE KeyInv'
  BY <1>1, <1>8 DEF EntersPhase, KeyInv
<1>9. CASE HandleHello \/ UNCHANGED startvars
  BY <1>1, <1>9 DEF HandleHello, startvars, keyvars, KeyInv
<1>10. CASE StartRedis \/ NewServer \/ Shutdown \/ Exit
  BY <1>7, <1>8, <1>10 DEF StartRedis, NewServer, Shutdown, Exit
<1>11. CASE Setup \/ SetupCLI \/ NewToolsKey
  BY <1>3, <1>11, ShownRoles DEF Setup, SetupCLI, NewToolsKey, KeyRoles
<1> QED
  BY <1>2, <1>4, <1>5, <1>6, <1>9, <1>10, <1>11 DEF StartNext

\* Whichever setup commands ran, and whatever was configured before, the keys that
\* the last of them showed are the ones a router started on them takes (main.go:
\* runSetup, runNewToolsKey and the .env file that LoadConfig reads below the
\* environment).
THEOREM SetupKeysWork == StartSpec => []KeysShownWork
<1>1. StartInit => KeyInv
  <2> SUFFICES ASSUME StartInit PROVE KeyInv
    OBVIOUS
  <2>1. environ \in [KeyRoles -> Nat]
    <3>1. Old \in Nat /\ Unset \in Nat
      BY StartAssumption DEF Old, Unset
    <3>2. NoHashes \in [KeyRoles -> Nat] /\ [NoHashes EXCEPT !.tools = Old] \in [KeyRoles -> Nat]
          /\ [r \in KeyRoles |-> Old] \in [KeyRoles -> Nat]
      BY <3>1 DEF NoHashes
    <3> QED  BY <3>2 DEF StartInit
  <2>2. NoHashes \in [KeyRoles -> Nat]
    BY DEF NoHashes, Unset
  <2>3. /\ setups = 0 /\ shown = {} /\ applied = FALSE /\ router = "down" /\ dotenv = NoHashes /\ printed = NoHashes
    BY DEF StartInit
  <2>4. 0 \in Nat /\ 0 <= MaxSetups
    BY StartAssumption
  <2> QED  BY <2>1, <2>2, <2>3, <2>4 DEF KeyInv
<1>2. KeyInv => KeysShownWork
  BY DEF KeyInv, KeysShownWork
<1> QED
  BY <1>1, <1>2, KeyInvKept, PTL DEF StartSpec

\* The model that was resolved is in the registry, and what asked for it did.
Resolved ==
  \E v \in ToSet(catalog) :
    /\ v.name = config.run.model /\ v.quant = config.run.quant /\ config.run.ctx <= v.maxctx
    /\ \/ v.id = wanted.model
       \/ v.name = wanted.model /\ wanted.quant = v.quant
       \/ /\ v.name = wanted.model /\ wanted.quant = "none"
          /\ \A u \in ToSet(catalog) : u.name = v.name => Rank(v.quant) <= Rank(u.quant)
\* A router that runs has resolved its model, and the last greeting is of its policy.
ModelInv ==
  /\ router = "down" => greeting = NoGreeting
  /\ router # "down" => wanted.type \in {"gpu", "cli"}
  /\ router # "down" /\ wanted.type = "gpu" => Resolved
  /\ PolicyRunnable

LEMMA LeastPlace ==
  ASSUME NEW S, S \subseteq Nat, S # {}
  PROVE  Min(S) \in S /\ \A n \in S : Min(S) <= n
<1>0. \E m \in S : \A n \in S : <<n, m>> \notin OpToRel(<, Nat)
  BY NatLessThanWellFounded, WFMin, Zenon
<1>1. PICK m \in S : \A n \in S : ~ (n < m)
  BY <1>0, Zenon DEF OpToRel
<1>2. \A n \in S : m <= n
  <2> SUFFICES ASSUME NEW n \in S PROVE m <= n
    OBVIOUS
  <2>1. n \in Nat /\ m \in Nat /\ ~ (n < m)
    BY <1>1
  <2> QED  BY <2>1
<1> QED
  BY <1>1, <1>2 DEF Min

LEMMA PreferredPlaces ==
  /\ DOMAIN Preferred = 1 .. 6
  /\ \A p, q \in 1 .. 6 : Preferred[p] = Preferred[q] => p = q
  /\ \A p \in 1 .. 6 : Preferred[p] # "F16"
<1>1. /\ Preferred[1] = "Q4_K_S" /\ Preferred[2] = "Q4_K_M" /\ Preferred[3] = "Q5_K_S" /\ Preferred[4] = "Q5_K_M"
      /\ Preferred[5] = "Q6_K" /\ Preferred[6] = "Q8_0" /\ DOMAIN Preferred = 1 .. 6
  BY DEF Preferred
<1>2. \A p \in 1 .. 6 : p = 1 \/ p = 2 \/ p = 3 \/ p = 4 \/ p = 5 \/ p = 6
  OBVIOUS
<1> QED
  BY <1>1, <1>2

LEMMA RankOf ==
  /\ \A p \in 1 .. 6 : Rank(Preferred[p]) = p
  /\ \A quant : Rank(quant) \in 1 .. 8
  /\ \A quant : quant \notin ToSet(Preferred) => Rank(quant) = IF quant = "F16" THEN 8 ELSE 7
<1>1. ASSUME NEW p \in 1 .. 6 PROVE Rank(Preferred[p]) = p
  <2>1. Preferred[p] # "F16" /\ Preferred[p] \in ToSet(Preferred)
    BY PreferredPlaces DEF ToSet
  <2>2. (CHOOSE i \in 1 .. 6 : Preferred[i] = Preferred[p]) = p
    BY PreferredPlaces
  <2> QED  BY <2>1, <2>2 DEF Rank
<1>2. ASSUME NEW quant PROVE Rank(quant) \in 1 .. 8 /\ (quant \notin ToSet(Preferred) => Rank(quant) = IF quant = "F16" THEN 8 ELSE 7)
  <2>1. CASE quant \in ToSet(Preferred)
    <3>1. PICK p \in 1 .. 6 : quant = Preferred[p]
      BY <2>1, PreferredPlaces DEF ToSet
    <3> QED  BY <1>1, <2>1, <3>1
  <2>2. CASE quant \notin ToSet(Preferred)
    BY <2>2 DEF Rank
  <2> QED  BY <2>1, <2>2
<1> QED
  BY <1>1, <1>2

\* What is chosen without a quantization asked for ranks first of its name.
LEMMA AutoSelectBest ==
  ASSUME NEW rows, NEW variants, NEW n \in AutoSelect(rows, variants)
  PROVE  n \in variants /\ \A m \in variants : Rank(rows[n].quant) <= Rank(rows[m].quant)
<1>1. PICK some : some = {p \in DOMAIN Preferred : WithQuant(rows, variants, Preferred[p]) # {}}
  OBVIOUS
<1>2. PICK plain : plain = {v \in variants : rows[v].quant # "F16"}
  OBVIOUS
<1>3. AutoSelect(rows, variants) = IF some # {} THEN WithQuant(rows, variants, Preferred[Min(some)])
                                   ELSE IF plain # {} THEN plain ELSE variants
  BY <1>1, <1>2 DEF AutoSelect
<1>4. \A m \in variants : rows[m].quant \in ToSet(Preferred) => \E p \in some : rows[m].quant = Preferred[p]
  BY <1>1 DEF WithQuant, ToSet
<1>5. some \subseteq 1 .. 6
  BY <1>1, PreferredPlaces
<1>6. CASE some # {}
  <2>1. PICK p : p = Min(some)
    OBVIOUS
  <2>2. p \in some /\ \A q \in some : p <= q
    <3>1. some \subseteq Nat
      BY <1>5
    <3> QED  BY <1>6, <2>1, <3>1, LeastPlace
  <2>3. n \in variants /\ rows[n].quant = Preferred[p]
    BY <1>3, <1>6, <2>1 DEF WithQuant
  <2>4. Rank(rows[n].quant) = p /\ p \in 1 .. 6
    BY <1>5, <2>2, <2>3, RankOf
  <2>5. ASSUME NEW m \in variants PROVE p <= Rank(rows[m].quant)
    <3>1. CASE rows[m].quant \in ToSet(Preferred)
      <4>1. PICK q \in some : rows[m].quant = Preferred[q]
        BY <1>4, <3>1
      <4> QED  BY <1>5, <2>2, <4>1, RankOf
    <3>2. CASE rows[m].quant \notin ToSet(Preferred)
      <4>1. Rank(rows[m].quant) \in {7, 8}
        BY <3>2, RankOf
      <4> QED  BY <2>4, <4>1
    <3> QED  BY <3>1, <3>2
  <2> QED  BY <2>3, <2>4, <2>5
<1>7. CASE some = {}
  <2>1. \A m \in variants : Rank(rows[m].quant) = IF rows[m].quant = "F16" THEN 8 ELSE 7
    BY <1>4, <1>7, RankOf
  <2>2. n \in variants /\ (plain # {} => rows[n].quant # "F16") /\ (plain = {} => \A m \in variants : rows[m].quant = "F16")
    BY <1>2, <1>3, <1>7
  <2> QED  BY <1>2, <2>1, <2>2
<1> QED
  BY <1>6, <1>7

LEMMA RowsAppended ==
  ASSUME NEW small, NEW big, NEW r \in BoundedSeq(small, 2), NEW rows, rows = Append(r, big),
         big.maxctx \in Nat, \A row \in small : row.maxctx \in Nat
  PROVE  DOMAIN rows \subseteq Nat /\ \A n \in DOMAIN rows : rows[n].maxctx \in Nat
<1>1. PICK Rows : Rows = small \cup {big}
  OBVIOUS
<1>2. r \in Seq(Rows)
  <2>1. PICK n \in 0 .. 2 : r \in [1 .. n -> small]
    BY DEF BoundedSeq, SeqOf
  <2>2. r \in [1 .. n -> Rows] /\ n \in Nat
    BY <1>1, <2>1
  <2> QED  BY <2>2, SeqDef
<1>3. rows \in Seq(Rows)
  BY <1>1, <1>2, AppendProperties
<1>4. DOMAIN rows = 1 .. Len(rows) /\ Len(rows) \in Nat /\ \A n \in 1 .. Len(rows) : rows[n] \in Rows
  BY <1>3, LenProperties, ElementOfSeq
<1>5. \A row \in Rows : row.maxctx \in Nat
  BY <1>1
<1> QED
  BY <1>4, <1>5

\* A registry is a sequence of rows whose contexts are lengths.
LEMMA RegistryRows ==
  ASSUME NEW rows \in Catalogs
  PROVE  DOMAIN rows \subseteq Nat /\ \A n \in DOMAIN rows : rows[n].maxctx \in Nat
<1>1. PICK r \in BoundedSeq(Variants, 2) : rows = Append(r, Row("n", "Q4_K_S", 8192))
  BY SMT DEF Catalogs
<1>2. Row("n", "Q4_K_S", 8192).maxctx \in Nat /\ \A row \in Variants : row.maxctx \in Nat
  BY SMT DEF Row, Variants
<1> QED
  BY <1>1, <1>2, RowsAppended, SMT

LEMMA LoadConfigResolves ==
  ASSUME LoadConfig
  PROVE  /\ wanted'.type \in {"gpu", "cli"} /\ router' # "down" /\ greeting' = greeting
         /\ wanted'.type = "gpu" => Resolved'
<1>1. /\ catalog' \in Catalogs /\ wanted' \in Environments /\ router' # "down" /\ greeting' = greeting
  BY DEF LoadConfig
<1>2. wanted'.type \in {"gpu", "cli"} /\ wanted'.ctx \in Nat
  BY <1>1 DEF Environments
<1>3. ASSUME wanted'.type = "gpu" PROVE Resolved'
  <2>1. PICK rows, w : rows = catalog' /\ w = wanted'
    OBVIOUS
  <2>2. PICK found : found = ResolveModel(rows, w.model, w.quant)
    OBVIOUS
  <2>3. found # {} /\ config' = [keys |-> Effective, run |-> GPUConfig(w, rows[Min(found)])]
    BY <1>3, <2>1, <2>2 DEF LoadConfig
  <2>4. /\ DOMAIN rows \subseteq Nat /\ \A n \in DOMAIN rows : rows[n].maxctx \in Nat
    BY <1>1, <2>1, RegistryRows
  <2>5. /\ FindByID(rows, w.model) \subseteq DOMAIN rows /\ FindByName(rows, w.model) \subseteq DOMAIN rows
        /\ FindByNameAndQuant(rows, w.model, w.quant) \subseteq DOMAIN rows
        /\ AutoSelect(rows, FindByName(rows, w.model)) \subseteq DOMAIN rows
    <3>1. FindByID(rows, w.model) \subseteq DOMAIN rows /\ FindByName(rows, w.model) \subseteq DOMAIN rows
      BY DEF FindByID, FindByName
    <3> QED  BY <3>1, AutoSelectBest DEF FindByNameAndQuant, WithQuant
  <2>6. found \subseteq DOMAIN rows
    BY <2>2, <2>5 DEF ResolveModel
  <2>7. PICK n : n = Min(found)
    OBVIOUS
  <2>8. n \in found /\ n \in DOMAIN rows /\ rows[n] \in ToSet(rows) /\ rows[n].maxctx \in Nat
    <3>1. n \in found
      BY <2>3, <2>4, <2>6, <2>7, LeastPlace
    <3> QED  BY <2>4, <2>6, <3>1 DEF ToSet
  <2>9. /\ config'.run.model = rows[n].name /\ config'.run.quant = rows[n].quant
        /\ config'.run.ctx = IF w.ctx > rows[n].maxctx THEN rows[n].maxctx ELSE w.ctx
    BY <2>3, <2>7 DEF GPUConfig
  <2>10. config'.run.ctx <= rows[n].maxctx
    BY <1>2, <2>1, <2>8, <2>9
  <2>11. \/ rows[n].id = w.model
         \/ rows[n].name = w.model /\ w.quant = rows[n].quant
         \/ /\ rows[n].name = w.model /\ w.quant = "none"
            /\ \A u \in ToSet(rows) : u.name = rows[n].name => Rank(rows[n].quant) <= Rank(u.quant)
    <3>1. CASE FindByID(rows, w.model) # {}
      BY <2>2, <2>8, <3>1 DEF ResolveModel, FindByID
    <3>2. CASE FindByID(rows, w.model) = {} /\ w.quant # "none"
      BY <2>2, <2>8, <3>2 DEF ResolveModel, FindByNameAndQuant, WithQuant, FindByName
    <3>3. CASE FindByID(rows, w.model) = {} /\ w.quant = "none"
      <4>1. n \in AutoSelect(rows, FindByName(rows, w.model))
        BY <2>2, <2>8, <3>3 DEF ResolveModel
      <4>2. /\ n \in FindByName(rows, w.model)
            /\ \A m \in FindByName(rows, w.model) : Rank(rows[n].quant) <= Rank(rows[m].quant)
        BY <4>1, AutoSelectBest
      <4> QED  BY <3>3, <4>2 DEF FindByName, ToSet
    <3> QED  BY <3>1, <3>2, <3>3
  <2> QED  BY <2>1, <2>8, <2>9, <2>10, <2>11 DEF Resolved
<1> QED
  BY <1>1, <1>2, <1>3

LEMMA ModelInvKept ==
  ASSUME ModelInv, [StartNext]_startvars
  PROVE  ModelInv'
<1>1. ASSUME UNCHANGED <<catalog, wanted, config, greeting>>, router' = "down" <=> router = "down" PROVE ModelInv'
  <2>1. (Resolved <=> Resolved') /\ (PolicyRunnable <=> PolicyRunnable')
    BY <1>1 DEF Resolved, PolicyRunnable, NoGreeting
  <2> QED  BY <1>1, <2>1 DEF ModelInv, NoGreeting
<1>2. CASE Exits
  <2>1. router' = "down" /\ greeting' = NoGreeting
    BY <1>2 DEF Exits
  <2> QED  BY <2>1 DEF ModelInv, PolicyRunnable
<1>3. CASE LoadConfig
  <2>1. greeting' = NoGreeting
    BY <1>3 DEF LoadConfig, ModelInv
  <2> QED  BY <1>3, <2>1, LoadConfigResolves DEF ModelInv, PolicyRunnable
<1>4. CASE HandleHello
  <2>1. /\ router = "serving" /\ UNCHANGED <<catalog, wanted, config, router>>
    BY <1>4 DEF HandleHello
  <2>2. PICK backend \in {"llama.cpp", "codex"} :
         greeting' = IF wanted.type = "cli" \/ IsCLIBackend(backend)
                     THEN [worker |-> "cli", backend |-> backend, model |-> CLIModel("announced"), ctx |-> 200000, parallel |-> 1]
                     ELSE [worker |-> "gpu", backend |-> backend, model |-> config.run.model, ctx |-> config.run.ctx,
                           parallel |-> config.run.parallel]
    BY <1>4 DEF HandleHello
  <2>3. CASE wanted.type = "cli" \/ IsCLIBackend(backend)
    <3>1. greeting'.worker = "cli" /\ greeting'.model = CLIModel("announced")
      BY <2>2, <2>3
    <3> QED  BY <2>1, <3>1 DEF ModelInv, Resolved, PolicyRunnable, CLIModel
  <2>4. CASE ~ (wanted.type = "cli" \/ IsCLIBackend(backend))
    <3>1. greeting'.worker = "gpu" /\ greeting'.model = config.run.model /\ greeting'.backend = backend
      BY <2>2, <2>4
    <3>2. wanted.type = "gpu" /\ \E v \in ToSet(catalog) : v.name = config.run.model
      BY <2>1, <2>4 DEF ModelInv, Resolved
    <3>3. PolicyRunnable'
      BY <2>1, <2>4, <3>1, <3>2 DEF PolicyRunnable, IsCLIBackend
    <3> QED  BY <2>1, <3>3 DEF ModelInv, Resolved
  <2> QED  BY <2>3, <2>4
<1>5. ASSUME NEW phase, EntersPhase(phase), router # "down", phase # "down" PROVE ModelInv'
  BY <1>1, <1>5 DEF EntersPhase
<1>6. CASE StartRedis \/ NewServer \/ Shutdown \/ Exit
  BY <1>2, <1>5, <1>6 DEF StartRedis, NewServer, Shutdown, Exit
<1>7. CASE SetupWriteEnv \/ Setup \/ SetupCLI \/ NewToolsKey \/ SetupFly \/ OperatorCopies \/ UNCHANGED startvars
  BY <1>1, <1>7 DEF SetupWriteEnv, Setup, SetupCLI, NewToolsKey, SetupPrint, SetupFly, OperatorCopies, startvars
<1> QED
  BY <1>2, <1>3, <1>4, <1>6, <1>7 DEF StartNext

\* Whatever the registry and the environment, a GPU router that serves has a model
\* of the registry, of the asked quantization or of the one that ranks first, and
\* within its context (config.go: resolveModel and LoadConfig).
THEOREM ModelIsResolved == StartSpec => []ModelResolved
<1>1. StartInit => ModelInv
  BY DEF StartInit, ModelInv, PolicyRunnable
<1>2. ModelInv => ModelResolved
  BY DEF ModelInv, ModelResolved, Resolved
<1> QED
  BY <1>1, <1>2, ModelInvKept, PTL DEF StartSpec

\* No worker is told to run what it cannot: a GPU worker a model the registry has,
\* a CLI worker its own or the configured one (wshandler.go: buildGPUPolicy and
\* buildCLIPolicy).
THEOREM PoliciesCanRun == StartSpec => []PolicyRunnable
<1>1. StartInit => ModelInv
  BY DEF StartInit, ModelInv, PolicyRunnable
<1>2. ModelInv => PolicyRunnable
  BY DEF ModelInv
<1> QED
  BY <1>1, <1>2, ModelInvKept, PTL DEF StartSpec

-----------------------------------------------------------------------------
(* Conversion of requests.                                                   *)

Blocks == [type : {"text", "thinking", "tool_use", "tool_result"}, id : CallIds \cup {"none"}]
Requested == Messages \cup ChatMessages

\* What the blocks of a message may be.
LEMMA FormsOf ==
  ASSUME NEW m \in Messages
  PROVE  /\ m.role \in {"user", "assistant"} /\ m.plain \in BOOLEAN /\ m.blocks \in Seq(Blocks)
         /\ m.plain => m.blocks = <<Text>>
         /\ \A i \in 1 .. Len(m.blocks) :
              /\ m.blocks[i].type \in {"text", "thinking"} \cup (IF m.role = "user" THEN {"tool_result"} ELSE {"tool_use"})
              /\ m.blocks[i].type \in {"tool_use", "tool_result"} => m.blocks[i].id \in CallIds
         /\ m.role = "assistant" /\ (\A i \in 1 .. Len(m.blocks) : m.blocks[i].type = "thinking") => m.blocks = <<Ignored>>
<1>1. Text \in Blocks /\ Ignored \in Blocks /\ \A i \in CallIds : Use(i) \in Blocks /\ Result(i) \in Blocks
  BY DEF Text, Ignored, Use, Result, Blocks
<1>2. /\ Text.type = "text" /\ Ignored.type = "thinking" /\ "c1" \in CallIds /\ "c2" \in CallIds
      /\ \A i \in CallIds : Use(i).type = "tool_use" /\ Use(i).id = i /\ Result(i).type = "tool_result" /\ Result(i).id = i
  BY DEF Text, Ignored, Use, Result, CallIds
<1> DEFINE Fits(b, role) ==
      /\ b \in Seq(Blocks)
      /\ \A i \in 1 .. Len(b) :
           /\ b[i].type \in {"text", "thinking"} \cup (IF role = "user" THEN {"tool_result"} ELSE {"tool_use"})
           /\ b[i].type \in {"tool_use", "tool_result"} => b[i].id \in CallIds
      /\ role = "assistant" /\ (\A i \in 1 .. Len(b) : b[i].type = "thinking") => b = <<Ignored>>
<1>3. ASSUME NEW x \in Blocks, NEW role, x.type \in {"text", "thinking"} \cup (IF role = "user" THEN {"tool_result"} ELSE {"tool_use"}),
             x.type \in {"tool_use", "tool_result"} => x.id \in CallIds, x.type # "thinking" \/ x = Ignored
      PROVE  Fits(<<x>>, role)
  <2>1. <<x>> \in Seq(Blocks) /\ Len(<<x>>) = 1 /\ <<x>>[1] = x /\ \A i \in 1 .. 1 : i = 1
    OBVIOUS
  <2> QED  BY <1>3, <2>1
<1>4. ASSUME NEW x \in Blocks, NEW y \in Blocks, NEW role,
             x.type \in {"text", "thinking"} \cup (IF role = "user" THEN {"tool_result"} ELSE {"tool_use"}),
             y.type \in {"text", "thinking"} \cup (IF role = "user" THEN {"tool_result"} ELSE {"tool_use"}),
             x.type \in {"tool_use", "tool_result"} => x.id \in CallIds, 
             y.type \in {"tool_use", "tool_result"} => y.id \in CallIds, x.type # "thinking"
      PROVE  Fits(<<x, y>>, role)
  <2>1. <<x, y>> \in Seq(Blocks) /\ Len(<<x, y>>) = 2 /\ <<x, y>>[1] = x /\ <<x, y>>[2] = y
    OBVIOUS
  <2>2. \A i \in 1 .. 2 : i = 1 \/ i = 2
    OBVIOUS
  <2>3. 1 \in 1 .. 2
    OBVIOUS
  <2> QED  BY <1>4, <2>1, <2>2, <2>3
<1>5. \A b \in UserForms : Fits(b, "user")
  <2> SUFFICES ASSUME NEW b \in UserForms PROVE Fits(b, "user")
    OBVIOUS
  <2>1. Fits(<<Text>>, "user") /\ Fits(<<Ignored>>, "user")
    BY <1>1, <1>2, <1>3
  <2>2. Fits(<<Result("c1")>>, "user") /\ Fits(<<Result("c2")>>, "user")
    BY <1>1, <1>2, <1>3
  <2>3. Fits(<<Result("c1"), Text>>, "user") /\ Fits(<<Text, Result("c1")>>, "user") /\ Fits(<<Result("c1"), Result("c2")>>, "user")
    BY <1>1, <1>2, <1>4
  <2> HIDE DEF Fits
  <2> QED  BY <2>1, <2>2, <2>3 DEF UserForms
<1>6. \A b \in AssistantForms : Fits(b, "assistant")
  <2> SUFFICES ASSUME NEW b \in AssistantForms PROVE Fits(b, "assistant")
    OBVIOUS
  <2>1. Fits(<<Text>>, "assistant") /\ Fits(<<Ignored>>, "assistant") /\ Fits(<<Use("c1")>>, "assistant")
    BY <1>1, <1>2, <1>3
  <2>2. /\ Fits(<<Text, Use("c1")>>, "assistant") /\ Fits(<<Use("c1"), Use("c2")>>, "assistant")
        /\ Fits(<<Use("c1"), Text>>, "assistant")
    BY <1>1, <1>2, <1>4
  <2> HIDE DEF Fits
  <2> QED  BY <2>1, <2>2 DEF AssistantForms
<1>7. Fits(<<Text>>, "user") /\ Fits(<<Text>>, "assistant")
  BY <1>1, <1>2, <1>3
<1>8. /\ m.role \in {"user", "assistant"} /\ m.plain \in BOOLEAN /\ Fits(m.blocks, m.role)
      /\ m.plain => m.blocks = <<Text>>
  <2>1. CASE \E b \in UserForms : m = Said("user", FALSE, b)
    <3>1. PICK b \in UserForms : m = Said("user", FALSE, b)
      BY <2>1
    <3>2. m.role = "user" /\ m.plain = FALSE /\ m.blocks = b
      BY <3>1 DEF Said
    <3>3. Fits(b, "user")
      BY <1>5
    <3> HIDE DEF Fits
    <3>4. Fits(m.blocks, m.role)
      BY <3>2, <3>3
    <3> QED  BY <3>2, <3>4
  <2>2. CASE \E b \in AssistantForms : m = Said("assistant", FALSE, b)
    <3>1. PICK b \in AssistantForms : m = Said("assistant", FALSE, b)
      BY <2>2
    <3>2. m.role = "assistant" /\ m.plain = FALSE /\ m.blocks = b
      BY <3>1 DEF Said
    <3>3. Fits(b, "assistant")
      BY <1>6
    <3> HIDE DEF Fits
    <3>4. Fits(m.blocks, m.role)
      BY <3>2, <3>3
    <3> QED  BY <3>2, <3>4
  <2>3. CASE \E role \in {"user", "assistant"} : m = Said(role, TRUE, <<Text>>)
    <3>1. PICK role \in {"user", "assistant"} : m = Said(role, TRUE, <<Text>>)
      BY <2>3
    <3>2. m.role = role /\ m.plain = TRUE /\ m.blocks = <<Text>>
      BY <3>1 DEF Said
    <3> HIDE DEF Fits
    <3>3. Fits(<<Text>>, role)
      BY <1>7
    <3>4. Fits(m.blocks, m.role)
      BY <3>2, <3>3
    <3> QED  BY <3>2, <3>4
  <2> QED  BY <2>1, <2>2, <2>3 DEF Messages
<1> QED
  BY <1>8

LEMMA ChatFormsOf ==
  ASSUME NEW m \in ChatMessages
  PROVE  /\ m.role \in {"user", "assistant", "tool"} /\ m.blocks \in Seq(Blocks)
         /\ \A i \in 1 .. Len(m.blocks) : m.blocks[i].type \in {"tool_use", "tool_result"} => m.blocks[i].id \in CallIds
         /\ m.role = "tool" => Len(m.blocks) = 1 /\ m.blocks[1].type = "tool_result"
         /\ m.role # "tool" => \A i \in 1 .. Len(m.blocks) : m.blocks[i].type # "tool_result"
         /\ m.blocks # <<Ignored>>
<1>1. Text \in Blocks /\ \A i \in CallIds : Use(i) \in Blocks /\ Result(i) \in Blocks
  BY DEF Text, Use, Result, Blocks
<1>2. /\ Text.type = "text" /\ Ignored.type = "thinking" /\ "c1" \in CallIds /\ "c2" \in CallIds
      /\ \A i \in CallIds : Use(i).type = "tool_use" /\ Use(i).id = i /\ Result(i).type = "tool_result" /\ Result(i).id = i
  BY DEF Text, Ignored, Use, Result, CallIds
<1>3. PICK t \in Blocks, u \in Blocks, v \in Blocks, r \in Blocks :
        t = Text /\ u = Use("c1") /\ v = Use("c2") /\ r = Result("c1")
  BY <1>1, <1>2
<1>4. /\ t.type = "text" /\ u.type = "tool_use" /\ u.id \in CallIds /\ v.type = "tool_use" /\ v.id \in CallIds
      /\ r.type = "tool_result" /\ r.id \in CallIds
  BY <1>2, <1>3
<1>5. <<t>> \in Seq(Blocks) /\ <<u>> \in Seq(Blocks) /\ <<r>> \in Seq(Blocks) /\ <<t, u, v>> \in Seq(Blocks)
  OBVIOUS
<1>6. /\ Len(<<t>>) = 1 /\ <<t>>[1] = t /\ Len(<<u>>) = 1 /\ <<u>>[1] = u /\ Len(<<r>>) = 1 /\ <<r>>[1] = r
      /\ Len(<<t, u, v>>) = 3 /\ <<t, u, v>>[1] = t /\ <<t, u, v>>[2] = u /\ <<t, u, v>>[3] = v
  OBVIOUS
<1>7. (\A i \in 1 .. 1 : i = 1) /\ (\A i \in 1 .. 3 : i = 1 \/ i = 2 \/ i = 3)
  OBVIOUS
<1>8. \A s : s = <<Ignored>> => s[1] = Ignored
  OBVIOUS
<1>9. \/ m.role = "user" /\ m.blocks = <<t>>
      \/ m.role = "assistant" /\ m.blocks = <<t, u, v>>
      \/ m.role = "assistant" /\ m.blocks = <<u>>
      \/ m.role = "tool" /\ m.blocks = <<r>>
  BY <1>3 DEF ChatMessages, Said
<1>10. CASE m.role = "user" /\ m.blocks = <<t>>
  BY <1>2, <1>4, <1>5, <1>6, <1>7, <1>8, <1>10
<1>11. CASE m.role = "assistant" /\ m.blocks = <<t, u, v>>
  BY <1>2, <1>4, <1>5, <1>6, <1>7, <1>8, <1>11
<1>12. CASE m.role = "assistant" /\ m.blocks = <<u>>
  BY <1>2, <1>4, <1>5, <1>6, <1>7, <1>8, <1>12
<1>13. CASE m.role = "tool" /\ m.blocks = <<r>>
  BY <1>2, <1>4, <1>5, <1>6, <1>7, <1>8, <1>13
<1> QED
  BY <1>9, <1>10, <1>11, <1>12, <1>13

Calls == {"tool_use", "tool_result"}
\* The ids of the blocks of one kind, in their order, are the ids of that kind.
LEMMA IdsOfBlocks ==
  ASSUME NEW b \in Seq(Blocks), NEW type \in Calls,
         \A i \in 1 .. Len(b) : b[i].type = type => b[i].id \in CallIds
  PROVE  /\ IdsOf(b, type) \in Seq(CallIds)
         /\ Len(IdsOf(b, type)) = Cardinality(BlocksOf(b, type))
         /\ ElementsOf(IdsOf(b, type)) = {b[i].id : i \in BlocksOf(b, type)}
         /\ IdsOf(b, type) # <<>> <=> Has(b, type)
<1>1. PICK P : P = BlocksOf(b, type)
  OBVIOUS
<1>2. P \subseteq 1 .. Len(b) /\ \A i \in P : i \in 1 .. Len(b) /\ b[i].type = type /\ b[i].id \in CallIds
  BY <1>1 DEF BlocksOf
<1>3. Len(b) \in Nat
  OBVIOUS
<1>4. At(b, P) \in Seq(Blocks)
  BY AtType, Zenon
<1>5. PICK found \in Seq(Blocks) : found = At(b, P)
  BY <1>4, Zenon
<1>6. P \cap (1 .. Len(b)) = P
  BY <1>2
<1>7. Len(found) = Cardinality(P)
  BY <1>5, <1>6, AtLen, Zenon
<1>8. ElementsOf(found) = {b[i] : i \in P}
  BY <1>5, <1>6, AtEntries, Zenon
<1>9. \A i \in 1 .. Len(found) : \E p \in P : found[i] = b[p]
  BY <1>8 DEF ElementsOf
<1>10. PICK ids : ids = [i \in 1 .. Len(found) |-> found[i].id]
  OBVIOUS
<1>11. IdsOf(b, type) = ids
  BY <1>1, <1>5, <1>10 DEF IdsOf
<1>12. \A i \in 1 .. Len(found) : found[i].id \in CallIds
  BY <1>2, <1>9
<1>13. ids \in Seq(CallIds) /\ Len(ids) = Len(found)
  BY <1>10, <1>12
<1>14. ElementsOf(ids) = {b[i].id : i \in P}
  <2>1. ASSUME NEW x \in ElementsOf(ids) PROVE x \in {b[i].id : i \in P}
    <3>1. PICK i \in 1 .. Len(found) : x = found[i].id
      BY <2>1, <1>10, <1>13 DEF ElementsOf
    <3>2. PICK p \in P : found[i] = b[p]
      BY <1>9
    <3> QED  BY <3>1, <3>2
  <2>2. ASSUME NEW x \in {b[i].id : i \in P} PROVE x \in ElementsOf(ids)
    <3>1. PICK p \in P : x = b[p].id
      OBVIOUS
    <3>2. b[p] \in ElementsOf(found)
      BY <1>8
    <3>3. PICK i \in 1 .. Len(found) : b[p] = found[i]
      BY <3>2 DEF ElementsOf
    <3> QED  BY <3>1, <3>3, <1>10, <1>13 DEF ElementsOf
  <2> QED  BY <2>1, <2>2
<1>15. ids # <<>> <=> P # {}
  <2>1. ids # <<>> => 1 \in 1 .. Len(ids)
    BY <1>13
  <2>2. ids = <<>> => 1 .. Len(ids) = {}
    BY <1>13
  <2>3. \A p \in P : b[p].id \in ElementsOf(ids)
    BY <1>14
  <2>4. \A x \in ElementsOf(ids) : \E p \in P : x = b[p].id
    BY <1>14
  <2>5. ids # <<>> => P # {}
    BY <2>1, <2>4 DEF ElementsOf
  <2>6. ids = <<>> => P = {}
    BY <2>2, <2>3 DEF ElementsOf
  <2> QED  BY <2>5, <2>6
<1> QED
  BY <1>1, <1>7, <1>11, <1>13, <1>14, <1>15 DEF Has

LEMMA MessageIs ==
  ASSUME ConvTypeOK, NEW role \in {"system", "user", "assistant", "tool"}, NEW text \in BOOLEAN, NEW calls \in Seq(CallIds),
         NEW answers \in CallIds \cup {"none"}, NEW x, x = Message(role, text, calls, answers)
  PROVE  /\ x \in JobMessages /\ x.role = role /\ x.text = text /\ x.calls = calls /\ x.answers = answers /\ x.from = at + 1
<1>1. at \in Nat
  BY DEF ConvTypeOK
<1>2. at + 1 \in Nat
  BY <1>1
<1> QED  BY <1>2 DEF Message, JobMessages

\* What is made of a message says all of it, is marked with its place, and has
\* its calls and answers where its role says.
MadeOf(made, m) ==
  /\ made \in Seq(JobMessages) /\ Complete(made, m) /\ \A i \in 1 .. Len(made) : made[i].from = at + 1
  /\ \A i \in 1 .. Len(made) :
       /\ made[i].role = "tool" => made[i].answers \in IdSet(m, "tool_result")
       /\ IdSet(m, "tool_result") # {} => made[i].role = "tool"
       /\ m.role = "assistant" => made[i].role = "assistant" /\ ElementsOf(made[i].calls) = IdSet(m, "tool_use")
  /\ m.role = "assistant" /\ IdSet(m, "tool_use") # {} => Len(made) = 1

LEMMA IdSetOf ==
  ASSUME NEW m, NEW type \in Calls, m.blocks \in Seq(Blocks),
         \A i \in 1 .. Len(m.blocks) : m.blocks[i].type = type => m.blocks[i].id \in CallIds
  PROVE  /\ IdSet(m, type) = ElementsOf(IdsOf(m.blocks, type)) /\ IdSet(m, type) \subseteq CallIds
         /\ IdSet(m, type) # {} <=> Has(m.blocks, type)
         /\ IdsOf(m.blocks, type) # <<>> <=> Has(m.blocks, type)
         /\ IdsOf(m.blocks, type) \in Seq(CallIds)
         /\ Len(IdsOf(m.blocks, type)) = Cardinality(BlocksOf(m.blocks, type))
<1>1. PICK b \in Seq(Blocks) : b = m.blocks
  OBVIOUS
<1>2. \A i \in 1 .. Len(b) : b[i].type = type => b[i].id \in CallIds
  BY <1>1
<1>3. /\ IdsOf(b, type) \in Seq(CallIds)
      /\ Len(IdsOf(b, type)) = Cardinality(BlocksOf(b, type))
      /\ ElementsOf(IdsOf(b, type)) = {b[i].id : i \in BlocksOf(b, type)}
      /\ IdsOf(b, type) # <<>> <=> Has(b, type)
  BY <1>2, IdsOfBlocks
<1>4. IdSet(m, type) = {b[i].id : i \in BlocksOf(b, type)}
  BY <1>1 DEF IdSet
<1>5. IdSet(m, type) \subseteq CallIds
  BY <1>2, <1>4 DEF BlocksOf
<1>6. IdSet(m, type) # {} <=> Has(b, type)
  BY <1>4 DEF Has
<1> QED  BY <1>1, <1>3, <1>4, <1>5, <1>6

\* One message that says all there is to say.
LEMMA OneSaysAll ==
  ASSUME NEW m, NEW x \in JobMessages, NEW made, made = <<x>>, x.from = at + 1,
         {x.answers} \ {"none"} = IdSet(m, "tool_result"),
         IdSet(m, "tool_result") # {} => Cardinality(BlocksOf(m.blocks, "tool_result")) = 1,
         m.blocks # <<Ignored>> \/ m.role # "assistant",
         x.text <=> (Has(m.blocks, "text") \/ IdSet(m, "tool_result") # {}),
         x.calls = IdsOf(m.blocks, "tool_use"),
         ElementsOf(IdsOf(m.blocks, "tool_use")) = IdSet(m, "tool_use"), x.role = m.role,
         x.role = "tool" => x.answers # "none", IdSet(m, "tool_result") # {} => x.role = "tool"
  PROVE  MadeOf(made, m)
<1>1. made \in Seq(JobMessages) /\ Len(made) = 1 /\ made[1] = x /\ \A i \in 1 .. Len(made) : i = 1
  OBVIOUS
<1>2. 1 \in 1 .. Len(made)
  BY <1>1
<1>3. {made[i].answers : i \in 1 .. Len(made)} = {x.answers}
  BY <1>1, <1>2
<1>4. /\ IdSet(m, "tool_result") = {} => ((\E i \in 1 .. Len(made) : made[i].text) <=> Has(m.blocks, "text"))
      /\ \A i \in 1 .. Len(made) : made[i].calls = IdsOf(m.blocks, "tool_use")
  BY <1>1, <1>2
<1>5. Complete(made, m)
  BY <1>1, <1>3, <1>4 DEF Complete
<1>6. x.role = "tool" => x.answers \in IdSet(m, "tool_result")
  OBVIOUS
<1> QED  BY <1>1, <1>5 DEF MadeOf

LEMMA ConvertedSaysAll ==
  ASSUME ConvTypeOK, NEW m \in Messages
  PROVE  MadeOf(Converted(m), m)
<1>1. /\ m.role \in {"user", "assistant"} /\ m.plain \in BOOLEAN /\ m.blocks \in Seq(Blocks)
      /\ m.plain => m.blocks = <<Text>>
      /\ m.role = "assistant" /\ (\A i \in 1 .. Len(m.blocks) : m.blocks[i].type = "thinking") => m.blocks = <<Ignored>>
  BY FormsOf
<1>2. \A i \in 1 .. Len(m.blocks) :
        /\ m.blocks[i].type \in {"text", "thinking"} \cup (IF m.role = "user" THEN {"tool_result"} ELSE {"tool_use"})
        /\ m.blocks[i].type \in {"tool_use", "tool_result"} => m.blocks[i].id \in CallIds
  BY FormsOf
<1>3. "tool_use" \in Calls /\ "tool_result" \in Calls /\ "none" \notin CallIds
  BY DEF Calls, CallIds
<1>4. PICK uses \in Seq(CallIds) : uses = IdsOf(m.blocks, "tool_use")
  BY <1>1, <1>2, <1>3, IdSetOf
<1>5. PICK results \in Seq(CallIds) : results = IdsOf(m.blocks, "tool_result")
  BY <1>1, <1>2, <1>3, IdSetOf
<1>6. /\ IdSet(m, "tool_use") = ElementsOf(uses) /\ (uses # <<>> <=> Has(m.blocks, "tool_use"))
      /\ IdSet(m, "tool_use") # {} <=> Has(m.blocks, "tool_use")
  BY <1>1, <1>2, <1>3, <1>4, IdSetOf
<1>7. /\ IdSet(m, "tool_result") = ElementsOf(results) /\ (results # <<>> <=> Has(m.blocks, "tool_result"))
      /\ IdSet(m, "tool_result") # {} <=> Has(m.blocks, "tool_result")
      /\ Len(results) = Cardinality(BlocksOf(m.blocks, "tool_result"))
  BY <1>1, <1>2, <1>3, <1>5, IdSetOf
<1>8. \A type : Has(m.blocks, type) <=> \E i \in 1 .. Len(m.blocks) : m.blocks[i].type = type
  BY DEF Has, BlocksOf
<1>9. m.role = "assistant" => ~Has(m.blocks, "tool_result")
  BY <1>2, <1>8
<1>10. m.role = "user" => ~Has(m.blocks, "tool_use")
  BY <1>2, <1>8
<1>11. Has(m.blocks, "text") \in BOOLEAN /\ <<>> \in Seq(CallIds)
  BY DEF Has
<1>12. PICK text \in BOOLEAN : text = Has(m.blocks, "text")
  BY <1>11, Zenon
<1>18. PICK nil \in Seq(CallIds) : nil = <<>>
  BY <1>11, Zenon
<1>19. \A role \in {"user", "assistant", "tool"}, t \in BOOLEAN, a \in CallIds \cup {"none"} : \A x : x = Message(role, t, nil, a) =>
         x \in JobMessages /\ x.role = role /\ x.text = t /\ x.calls = <<>> /\ x.answers = a /\ x.from = at + 1
  <2>1. ASSUME NEW role \in {"user", "assistant", "tool"}, NEW t \in BOOLEAN, NEW a \in CallIds \cup {"none"}, NEW x, x = Message(role, t, nil, a)
        PROVE  x \in JobMessages /\ x.role = role /\ x.text = t /\ x.calls = nil /\ x.answers = a /\ x.from = at + 1
    <3>1. role \in {"system", "user", "assistant", "tool"}
      OBVIOUS
    <3> QED  BY <2>1, <3>1, MessageIs
  <2> QED  BY <2>1, <1>18
<1>13. CASE m.plain
  <2>1. m.blocks = <<Text>> /\ Len(<<Text>>) = 1 /\ <<Text>>[1] = Text /\ Text.type = "text" /\ Ignored.type = "thinking"
    BY <1>1, <1>13 DEF Text, Ignored
  <2>2. \A i \in 1 .. Len(m.blocks) : m.blocks[i].type = "text"
    BY <2>1
  <2>3. Has(m.blocks, "text") /\ ~Has(m.blocks, "tool_use") /\ ~Has(m.blocks, "tool_result")
    BY <2>1, <2>2, <1>8
  <2>10. PICK t \in BOOLEAN : t = TRUE
    OBVIOUS
  <2>11. PICK role \in {"user", "assistant", "tool"} : role = m.role
    BY <1>1
  <2>4. PICK x : x = Message(role, t, nil, "none")
    OBVIOUS
  <2>12. x \in JobMessages /\ x.role = role /\ x.text = t /\ x.calls = <<>> /\ x.answers = "none" /\ x.from = at + 1
    BY <2>4, <1>19
  <2>5. x \in JobMessages /\ x.role = m.role /\ x.text /\ x.calls = <<>> /\ x.answers = "none" /\ x.from = at + 1
    BY <2>10, <2>11, <2>12
  <2>6. Converted(m) = <<x>>
    BY <2>4, <2>10, <2>11, <1>13, <1>18 DEF Converted
  <2>7. m.blocks # <<Ignored>>
    BY <2>1, <2>2
  <2>8. IdSet(m, "tool_result") = {} /\ uses = <<>>
    BY <2>3, <1>6, <1>7
  <2>9. m.role # "tool"
    BY <1>1
  <2> QED  BY <2>3, <2>5, <2>6, <2>7, <2>8, <2>9, <1>4, <1>6, OneSaysAll
<1>14. CASE ~m.plain /\ m.role = "assistant" /\ (Has(m.blocks, "text") \/ uses # <<>>)
  <2>1. PICK x : x = Message("assistant", text, uses, "none")
    OBVIOUS
  <2>2. x \in JobMessages /\ x.role = "assistant" /\ x.text = text /\ x.calls = uses /\ x.answers = "none" /\ x.from = at + 1
    BY <2>1, <1>1, MessageIs
  <2>3. Converted(m) = <<x>>
    BY <2>1, <1>4, <1>12, <1>14 DEF Converted
  <2>4. m.blocks # <<Ignored>>
    <3>1. Ignored.type = "thinking" /\ Len(<<Ignored>>) = 1 /\ \A i \in 1 .. 1 : <<Ignored>>[i] = Ignored
      BY DEF Ignored
    <3> QED  BY <3>1, <1>6, <1>8, <1>14
  <2>5. IdSet(m, "tool_result") = {}
    BY <1>7, <1>9, <1>14
  <2> QED  BY <2>2, <2>3, <2>4, <2>5, <1>4, <1>6, <1>12, <1>14, OneSaysAll
<1>15. CASE ~m.plain /\ m.role = "assistant" /\ ~(Has(m.blocks, "text") \/ uses # <<>>)
  <2>1. Converted(m) = <<>>
    BY <1>4, <1>15 DEF Converted
  <2>2. \A i \in 1 .. Len(m.blocks) : m.blocks[i].type = "thinking"
    BY <1>2, <1>6, <1>8, <1>15
  <2>3. m.blocks = <<Ignored>>
    BY <1>1, <1>15, <2>2
  <2>7. <<>> \in Seq(JobMessages)
    OBVIOUS
  <2>8. PICK made \in Seq(JobMessages) : made = <<>>
    BY <2>7, Zenon
  <2>4. made = <<>> /\ Len(made) = 0 /\ 1 .. Len(made) = {}
    BY <2>8
  <2>5. IdSet(m, "tool_result") = {} /\ IdSet(m, "tool_use") = {}
    BY <1>6, <1>7, <1>9, <1>15
  <2>6. Complete(made, m)
    BY <2>3, <2>4, <2>5, <1>15 DEF Complete
  <2> QED  BY <2>1, <2>4, <2>5, <2>6 DEF MadeOf
<1>16. CASE ~m.plain /\ m.role = "user" /\ results # <<>>
  <2>11. PICK t \in BOOLEAN : t = TRUE
    OBVIOUS
  <2>1. PICK made : made = [i \in 1 .. Len(results) |-> Message("tool", t, nil, results[i])]
    OBVIOUS
  <2>2. \A i \in 1 .. Len(results) : results[i] \in CallIds
    OBVIOUS
  <2>3. \A i \in 1 .. Len(results) : \A x : x = Message("tool", t, nil, results[i]) =>
          x \in JobMessages /\ x.role = "tool" /\ x.calls = <<>> /\ x.answers = results[i] /\ x.from = at + 1
    BY <2>2, <1>19
  <2>12. \A i \in 1 .. Len(results) : made[i] \in JobMessages
    BY <2>1, <2>3
  <2>4. made \in Seq(JobMessages) /\ Len(made) = Len(results)
    BY <2>1, <2>12
  <2>5. \A i \in 1 .. Len(made) : made[i].role = "tool" /\ made[i].calls = <<>> /\ made[i].answers = results[i] /\ made[i].from = at + 1
    BY <2>1, <2>3, <2>4
  <2>6. Converted(m) = made
    BY <2>1, <2>11, <1>5, <1>16, <1>18 DEF Converted
  <2>7. {made[i].answers : i \in 1 .. Len(made)} \ {"none"} = IdSet(m, "tool_result")
    BY <2>2, <2>4, <2>5, <1>3, <1>7 DEF ElementsOf
  <2>8. IdSet(m, "tool_result") # {}
    BY <1>7, <1>16
  <2>9. Complete(made, m)
    BY <2>4, <2>7, <2>8, <1>7 DEF Complete
  <2>10. \A i \in 1 .. Len(made) : made[i].answers \in IdSet(m, "tool_result")
    BY <2>4, <2>5, <1>7 DEF ElementsOf
  <2> QED  BY <2>4, <2>5, <2>6, <2>9, <2>10, <1>16 DEF MadeOf
<1>17. CASE ~m.plain /\ m.role = "user" /\ results = <<>>
  <2>1. PICK x : x = Message("user", text, <<>>, "none")
    OBVIOUS
  <2>2. x \in JobMessages /\ x.role = "user" /\ x.text = text /\ x.calls = <<>> /\ x.answers = "none" /\ x.from = at + 1
    BY <2>1, <1>18, <1>19
  <2>3. Converted(m) = <<x>>
    BY <2>1, <1>5, <1>12, <1>17 DEF Converted
  <2>4. IdSet(m, "tool_result") = {} /\ uses = <<>>
    BY <1>6, <1>7, <1>10, <1>17
  <2> QED  BY <2>2, <2>3, <2>4, <1>4, <1>6, <1>12, <1>17, OneSaysAll
<1> QED
  BY <1>1, <1>13, <1>14, <1>15, <1>16, <1>17

LEMMA CopiedSaysAll ==
  ASSUME ConvTypeOK, NEW m \in ChatMessages
  PROVE  MadeOf(<<Copied(m)>>, m) /\ Copied(m) \in JobMessages /\ Copied(m).role = m.role
<1>1. /\ m.role \in {"user", "assistant", "tool"} /\ m.blocks \in Seq(Blocks)
      /\ \A i \in 1 .. Len(m.blocks) : m.blocks[i].type \in {"tool_use", "tool_result"} => m.blocks[i].id \in CallIds
      /\ m.role = "tool" => Len(m.blocks) = 1 /\ m.blocks[1].type = "tool_result"
      /\ m.role # "tool" => \A i \in 1 .. Len(m.blocks) : m.blocks[i].type # "tool_result"
      /\ m.blocks # <<Ignored>>
  BY ChatFormsOf
<1>2. "tool_use" \in Calls /\ "tool_result" \in Calls /\ "none" \notin CallIds
  BY DEF Calls, CallIds
<1>3. PICK uses \in Seq(CallIds) : uses = IdsOf(m.blocks, "tool_use")
  BY <1>1, <1>2, IdSetOf
<1>4. PICK results \in Seq(CallIds) : results = IdsOf(m.blocks, "tool_result")
  BY <1>1, <1>2, IdSetOf
<1>5. IdSet(m, "tool_use") = ElementsOf(uses)
  BY <1>1, <1>2, <1>3, IdSetOf
<1>6. /\ IdSet(m, "tool_result") = ElementsOf(results) /\ (results # <<>> <=> Has(m.blocks, "tool_result"))
      /\ IdSet(m, "tool_result") # {} <=> Has(m.blocks, "tool_result")
      /\ Len(results) = Cardinality(BlocksOf(m.blocks, "tool_result"))
  BY <1>1, <1>2, <1>4, IdSetOf
<1>7. m.role # "tool" => results = <<>>
  BY <1>1, <1>6 DEF Has, BlocksOf
<1>8. m.role = "tool" => BlocksOf(m.blocks, "tool_result") = {1}
  BY <1>1 DEF BlocksOf
<1>9. m.role = "tool" => Len(results) = 1 /\ results[1] \in CallIds /\ ElementsOf(results) = {results[1]}
  <2>1. Cardinality({1}) = 1
    BY FS_Singleton
  <2>2. m.role = "tool" => Len(results) = 1
    BY <1>6, <1>8, <2>1
  <2>5. 1 .. 1 = {1}
    OBVIOUS
  <2>6. Len(results) = 1 => 1 .. Len(results) = {1}
    BY <2>5
  <2>8. 1 \in 1 .. 1
    OBVIOUS
  <2>9. \A i \in 1 .. Len(results) : results[i] \in CallIds
    OBVIOUS
  <2>7. Len(results) = 1 => results[1] \in CallIds
    BY <2>8, <2>9
  <2>3. Len(results) = 1 => results[1] \in CallIds /\ ElementsOf(results) = {results[1]}
    BY <2>6, <2>7 DEF ElementsOf
  <2> QED  BY <2>2, <2>3
<1>10. PICK text \in BOOLEAN : text = (Has(m.blocks, "text") \/ results # <<>>)
  OBVIOUS
<1>11. PICK answers : answers = (IF results = <<>> THEN "none" ELSE results[1])
  OBVIOUS
<1>12. /\ answers \in CallIds \cup {"none"} /\ (m.role = "tool" => answers # "none")
       /\ {answers} \ {"none"} = IdSet(m, "tool_result")
  <2>1. CASE m.role = "tool"
    <3>3. Len(results) = 1 => results # <<>>
      OBVIOUS
    <3>1. results # <<>>
      BY <1>9, <2>1, <3>3
    <3>2. answers = results[1] /\ answers \in CallIds
      BY <1>9, <1>11, <2>1, <3>1
    <3> QED  BY <1>2, <1>6, <1>9, <2>1, <3>2
  <2>2. CASE m.role # "tool"
    <3>1. answers = "none"
      BY <1>7, <1>11, <2>2
    <3>2. IdSet(m, "tool_result") = {}
      BY <1>6, <1>7, <2>2
    <3> QED  BY <2>2, <3>1, <3>2
  <2> QED  BY <2>1, <2>2
<1>13. PICK x : x = Message(m.role, text, uses, answers)
  OBVIOUS
<1>14. x \in JobMessages /\ x.role = m.role /\ x.text = text /\ x.calls = uses /\ x.answers = answers /\ x.from = at + 1
  BY <1>1, <1>12, <1>13, MessageIs
<1>15. Copied(m) = x
  BY <1>3, <1>4, <1>10, <1>11, <1>13 DEF Copied
<1>16. IdSet(m, "tool_result") # {} => Cardinality(BlocksOf(m.blocks, "tool_result")) = 1
  <2>1. Cardinality({1}) = 1
    BY FS_Singleton
  <2> QED  BY <1>6, <1>7, <1>8, <2>1
<1>18. IdSet(m, "tool_result") # {} => x.role = "tool"
  BY <1>6, <1>7, <1>14
<1>17. MadeOf(<<x>>, m)
  BY <1>18, <1>1, <1>3, <1>5, <1>6, <1>10, <1>12, <1>14, <1>16, OneSaysAll
<1> QED
  BY <1>14, <1>15, <1>17

IsCat(y, s, t) == y = s \o t
FromPlace(s, k) == {i \in 1 .. Len(s) : s[i].from = k}
AllFrom(c, k) == \A i \in 1 .. Len(c) : c[i].from = k
AllUpTo(s, n) == \A i \in 1 .. Len(s) : s[i].from <= n

\* What is made of the next message goes behind the rest and disturbs none of it.
LEMMA MadeBehind ==
  ASSUME NEW s \in Seq(JobMessages), NEW c \in Seq(JobMessages), NEW n \in Nat, AllUpTo(s, n), AllFrom(c, n + 1),
         NEW y, IsCat(y, s, c), NEW k \in 1 .. n + 1
  PROVE  At(y, FromPlace(y, k)) = IF k = n + 1 THEN c ELSE At(s, FromPlace(s, k))
<1>16. y = s \o c
  BY DEF IsCat
<1>1. /\ y \in Seq(JobMessages) /\ Len(y) = Len(s) + Len(c) /\ Len(s) \in Nat /\ Len(c) \in Nat
      /\ \A i \in 1 .. Len(s) : y[i] = s[i]
      /\ \A i \in 1 .. Len(c) : y[Len(s) + i] = c[i]
  BY <1>16
<1>2. PICK P : P = FromPlace(y, k)
  OBVIOUS
<1>3. PICK Q : Q = FromPlace(c, k)
  OBVIOUS
<1>4. \A i \in 1 .. Len(s) : i \in P <=> i \in FromPlace(s, k)
  BY <1>1, <1>2 DEF FromPlace
<1>5. \A i \in 1 .. Len(c) : (Len(s) + i) \in P <=> i \in Q
  BY <1>1, <1>2, <1>3 DEF FromPlace
<1>6. Shifted(s, c, P, Q)
  BY <1>1, <1>5 DEF Shifted
<1>7. PICK z : z = At(y, P)
  OBVIOUS
<1>8. z = At(s \o c, P)
  BY <1>7, <1>16
<1>9. z = At(s, P) \o At(c, Q)
  BY <1>6, <1>8, AtCat
<1>10. At(s, P) = At(s, FromPlace(s, k))
  BY <1>4, AtAlike, Zenon
<1>11. At(s, P) \in Seq(JobMessages) /\ At(c, Q) \in Seq(JobMessages)
  BY AtType, Zenon
<1>12. PICK a \in Seq(JobMessages) : a = At(s, P)
  BY <1>11, Zenon
<1>13. PICK b \in Seq(JobMessages) : b = At(c, Q)
  BY <1>11, Zenon
<1>14. CASE k = n + 1
  <2>1. \A i \in 1 .. Len(s) : i \notin P
    <3>1. \A x \in JobMessages : x.from \in Nat
      BY DEF JobMessages
    <3>2. ASSUME NEW i \in 1 .. Len(s), i \in P PROVE FALSE
      <4>1. s[i] \in JobMessages /\ s[i].from = n + 1
        BY <1>4, <1>14, <3>2 DEF FromPlace
      <4>2. s[i].from <= n
        BY DEF AllUpTo
      <4> QED  BY <3>1, <4>1, <4>2
    <3> QED  BY <3>2
  <2>2. \A i \in 1 .. Len(c) : i \in Q
    BY <1>3, <1>14 DEF FromPlace, AllFrom
  <2>3. a = <<>>
    BY <1>12, <2>1, AtNone, Zenon
  <2>4. b = c
    BY <1>13, <2>2, AtAll, Zenon
  <2>5. <<>> \o c = c
    OBVIOUS
  <2> QED  BY <1>2, <1>7, <1>9, <1>12, <1>13, <1>14, <2>3, <2>4, <2>5
<1>15. CASE k # n + 1
  <2>1. \A i \in 1 .. Len(c) : i \notin Q
    BY <1>3, <1>15 DEF FromPlace, AllFrom
  <2>2. b = <<>>
    BY <1>13, <2>1, AtNone, Zenon
  <2>3. a \o <<>> = a
    OBVIOUS
  <2> QED  BY <1>2, <1>7, <1>9, <1>10, <1>12, <1>13, <1>15, <2>2, <2>3
<1> QED
  BY <1>14, <1>15

-----------------------------------------------------------------------------
\* The message of an assistant that calls tools ends the job so far; in the other
\* endpoints the messages of the job are those of the client, one for one.
SameTurn(x, m) ==
  /\ x.role = m.role /\ (m.role = "assistant" => ElementsOf(x.calls) = IdSet(m, "tool_use"))
  /\ x.role = "tool" => x.answers \in IdSet(m, "tool_result")
CallsLast(s, m) ==
  /\ s # <<>> /\ s[Len(s)].role = "assistant" /\ ElementsOf(s[Len(s)].calls) = IdSet(m, "tool_use")
TurnsInv ==
  /\ api = "messages" /\ at > 0 /\ IdSet(asked[at], "tool_use") # {} => CallsLast(messages, asked[at])
  /\ api # "messages" => Len(messages) = at /\ \A j \in 1 .. at : SameTurn(messages[j], asked[j])
InPlace(s) == \A i, j \in 1 .. Len(s) : i < j => s[i].from <= s[j].from
SaidInv ==
  /\ AllUpTo(messages, at) /\ InPlace(messages)
  /\ \A k \in 1 .. at : Complete(MadeFrom(k), asked[k])
  /\ outcome = "queued" => at = Len(asked)
ConvInv == ConvTypeOK /\ SaidInv /\ TurnsInv /\ ResultsFollowCalls

Proper(q) ==
  \A i \in 1 .. Len(q) : IdSet(q[i], "tool_result") # {} =>
    \E k \in 1 .. i - 1 :
      /\ q[k].role = "assistant" /\ IdSet(q[i], "tool_result") \subseteq IdSet(q[k], "tool_use")
      /\ \A j \in k + 1 .. i - 1 : q[j].role = "tool"
Asking(s, i) ==
  \E k \in 1 .. i - 1 :
    /\ s[k].role = "assistant" /\ \E c \in 1 .. Len(s[k].calls) : s[k].calls[c] = s[i].answers
    /\ \A j \in k + 1 .. i - 1 : s[j].role = "tool"
Follows(s) == \A i \in 1 .. Len(s) : s[i].role = "tool" => Asking(s, i)

LEMMA ResultsFollow == ResultsFollowCalls <=> (Proper(asked) => Follows(messages))
  BY Zenon DEF ResultsFollowCalls, ProperTurns, Proper, Follows, Asking

LEMMA OneForOne ==
  ASSUME NEW s \in Seq(JobMessages), NEW q, Len(q) \in Nat, Len(s) <= Len(q), Proper(q), \A j \in 1 .. Len(s) : SameTurn(s[j], q[j])
  PROVE  Follows(s)
<1> SUFFICES ASSUME NEW i \in 1 .. Len(s), s[i].role = "tool" PROVE Asking(s, i)
  BY DEF Follows
<1>1. Len(s) \in Nat /\ i \in 1 .. Len(q)
  OBVIOUS
<1>2. s[i].answers \in IdSet(q[i], "tool_result")
  BY DEF SameTurn
<1>3. PICK k \in 1 .. i - 1 :
        /\ q[k].role = "assistant" /\ IdSet(q[i], "tool_result") \subseteq IdSet(q[k], "tool_use")
        /\ \A j \in k + 1 .. i - 1 : q[j].role = "tool"
  BY <1>1, <1>2 DEF Proper
<1>4. k \in 1 .. Len(s) /\ \A j \in k + 1 .. i - 1 : j \in 1 .. Len(s)
  BY <1>1
<1>5. s[k].role = "assistant" /\ ElementsOf(s[k].calls) = IdSet(q[k], "tool_use")
  BY <1>3, <1>4 DEF SameTurn
<1>6. s[i].answers \in ElementsOf(s[k].calls)
  BY <1>2, <1>3, <1>5
<1>7. \E c \in 1 .. Len(s[k].calls) : s[k].calls[c] = s[i].answers
  BY <1>6 DEF ElementsOf
<1>8. \A j \in k + 1 .. i - 1 : s[j].role = "tool"
  BY <1>3, <1>4 DEF SameTurn
<1> QED  BY <1>5, <1>7, <1>8 DEF Asking

Calling(s, c) ==
  \/ \A i \in 1 .. Len(c) : c[i].role # "tool"
  \/ /\ s # <<>> /\ s[Len(s)].role = "assistant"
     /\ \A i \in 1 .. Len(c) : c[i].role = "tool" /\ c[i].answers \in ElementsOf(s[Len(s)].calls)
LEMMA FollowsBehind ==
  ASSUME NEW s \in Seq(JobMessages), NEW c \in Seq(JobMessages), NEW y, y = s \o c, Follows(s), Calling(s, c)
  PROVE  Follows(y)
<1>1. /\ y \in Seq(JobMessages) /\ Len(y) = Len(s) + Len(c) /\ Len(s) \in Nat /\ Len(c) \in Nat
      /\ \A i \in 1 .. Len(s) : y[i] = s[i]
      /\ \A i \in 1 .. Len(c) : y[Len(s) + i] = c[i]
  OBVIOUS
<1> SUFFICES ASSUME NEW i \in 1 .. Len(y), y[i].role = "tool" PROVE Asking(y, i)
  BY DEF Follows
<1>2. CASE i \in 1 .. Len(s)
  <2>1. y[i] = s[i] /\ Asking(s, i)
    BY <1>1, <1>2 DEF Follows
  <2>2. PICK k \in 1 .. i - 1 :
          /\ s[k].role = "assistant" /\ \E d \in 1 .. Len(s[k].calls) : s[k].calls[d] = s[i].answers
          /\ \A j \in k + 1 .. i - 1 : s[j].role = "tool"
    BY <2>1 DEF Asking
  <2>3. k \in 1 .. Len(s) /\ \A j \in k + 1 .. i - 1 : j \in 1 .. Len(s)
    BY <1>1, <1>2
  <2>4. y[k] = s[k] /\ \A j \in k + 1 .. i - 1 : y[j] = s[j]
    BY <1>1, <2>3
  <2> QED  BY <2>1, <2>2, <2>4 DEF Asking
<1>3. CASE i \notin 1 .. Len(s)
  <2>1. PICK d \in 1 .. Len(c) : i = Len(s) + d
    <3>1. i - Len(s) \in 1 .. Len(c) /\ i = Len(s) + (i - Len(s))
      BY <1>1, <1>3
    <3> QED  BY <3>1
  <2>2. y[i] = c[d]
    BY <1>1, <2>1
  <2>3. /\ s # <<>> /\ s[Len(s)].role = "assistant"
        /\ \A e \in 1 .. Len(c) : c[e].role = "tool" /\ c[e].answers \in ElementsOf(s[Len(s)].calls)
    BY <2>2 DEF Calling
  <2>4. Len(s) \in 1 .. Len(s) /\ Len(s) \in 1 .. i - 1
    BY <1>1, <2>1, <2>3
  <2>5. y[Len(s)] = s[Len(s)]
    BY <1>1, <2>4
  <2>6. \E e \in 1 .. Len(y[Len(s)].calls) : y[Len(s)].calls[e] = y[i].answers
    BY <2>2, <2>3, <2>5 DEF ElementsOf
  <2>7. ASSUME NEW j \in Len(s) + 1 .. i - 1 PROVE y[j].role = "tool"
    <3>1. j - Len(s) \in 1 .. Len(c) /\ j = Len(s) + (j - Len(s))
      BY <1>1, <2>1
    <3>2. PICK e \in 1 .. Len(c) : j = Len(s) + e
      BY <3>1
    <3> QED  BY <1>1, <2>3, <3>2
  <2> QED  BY <2>3, <2>4, <2>5, <2>6, <2>7 DEF Asking
<1> QED
  BY <1>2, <1>3

LEMMA RolesAsked ==
  ASSUME NEW m \in Messages
  PROVE  /\ m.role # "tool" /\ (IdSet(m, "tool_use") # {} => m.role = "assistant")
         /\ IdSet(m, "tool_result") # {} => m.role = "user"
<1>1. /\ m.role \in {"user", "assistant"}
      /\ \A i \in 1 .. Len(m.blocks) :
           m.blocks[i].type \in {"text", "thinking"} \cup (IF m.role = "user" THEN {"tool_result"} ELSE {"tool_use"})
  BY FormsOf
<1>2. \A type : IdSet(m, type) # {} => \E i \in 1 .. Len(m.blocks) : m.blocks[i].type = type
  BY DEF IdSet, BlocksOf
<1> QED  BY <1>1, <1>2

LEMMA SaysBehind ==
  ASSUME ConvInv, outcome = "working", at < Len(asked), NEW made, MadeOf(made, asked[at + 1]),
         at' = at + 1, messages' = messages \o made, UNCHANGED <<api, flaw, system, asked, outcome>>
  PROVE  ConvTypeOK' /\ SaidInv'
<1>1. /\ api \in DOMAIN Flaws /\ flaw \in Flaws[api] \cup {"none"} /\ system \in BOOLEAN
      /\ asked \in Seq(IF api = "messages" THEN Messages ELSE ChatMessages) /\ at \in 0 .. Len(asked)
      /\ messages \in Seq(JobMessages)
      /\ outcome \in {"working", "rejected", "overloaded", "queued", "counted"}
  BY DEF ConvInv, ConvTypeOK
<1>2. made \in Seq(JobMessages) /\ Complete(made, asked[at + 1]) /\ AllFrom(made, at + 1)
  BY DEF MadeOf, AllFrom
<1>3. AllUpTo(messages, at) /\ InPlace(messages) /\ \A k \in 1 .. at : Complete(MadeFrom(k), asked[k])
  BY DEF ConvInv, SaidInv
<1>4. PICK y : y = messages \o made
  OBVIOUS
<1>5. /\ y \in Seq(JobMessages) /\ Len(y) = Len(messages) + Len(made) /\ Len(messages) \in Nat /\ Len(made) \in Nat
      /\ \A i \in 1 .. Len(messages) : y[i] = messages[i]
      /\ \A i \in 1 .. Len(made) : y[Len(messages) + i] = made[i]
  BY <1>1, <1>2, <1>4
<1>6. messages' = y
  BY <1>4
<1>7. at \in Nat /\ at + 1 \in 0 .. Len(asked)
  <2>1. Len(asked) \in Nat
    BY <1>1
  <2> QED  BY <1>1, <2>1
<1>8. ConvTypeOK'
  <2>1. messages' \in Seq(JobMessages)
    BY <1>5, <1>6
  <2>2. at' \in 0 .. Len(asked')
    BY <1>7
  <2> QED  BY <1>1, <2>1, <2>2 DEF ConvTypeOK
<1>9. \A i \in 1 .. Len(y) : i \in 1 .. Len(messages) \/ \E d \in 1 .. Len(made) : i = Len(messages) + d
  <2> SUFFICES ASSUME NEW i \in 1 .. Len(y), i \notin 1 .. Len(messages) PROVE \E d \in 1 .. Len(made) : i = Len(messages) + d
    OBVIOUS
  <2>1. i - Len(messages) \in 1 .. Len(made) /\ i = Len(messages) + (i - Len(messages))
    BY <1>5
  <2> QED  BY <2>1
<1>10. \A i \in 1 .. Len(messages) : y[i].from \in Nat /\ y[i].from <= at
  <2> SUFFICES ASSUME NEW i \in 1 .. Len(messages) PROVE y[i].from \in Nat /\ y[i].from <= at
    OBVIOUS
  <2>1. messages[i] \in JobMessages
    BY <1>1
  <2>2. messages[i].from \in Nat
    BY <2>1 DEF JobMessages
  <2>3. messages[i].from <= at
    BY <1>3 DEF AllUpTo
  <2>4. y[i] = messages[i]
    BY <1>5
  <2> QED  BY <2>2, <2>3, <2>4
<1>11. \A d \in 1 .. Len(made) : y[Len(messages) + d].from = at + 1
  BY <1>2, <1>5 DEF AllFrom
<1>12. AllUpTo(messages, at)'
  <2>1. \A i \in 1 .. Len(y) : y[i].from <= at + 1
    <3> SUFFICES ASSUME NEW i \in 1 .. Len(y) PROVE y[i].from <= at + 1
      OBVIOUS
    <3>1. CASE i \in 1 .. Len(messages)
      BY <1>7, <1>10, <3>1
    <3>2. CASE \E d \in 1 .. Len(made) : i = Len(messages) + d
      BY <1>7, <1>11, <3>2
    <3> QED  BY <1>9, <3>1, <3>2
  <2> QED  BY <1>6, <2>1 DEF AllUpTo
<1>13. InPlace(messages)'
  <2>1. ASSUME NEW i \in 1 .. Len(y), NEW j \in 1 .. Len(y), i < j PROVE y[i].from <= y[j].from
    <3>1. CASE j \in 1 .. Len(messages)
      <4>1. i \in 1 .. Len(messages)
        BY <1>5, <2>1, <3>1
      <4> QED  BY <1>3, <1>5, <2>1, <3>1, <4>1 DEF InPlace
    <3>2. CASE j \notin 1 .. Len(messages)
      <4>1. \A p \in 1 .. Len(y) : p \notin 1 .. Len(messages) => y[p].from = at + 1
        <5> SUFFICES ASSUME NEW p \in 1 .. Len(y), p \notin 1 .. Len(messages) PROVE y[p].from = at + 1
          OBVIOUS
        <5>1. PICK d \in 1 .. Len(made) : p = Len(messages) + d
          BY <1>9
        <5> QED  BY <1>11, <5>1
      <4>2. y[j].from = at + 1
        BY <3>2, <4>1
      <4>3. CASE i \in 1 .. Len(messages)
        BY <1>7, <1>10, <4>2, <4>3
      <4>4. CASE i \notin 1 .. Len(messages)
        BY <1>7, <4>1, <4>2, <4>4
      <4> QED  BY <4>3, <4>4
    <3> QED  BY <3>1, <3>2
  <2>2. \A i, j \in 1 .. Len(y) : i < j => y[i].from <= y[j].from
    BY <2>1
  <2> QED  BY <1>6, <2>2 DEF InPlace
<1>14. ASSUME NEW k \in 1 .. at + 1 PROVE Complete(MadeFrom(k), asked[k])'
  <2>1. At(y, FromPlace(y, k)) = IF k = at + 1 THEN made ELSE At(messages, FromPlace(messages, k))
    <3>1. PICK s \in Seq(JobMessages) : s = messages
      BY <1>1
    <3>2. PICK n \in Nat : n = at
      BY <1>7
    <3>3. PICK c \in Seq(JobMessages) : c = made
      BY <1>2
    <3>4. AllUpTo(s, n) /\ AllFrom(c, n + 1) /\ IsCat(y, s, c) /\ k \in 1 .. n + 1
      BY <1>2, <1>3, <1>4, <3>1, <3>2, <3>3 DEF IsCat
    <3>5. At(y, FromPlace(y, k)) = IF k = n + 1 THEN c ELSE At(s, FromPlace(s, k))
      BY <3>4, MadeBehind
    <3> QED  BY <3>1, <3>2, <3>3, <3>5
  <2>2. MadeFrom(k)' = At(y, FromPlace(y, k))
    BY <1>6 DEF MadeFrom, FromPlace
  <2>3. MadeFrom(k) = At(messages, FromPlace(messages, k))
    BY DEF MadeFrom, FromPlace
  <2>4. Complete(MadeFrom(k)', asked[k])
    <3>1. CASE k = at + 1
      BY <1>2, <2>1, <2>2, <3>1
    <3>2. CASE k # at + 1
      <4>1. k \in 1 .. at
        BY <1>7, <3>2
      <4> QED  BY <1>3, <2>1, <2>2, <2>3, <3>2, <4>1
    <3> QED  BY <3>1, <3>2
  <2> QED  BY <2>4 DEF Complete
<1> QED
  BY <1>8, <1>12, <1>13, <1>14 DEF SaidInv

\* The job so far is what was said so far, and its turns are those of the client.
LEMMA ConvInvInit ==
  ConversionInit => ConvInv
<1> SUFFICES ASSUME ConversionInit PROVE ConvInv
  OBVIOUS
<1>1. /\ api \in DOMAIN Flaws /\ flaw \in Flaws[api] \cup {"none"} /\ system \in BOOLEAN /\ at = 0 /\ outcome = "working"
      /\ api # "messages" => system = FALSE
  BY DEF ConversionInit
<1>2. asked \in Seq(IF api = "messages" THEN Messages ELSE ChatMessages)
  <2>1. Said("user", TRUE, <<Text>>) \in Messages /\ Said("user", TRUE, <<Text>>) \in ChatMessages
    BY DEF Messages, ChatMessages
  <2>2. PICK u : u = Said("user", TRUE, <<Text>>)
    OBVIOUS
  <2>3. u \in Messages => <<u>> \in Seq(Messages)
    OBVIOUS
  <2>4. u \in ChatMessages => <<u>> \in Seq(ChatMessages)
    OBVIOUS
  <2>5. \A X : BoundedSeq(X, MaxMessages) \subseteq Seq(X)
    <3> SUFFICES ASSUME NEW X, NEW q \in BoundedSeq(X, MaxMessages) PROVE q \in Seq(X)
      OBVIOUS
    <3>1. MaxMessages \in Nat
      BY ConversionAssumption
    <3>2. PICK n \in 0 .. MaxMessages : q \in [1 .. n -> X]
      BY DEF BoundedSeq, SeqOf
    <3>3. n \in Nat
      BY <3>1
    <3> QED  BY <3>2, <3>3
  <2>6. \/ api = "messages" /\ asked \in BoundedSeq(Messages, MaxMessages)
        \/ api = "chat" /\ asked \in BoundedSeq(ChatMessages, MaxMessages)
        \/ asked = <<u>>
    BY <2>2 DEF ConversionInit
  <2> QED  BY <2>1, <2>2, <2>3, <2>4, <2>5, <2>6
<1>3. Len(asked) \in Nat /\ at \in 0 .. Len(asked)
  <2>1. Len(asked) \in Nat
    BY <1>2
  <2> QED  BY <1>1, <2>1
<1>4. PICK t \in BOOLEAN : t = TRUE
  OBVIOUS
<1>5. PICK nil \in Seq(CallIds) : nil = <<>>
  <2>1. <<>> \in Seq(CallIds)
    OBVIOUS
  <2> QED  BY <2>1, Zenon
<1>6. PICK first : first = [role |-> "system", text |-> t, calls |-> nil, answers |-> "none", from |-> 0]
  OBVIOUS
<1>7. first \in JobMessages /\ first.role = "system" /\ first.from = 0
  BY <1>6 DEF JobMessages
<1>8. <<first>> \in Seq(JobMessages) /\ Len(<<first>>) = 1 /\ <<first>>[1] = first /\ 1 .. 1 = {1}
  BY <1>7
<1>9. messages = IF system THEN <<first>> ELSE <<>>
  BY <1>4, <1>5, <1>6 DEF ConversionInit
<1>10. CASE system
  <2>1. messages \in Seq(JobMessages) /\ Len(messages) = 1 /\ messages[1] = first /\ 1 .. Len(messages) = {1}
    BY <1>8, <1>9, <1>10
  <2>2. ConvTypeOK
    BY <1>1, <1>2, <1>3, <2>1 DEF ConvTypeOK
  <2>3. \A i \in 1 .. Len(messages) : i = 1 /\ messages[i].from = 0 /\ messages[i].role = "system"
    BY <1>7, <2>1
  <2>4. AllUpTo(messages, at)
    BY <1>1, <2>3 DEF AllUpTo
  <2>5. InPlace(messages)
    BY <2>3 DEF InPlace
  <2>6. Follows(messages)
    BY <2>3 DEF Follows
  <2>7. api = "messages"
    BY <1>1, <1>10
  <2> QED  BY <1>1, <2>2, <2>4, <2>5, <2>6, <2>7, ResultsFollow DEF ConvInv, SaidInv, TurnsInv
<1>11. CASE ~system
  <2>1. messages = <<>> /\ <<>> \in Seq(JobMessages) /\ Len(messages) = 0 /\ 1 .. Len(messages) = {}
    BY <1>9, <1>11
  <2>2. ConvTypeOK
    BY <1>1, <1>2, <1>3, <2>1 DEF ConvTypeOK
  <2>3. AllUpTo(messages, at) /\ InPlace(messages) /\ Follows(messages)
    BY <2>1 DEF AllUpTo, InPlace, Follows
  <2> QED  BY <1>1, <2>1, <2>2, <2>3, ResultsFollow DEF ConvInv, SaidInv, TurnsInv
<1> QED
  BY <1>1, <1>10, <1>11

LEMMA ConvertAnthropicKeeps ==
  ASSUME ConvInv, ConvertAnthropic
  PROVE  ConvInv'
<1>1. /\ outcome = "working" /\ api = "messages" /\ at < Len(asked)
      /\ at' = at + 1 /\ messages' = messages \o Converted(asked[at + 1])
      /\ UNCHANGED <<api, flaw, system, asked, outcome>>
  BY DEF ConvertAnthropic
<1>2. ConvTypeOK
  BY DEF ConvInv
<1>3. asked \in Seq(Messages) /\ at \in Nat /\ at + 1 \in 1 .. Len(asked) /\ messages \in Seq(JobMessages)
  <2>1. asked \in Seq(Messages) /\ at \in 0 .. Len(asked) /\ messages \in Seq(JobMessages)
    BY <1>1, <1>2 DEF ConvTypeOK
  <2>2. Len(asked) \in Nat
    BY <2>1
  <2> QED  BY <1>1, <2>1, <2>2
<1>4. PICK m \in Messages : m = asked[at + 1]
  BY <1>3
<1>5. PICK made : made = Converted(m)
  OBVIOUS
<1>6. MadeOf(made, m)
  BY <1>2, <1>5, ConvertedSaysAll
<1>7. messages' = messages \o made
  BY <1>1, <1>4, <1>5
<1>8. ConvTypeOK' /\ SaidInv'
  <2>1. MadeOf(made, asked[at + 1])
    BY <1>4, <1>6
  <2> QED  BY <1>1, <1>7, <2>1, SaysBehind
<1>9. /\ made \in Seq(JobMessages)
      /\ \A i \in 1 .. Len(made) :
           /\ made[i].role = "tool" => made[i].answers \in IdSet(m, "tool_result")
           /\ IdSet(m, "tool_result") # {} => made[i].role = "tool"
           /\ m.role = "assistant" => made[i].role = "assistant" /\ ElementsOf(made[i].calls) = IdSet(m, "tool_use")
      /\ m.role = "assistant" /\ IdSet(m, "tool_use") # {} => Len(made) = 1
  BY <1>6 DEF MadeOf
<1>10. TurnsInv'
  <2>1. SUFFICES ASSUME IdSet(m, "tool_use") # {} PROVE CallsLast(messages', m)
    BY <1>1, <1>4 DEF TurnsInv
  <2>2. m.role = "assistant"
    BY <2>1, RolesAsked
  <2>3. Len(made) = 1 /\ made[1].role = "assistant" /\ ElementsOf(made[1].calls) = IdSet(m, "tool_use")
    BY <1>9, <2>1, <2>2
  <2>4. Len(messages') = Len(messages) + 1 /\ messages'[Len(messages) + 1] = made[1] /\ messages' # <<>>
    <3>1. PICK s \in Seq(JobMessages) : s = messages
      BY <1>3
    <3>2. PICK y : y = s \o made
      OBVIOUS
    <3>3. 1 \in 1 .. 1 /\ Len(s) \in Nat
      OBVIOUS
    <3>4. Len(y) = Len(s) + 1 /\ y[Len(s) + 1] = made[1]
      <4>1. made \in Seq(JobMessages)
        BY <1>9
      <4>2. Len(y) = Len(s) + Len(made) /\ \A i \in 1 .. Len(made) : y[Len(s) + i] = made[i]
        BY <4>1, <3>2
      <4> QED  BY <2>3, <3>3, <4>2
    <3>5. y # <<>>
      BY <1>9, <3>2, <3>3, <3>4
    <3> QED  BY <1>7, <3>1, <3>2, <3>4, <3>5
  <2> QED  BY <2>3, <2>4 DEF CallsLast
<1>11. ASSUME Proper(asked) PROVE Follows(messages')
  <2>1. Follows(messages)
    BY <1>11, ResultsFollow DEF ConvInv
  <2>2. Calling(messages, made)
    <3>1. CASE IdSet(m, "tool_result") = {}
      BY <1>9, <3>1 DEF Calling
    <3>2. CASE IdSet(m, "tool_result") # {}
      <4>1. PICK k \in 1 .. (at + 1) - 1 :
              /\ asked[k].role = "assistant" /\ IdSet(m, "tool_result") \subseteq IdSet(asked[k], "tool_use")
              /\ \A j \in k + 1 .. (at + 1) - 1 : asked[j].role = "tool"
        BY <1>3, <1>4, <1>11, <3>2 DEF Proper
      <4>2. \A j \in 1 .. at : asked[j] \in Messages
        BY <1>3
      <4>3. \A j \in 1 .. at : asked[j].role # "tool"
        BY <4>2, RolesAsked
      <4>4. k = at
        <5>1. k \in 1 .. at /\ (k # at => at \in k + 1 .. (at + 1) - 1 /\ at \in 1 .. at)
          BY <1>3
        <5> QED  BY <4>1, <4>3, <5>1
      <4>5. IdSet(asked[at], "tool_use") # {} /\ at > 0
        BY <1>3, <3>2, <4>1, <4>4
      <4>6. CallsLast(messages, asked[at])
        BY <1>1, <4>5 DEF ConvInv, TurnsInv
      <4> QED  BY <1>9, <3>2, <4>1, <4>4, <4>6 DEF Calling, CallsLast
    <3> QED  BY <3>1, <3>2
  <2> QED  BY <1>3, <1>7, <1>9, <2>1, <2>2, FollowsBehind
<1>12. ResultsFollowCalls'
  <2>1. (Proper(asked) => Follows(messages))'
    BY <1>1, <1>11
  <2> QED  BY <2>1, ResultsFollow, PTL
<1> QED
  BY <1>8, <1>10, <1>12 DEF ConvInv

LEMMA ConvertOpenAIKeeps ==
  ASSUME ConvInv, ConvertOpenAI
  PROVE  ConvInv'
<1>1. /\ outcome = "working" /\ api # "messages" /\ at < Len(asked)
      /\ at' = at + 1 /\ messages' = Append(messages, Copied(asked[at + 1]))
      /\ UNCHANGED <<api, flaw, system, asked, outcome>>
  BY DEF ConvertOpenAI
<1>2. ConvTypeOK
  BY DEF ConvInv
<1>3. asked \in Seq(ChatMessages) /\ at \in Nat /\ at + 1 \in 1 .. Len(asked) /\ messages \in Seq(JobMessages) /\ Len(asked) \in Nat
  <2>1. asked \in Seq(ChatMessages) /\ at \in 0 .. Len(asked) /\ messages \in Seq(JobMessages)
    BY <1>1, <1>2 DEF ConvTypeOK
  <2>2. Len(asked) \in Nat
    BY <2>1
  <2> QED  BY <1>1, <2>1, <2>2
<1>4. PICK m \in ChatMessages : m = asked[at + 1]
  BY <1>3
<1>5. PICK x : x = Copied(m)
  OBVIOUS
<1>6. MadeOf(<<x>>, m) /\ x \in JobMessages /\ x.role = m.role
  BY <1>2, <1>5, CopiedSaysAll
<1>7. Append(messages, x) = messages \o <<x>>
  BY <1>3, <1>6
<1>8. messages' = messages \o <<x>> /\ messages' = Append(messages, x)
  BY <1>1, <1>4, <1>5, <1>7
<1>9. ConvTypeOK' /\ SaidInv'
  <2>1. MadeOf(<<x>>, asked[at + 1])
    BY <1>4, <1>6
  <2> QED  BY <1>1, <1>8, <2>1, SaysBehind
<1>10. Len(<<x>>) = 1 /\ <<x>>[1] = x /\ 1 \in 1 .. 1
  OBVIOUS
<1>11. SameTurn(x, m)
  BY <1>6, <1>10 DEF SameTurn, MadeOf
<1>12. Len(messages) = at /\ \A j \in 1 .. at : SameTurn(messages[j], asked[j])
  BY <1>1 DEF ConvInv, TurnsInv
<1>13. Len(messages') = at + 1 /\ messages'[at + 1] = x /\ \A j \in 1 .. at : messages'[j] = messages[j]
  BY <1>3, <1>6, <1>8, <1>12
<1>14. \A j \in 1 .. at + 1 : SameTurn(messages'[j], asked[j])
  <2> SUFFICES ASSUME NEW j \in 1 .. at + 1 PROVE SameTurn(messages'[j], asked[j])
    OBVIOUS
  <2>1. CASE j = at + 1
    BY <1>4, <1>11, <1>13, <2>1
  <2>2. CASE j # at + 1
    <3>1. j \in 1 .. at
      BY <1>3, <2>2
    <3> QED  BY <1>12, <1>13, <3>1
  <2> QED  BY <2>1, <2>2
<1>15. TurnsInv'
  BY <1>1, <1>13, <1>14 DEF TurnsInv, SameTurn
<1>16. ASSUME Proper(asked) PROVE Follows(messages')
  <2>1. messages' \in Seq(JobMessages)
    BY <1>9 DEF ConvTypeOK
  <2>2. PICK s \in Seq(JobMessages) : s = messages'
    BY <2>1
  <2>3. Len(s) <= Len(asked) /\ \A j \in 1 .. Len(s) : SameTurn(s[j], asked[j])
    BY <1>3, <1>13, <1>14, <2>2
  <2>4. Follows(s)
    BY <1>3, <1>16, <2>3, OneForOne
  <2> QED  BY <2>2, <2>4
<1>17. ResultsFollowCalls'
  <2>1. (Proper(asked) => Follows(messages))'
    BY <1>1, <1>16
  <2> QED  BY <2>1, ResultsFollow, PTL
<1> QED
  BY <1>9, <1>15, <1>17 DEF ConvInv

LEMMA ResultsStillFollow ==
  ASSUME ResultsFollowCalls, messages' = messages, asked' = asked
  PROVE  ResultsFollowCalls'
<1>1. Proper(asked) => Follows(messages)
  BY ResultsFollow
<1>2. (Proper(asked) => Follows(messages))'
  BY <1>1
<1> QED
  BY <1>2, ResultsFollow, PTL

LEMMA ConvInvStays ==
  ASSUME ConvInv, UNCHANGED convvars
  PROVE  ConvInv'
<1>1. ResultsFollowCalls'
  BY ResultsStillFollow DEF ConvInv, convvars
<1> QED
  BY <1>1 DEF ConvInv, ConvTypeOK, SaidInv, TurnsInv, MadeFrom, convvars

LEMMA ConvInvKept ==
  ConvInv /\ [ConversionNext]_convvars => ConvInv'
<1> SUFFICES ASSUME ConvInv, [ConversionNext]_convvars PROVE ConvInv'
  OBVIOUS
<1>1. ASSUME outcome' \in {"rejected", "overloaded", "queued", "counted"}, outcome' = "queued" => at = Len(asked),
             UNCHANGED <<api, flaw, system, asked, at, messages>>
      PROVE  ConvInv'
  <2>1. ConvTypeOK'
    BY <1>1 DEF ConvInv, ConvTypeOK
  <2>2. SaidInv'
    BY <1>1 DEF ConvInv, SaidInv, MadeFrom
  <2>3. TurnsInv'
    BY <1>1 DEF ConvInv, TurnsInv
  <2>4. ResultsFollowCalls'
    BY <1>1, ResultsStillFollow DEF ConvInv
  <2> QED  BY <2>1, <2>2, <2>3, <2>4 DEF ConvInv
<1>2. CASE Reject
  BY <1>1, <1>2 DEF Reject
<1>3. CASE ConvertAnthropic
  BY <1>3, ConvertAnthropicKeeps
<1>4. CASE ConvertOpenAI
  BY <1>4, ConvertOpenAIKeeps
<1>5. CASE CountTokens
  BY <1>1, <1>5 DEF CountTokens
<1>6. CASE EnqueueJob
  BY <1>1, <1>6 DEF EnqueueJob
<1>7. CASE UNCHANGED convvars
  BY <1>7, ConvInvStays
<1> QED
  BY <1>2, <1>3, <1>4, <1>5, <1>6, <1>7 DEF ConversionNext

LEMMA ConvInvHolds == ConversionSpec => []ConvInv
  BY ConvInvInit, ConvInvKept, PTL DEF ConversionSpec

\* ResultsFollowCalls of RequestConversion, at every step of the handlers' loops.
THEOREM ResultsFollowTheirCalls == ConversionSpec => []ResultsFollowCalls
<1>1. ConvInv => ResultsFollowCalls
  BY DEF ConvInv
<1> QED
  BY <1>1, ConvInvHolds, PTL

\* NothingLost of RequestConversion: what is enqueued is what was said.
THEOREM NothingSaidIsLost == ConversionSpec => []NothingLost
<1>1. ConvInv => NothingLost
  BY DEF ConvInv, SaidInv, NothingLost, InPlace
<1> QED
  BY <1>1, ConvInvHolds, PTL


-----------------------------------------------------------------------------
(* Answers of the API handlers.                                              *)

USE AnswersAssumption

LEMMA ChunkType ==
  ASSUME NEW ev \in ChunkEvents, NEW of \in Nat
  PROVE  /\ Chunk(ev, of) \in Seq(Chunks) /\ Len(Chunk(ev, of)) = 1
         /\ Chunk(ev, of)[1] = [ev |-> ev, of |-> of, block |-> "none"]
<1>1. PICK c \in Chunks : c = [ev |-> ev, of |-> of, block |-> "none"]
  <2>1. [ev |-> ev, of |-> of, block |-> "none"] \in Chunks
    BY DEF Chunks, BlockTypes
  <2> QED  BY <2>1, Zenon
<1>2. Chunk(ev, of) = <<c>>
  BY <1>1 DEF Chunk
<1>3. <<c>> \in Seq(Chunks) /\ Len(<<c>>) = 1 /\ <<c>>[1] = c
  OBVIOUS
<1> QED
  BY <1>1, <1>2, <1>3

LEMMA ExecsAppended ==
  ASSUME NEW s \in Seq(Events), NEW e \in Events
  PROVE  /\ ExecsOf(s) \in Seq(Execs) /\ Len(ExecsOf(s)) = Len(s)
         /\ ExecsOf(Append(s, e)) = Append(ExecsOf(s), e.exec)
<1>1. /\ Append(s, e) \in Seq(Events) /\ Len(Append(s, e)) = Len(s) + 1 /\ Append(s, e)[Len(s) + 1] = e
      /\ \A i \in 1 .. Len(s) : Append(s, e)[i] = s[i]
  BY AppendProperties
<1>2. \A i \in 1 .. Len(s) : s[i] \in Events
  BY ElementOfSeq
<1>3. ExecsOf(s) \in Seq(Execs) /\ Len(ExecsOf(s)) = Len(s) /\ e.exec \in Execs
  BY <1>2 DEF ExecsOf, Events
<1>4. DOMAIN ExecsOf(Append(s, e)) = 1 .. Len(s) + 1 /\ ExecsOf(Append(s, e)) \in Seq(Execs)
  <2>1. \A i \in 1 .. Len(s) + 1 : Append(s, e)[i] \in Events
    BY <1>1, ElementOfSeq
  <2> QED  BY <1>1, <2>1 DEF ExecsOf, Events
<1>5. \A i \in 1 .. Len(s) + 1 : ExecsOf(Append(s, e))[i] = Append(ExecsOf(s), e.exec)[i]
  <2>1. \A i \in 1 .. Len(s) : ExecsOf(Append(s, e))[i] = s[i].exec /\ ExecsOf(s)[i] = s[i].exec
    BY <1>1 DEF ExecsOf
  <2>2. ExecsOf(Append(s, e))[Len(s) + 1] = e.exec
    BY <1>1 DEF ExecsOf
  <2>3. /\ Append(ExecsOf(s), e.exec)[Len(s) + 1] = e.exec
        /\ \A i \in 1 .. Len(s) : Append(ExecsOf(s), e.exec)[i] = ExecsOf(s)[i]
    BY <1>3, AppendProperties
  <2>4. \A i \in 1 .. Len(s) : ExecsOf(Append(s, e))[i] = Append(ExecsOf(s), e.exec)[i]
    BY <2>1, <2>3
  <2>5. ExecsOf(Append(s, e))[Len(s) + 1] = Append(ExecsOf(s), e.exec)[Len(s) + 1]
    BY <2>2, <2>3
  <2>6. Len(s) \in Nat
    OBVIOUS
  <2>7. SUFFICES ASSUME NEW i \in 1 .. Len(s) + 1
                 PROVE  ExecsOf(Append(s, e))[i] = Append(ExecsOf(s), e.exec)[i]
    OBVIOUS
  <2>8. i \in 1 .. Len(s) \/ i = Len(s) + 1
    BY <2>6, <2>7
  <2> QED  BY <2>4, <2>5, <2>8
<1>6. Append(ExecsOf(s), e.exec) \in Seq(Execs) /\ Len(Append(ExecsOf(s), e.exec)) = Len(s) + 1
  BY <1>3, AppendProperties
<1>7. Len(ExecsOf(Append(s, e))) = Len(s) + 1
  BY <1>1 DEF ExecsOf
<1>8. ExecsOf(Append(s, e)) = Append(ExecsOf(s), e.exec)
  BY <1>4, <1>5, <1>6, <1>7, SeqEqual
<1> QED
  BY <1>3, <1>8

\* What a delivered event adds to what is read of the log.
LEMMA LogRead ==
  ASSUME AnsTypeOK, NEW e \in Events, e.exec = round, log' = Append(log, e), round' = round
  PROVE  /\ log' \in Seq(Events) /\ \A i \in 1 .. Len(log') : log'[i].exec <= round
         /\ Texts \in Seq(Execs)
         /\ Texts' = IF e.type = "token" THEN Append(Texts, e.exec) ELSE Texts
         /\ \A type, x :
              type # e.type => Generated(type, x)' = Generated(type, x)
<1>1. /\ log \in Seq(Events) /\ log' \in Seq(Events) /\ Len(log') = Len(log) + 1 /\ log'[Len(log) + 1] = e
      /\ Len(log) \in Nat /\ \A i \in 1 .. Len(log) : log'[i] = log[i]
  BY AppendProperties DEF AnsTypeOK
<1>2. \A i \in 1 .. Len(log') : log'[i].exec <= round
  BY <1>1 DEF AnsTypeOK, Events, Execs
<1>3. Texts \in Seq(Execs) /\ Texts' = IF e.type = "token" THEN Append(Texts, e.exec) ELSE Texts
  <2> DEFINE P == EventPlaces("token")
             Q == {i \in 1 .. Len(log') : log'[i].type = "token"}
  <2>1. At(log, P) \in Seq(Events)
    BY <1>1, AtType
  <2>2. At(log', Q) = IF e.type = "token" THEN Append(At(log, P), e) ELSE At(log, P)
    <3>1. At(log', Q) = IF Len(log) + 1 \in Q THEN Append(At(log, Q), e) ELSE At(log, Q)
      <4> HIDE DEF Q
      <4> QED  BY <1>1, AtAppend
    <3>2. At(log, Q) = At(log, P)
      <4>1. \A i \in 1 .. Len(log) : i \in P <=> i \in Q
        BY <1>1 DEF EventPlaces
      <4> HIDE DEF P, Q
      <4> QED  BY <1>1, <4>1, AtAlike, Zenon
    <3>3. Len(log) + 1 \in Q <=> e.type = "token"
      BY <1>1
    <3> HIDE DEF P, Q
    <3> QED  BY <3>1, <3>2, <3>3
  <2>3. Texts' = ExecsOf(At(log', Q)) /\ Texts = ExecsOf(At(log, P))
    BY DEF Texts, ExecsAt, ExecsOf, EventPlaces
  <2> HIDE DEF P, Q
  <2>4. PICK s \in Seq(Events) : s = At(log, P)
    BY <2>1
  <2>5. ExecsOf(Append(s, e)) = Append(ExecsOf(s), e.exec) /\ ExecsOf(s) \in Seq(Execs)
    BY ExecsAppended
  <2> QED  BY <2>2, <2>3, <2>4, <2>5
<1>4. ASSUME NEW type, NEW x, type # e.type
      PROVE  Generated(type, x)' = Generated(type, x)
  <2> DEFINE P == {i \in EventPlaces(type) : log[i].exec = x}
             Q == {i \in 1 .. Len(log') : log'[i].type = type /\ log'[i].exec = x}
  <2>1. At(log', Q) = At(log, P)
    <3>1. At(log', Q) = IF Len(log) + 1 \in Q THEN Append(At(log, Q), e) ELSE At(log, Q)
      <4> HIDE DEF Q
      <4> QED  BY <1>1, AtAppend
    <3>2. At(log, Q) = At(log, P)
      <4>1. \A i \in 1 .. Len(log) : i \in P <=> i \in Q
        BY <1>1 DEF EventPlaces
      <4> HIDE DEF P, Q
      <4> QED  BY <1>1, <4>1, AtAlike, Zenon
    <3>3. Len(log) + 1 \notin Q
      BY <1>1, <1>4
    <3> HIDE DEF P, Q
    <3> QED  BY <3>1, <3>2, <3>3
  <2>2. {i \in EventPlaces(type)' : log'[i].exec = x} = Q
    BY DEF EventPlaces
  <2>3. Generated(type, x)' = ExecsOf(At(log', Q)) /\ Generated(type, x) = ExecsOf(At(log, P))
    BY <2>2 DEF Generated, ExecsAt, ExecsOf
  <2> HIDE DEF P, Q
  <2> QED  BY <2>1, <2>3
<1> QED
  BY <1>1, <1>2, <1>3, <1>4

\* The reference reading of a stream goes chunk by chunk.
ReadStates == [open : BlockTypes, next : Nat, ok : BOOLEAN]
Unread == [open |-> "none", next |-> 0, ok |-> TRUE]

LEMMA StepType ==
  ASSUME NEW s \in ReadStates, NEW c \in Chunks
  PROVE  Step(s, c) \in ReadStates
<1> USE DEF Step, ReadStates
<1>1. c.block \in BlockTypes /\ "none" \in BlockTypes /\ s.next + 1 \in Nat
  BY DEF Chunks, BlockTypes
<1>2. CASE c.ev = "start"
  BY <1>1, <1>2
<1>3. CASE c.ev = "delta"
  BY <1>1, <1>3
<1>4. CASE c.ev = "stop"
  BY <1>1, <1>4
<1>5. CASE c.ev \notin {"start", "delta", "stop"}
  BY <1>5
<1> QED
  BY <1>2, <1>3, <1>4, <1>5

LEMMA ReadingStep ==
  ASSUME NEW s \in Seq(Chunks)
  PROVE  /\ Reading(s) \in [0 .. Len(s) -> ReadStates] /\ Reading(s)[0] = Unread
         /\ \A n \in 1 .. Len(s) : Reading(s)[n] = Step(Reading(s)[n - 1], s[n])
<1> DEFINE eat == [n \in 1 .. Len(s) |-> [r \in ReadStates |-> Step(r, s[n])]]
           Is(f) == f = [n \in 0 .. Len(s) |-> IF n = 0 THEN Unread ELSE Step(f[n - 1], s[n])]
<1>0. Len(s) \in Nat /\ Unread \in ReadStates /\ \A n \in 1 .. Len(s) : s[n] \in Chunks
  BY ElementOfSeq DEF Unread, ReadStates, BlockTypes
<1>1. eat \in Stepping(Len(s), ReadStates)
  BY <1>0, StepType DEF Stepping
<1>2. \A n \in 1 .. Len(s), r \in ReadStates : eat[n][r] = Step(r, s[n])
  OBVIOUS
<1>3. PICK f \in [0 .. Len(s) -> ReadStates] : f[0] = Unread /\ \A n \in 1 .. Len(s) : f[n] = eat[n][f[n - 1]]
  <2>1. \E f : FollowsSteps(f, Len(s), ReadStates, Unread, eat)
    <3> HIDE DEF eat
    <3> QED  BY <1>0, <1>1, StepsMakeFunction
  <2> HIDE DEF eat
  <2> QED  BY <2>1 DEF FollowsSteps
<1>4. \A n \in 1 .. Len(s) : f[n] = Step(f[n - 1], s[n])
  <2> SUFFICES ASSUME NEW n \in 1 .. Len(s) PROVE f[n] = Step(f[n - 1], s[n])
    OBVIOUS
  <2> HIDE DEF eat, Is
  <2>1. f[n - 1] \in ReadStates
    BY <1>0, <1>3
  <2> QED  BY <1>2, <1>3, <2>1
<1>5. Is(f)
  <2> HIDE DEF eat
  <2>1. \A n \in 0 .. Len(s) : f[n] = IF n = 0 THEN Unread ELSE Step(f[n - 1], s[n])
    <3> SUFFICES ASSUME NEW n \in 0 .. Len(s)
                 PROVE  f[n] = IF n = 0 THEN Unread ELSE Step(f[n - 1], s[n])
      OBVIOUS
    <3>1. CASE n = 0
      BY <1>3, <3>1
    <3>2. CASE n # 0
      BY <1>0, <1>4, <3>2
    <3> QED  BY <3>1, <3>2
  <2> QED  BY <1>3, <2>1
<1>6. Reading(s) = CHOOSE g : Is(g)
  BY DEF Reading, Unread
<1>7. Is(Reading(s))
  <2> HIDE DEF Is
  <2> QED  BY <1>5, <1>6, Zenon
<1> DEFINE k == Reading(s)
<1>8. \A n \in 0 .. Len(s) : k[n] = IF n = 0 THEN Unread ELSE Step(k[n - 1], s[n])
  BY <1>7
<1>9. k = [n \in 0 .. Len(s) |-> k[n]]
  BY <1>7
<1> HIDE DEF k, eat, Is
<1>10. \A n \in 0 .. Len(s) : k[n] \in ReadStates
  <2> DEFINE T == {n \in 0 .. Len(s) : k[n] \in ReadStates}
  <2>1. 0 \in T
    BY <1>0, <1>8
  <2>2. ASSUME NEW n \in 1 .. Len(s), n - 1 \in T PROVE n \in T
    <3>1. k[n] = Step(k[n - 1], s[n]) /\ n \in 0 .. Len(s)
      BY <1>0, <1>8, <2>2
    <3> QED  BY <1>0, <2>2, <3>1, StepType
  <2>3. 0 .. Len(s) \subseteq T
    <3> HIDE DEF T
    <3> QED  BY <1>0, <2>1, <2>2, CountUp
  <2> QED  BY <2>3
<1>11. k \in [0 .. Len(s) -> ReadStates]
  BY <1>9, <1>10
<1>12. k[0] = Unread /\ \A n \in 1 .. Len(s) : k[n] = Step(k[n - 1], s[n])
  BY <1>0, <1>8
<1> QED
  BY <1>11, <1>12 DEF k

LEMMA ReadAppended ==
  ASSUME NEW s \in Seq(Chunks), NEW c \in Chunks
  PROVE  ReadBlocks(s) \in ReadStates /\ ReadBlocks(Append(s, c)) = Step(ReadBlocks(s), c)
<1> DEFINE t == Append(s, c)
           T == {n \in 0 .. Len(s) : Reading(t)[n] = Reading(s)[n]}
<1>1. /\ t \in Seq(Chunks) /\ Len(t) = Len(s) + 1 /\ t[Len(s) + 1] = c /\ Len(s) \in Nat
      /\ \A i \in 1 .. Len(s) : t[i] = s[i]
  BY AppendProperties
<1> HIDE DEF t
<1>2. 0 \in T
  BY <1>1, ReadingStep
<1>3. ASSUME NEW n \in 1 .. Len(s), n - 1 \in T PROVE n \in T
  <2>1. n \in 1 .. Len(t) /\ Reading(t)[n - 1] = Reading(s)[n - 1] /\ t[n] = s[n]
    BY <1>1, <1>3
  <2>2. Reading(t)[n] = Step(Reading(t)[n - 1], t[n]) /\ Reading(s)[n] = Step(Reading(s)[n - 1], s[n])
    BY <1>1, <2>1, ReadingStep
  <2> QED  BY <1>1, <2>1, <2>2
<1>4. 0 .. Len(s) \subseteq T
  <2> HIDE DEF T
  <2> QED  BY <1>1, <1>2, <1>3, CountUp
<1>5. Reading(t)[Len(s)] = Reading(s)[Len(s)]
  BY <1>1, <1>4
<1>6. Len(s) + 1 \in 1 .. Len(t) /\ (Len(s) + 1) - 1 = Len(s) /\ Len(s) \in 0 .. Len(s)
  BY <1>1
<1>7. Reading(t)[Len(s) + 1] = Step(Reading(t)[Len(s)], c)
  <2>1. \A n \in 1 .. Len(t) : Reading(t)[n] = Step(Reading(t)[n - 1], t[n])
    BY <1>1, ReadingStep
  <2> HIDE DEF T
  <2> QED  BY <1>1, <1>6, <2>1
<1>8. Reading(s)[Len(s)] \in ReadStates
  <2>1. Reading(s) \in [0 .. Len(s) -> ReadStates]
    BY ReadingStep
  <2> QED  BY <1>6, <2>1
<1> HIDE DEF T
<1> QED
  BY <1>1, <1>5, <1>7, <1>8 DEF ReadBlocks, t

\* What one more chunk does to the reading and to the text that was sent.
DeltasOf(s) == {i \in 1 .. Len(s) : s[i].ev = "delta" /\ s[i].block = "text"}
Sent(s) == Cardinality(DeltasOf(s))
TextDelta(c) == c.ev = "delta" /\ c.block = "text"
Grows(s, t, c) ==
  /\ t \in Seq(Chunks) /\ ReadBlocks(s) \in ReadStates /\ ReadBlocks(t) = Step(ReadBlocks(s), c)
  /\ Sent(s) \in Nat /\ Sent(t) = Sent(s) + (IF TextDelta(c) THEN 1 ELSE 0)

LEMMA SentAppended ==
  ASSUME NEW s \in Seq(Chunks), NEW c \in Chunks
  PROVE  Sent(s) \in Nat /\ Sent(Append(s, c)) = Sent(s) + (IF TextDelta(c) THEN 1 ELSE 0)
<1>1. /\ Len(Append(s, c)) = Len(s) + 1 /\ Append(s, c)[Len(s) + 1] = c /\ Len(s) \in Nat
      /\ \A i \in 1 .. Len(s) : Append(s, c)[i] = s[i]
  BY AppendProperties
<1>2. IsFiniteSet(DeltasOf(s))
  <2>1. IsFiniteSet(1 .. Len(s)) /\ DeltasOf(s) \subseteq 1 .. Len(s)
    BY <1>1, FS_Interval DEF DeltasOf
  <2> QED  BY <2>1, FS_Subset
<1>3. Sent(s) \in Nat
  BY <1>2, FS_CardinalityType DEF Sent
<1>4. CASE TextDelta(c)
  <2>1. DeltasOf(Append(s, c)) = DeltasOf(s) \cup {Len(s) + 1} /\ Len(s) + 1 \notin DeltasOf(s)
    BY <1>1, <1>4 DEF DeltasOf, TextDelta
  <2> QED  BY <1>2, <1>3, <1>4, <2>1, FS_AddElement DEF Sent
<1>5. CASE ~ TextDelta(c)
  <2>1. DeltasOf(Append(s, c)) = DeltasOf(s)
    BY <1>1, <1>5 DEF DeltasOf, TextDelta
  <2> QED  BY <1>3, <1>5, <2>1 DEF Sent
<1> QED
  BY <1>4, <1>5

LEMMA Pushed ==
  ASSUME NEW s \in Seq(Chunks), NEW w \in Seq(Chunks), NEW c \in Chunks, NEW t, t = s \o (w \o <<c>>)
  PROVE  s \o w \in Seq(Chunks) /\ w \o <<c>> \in Seq(Chunks) /\ Grows(s \o w, t, c)
<1>1. PICK y : y = Append(s \o w, c)
  OBVIOUS
<1>2. y = s \o Append(w, c)
  BY <1>1, CatAppended
<1>3. Append(w, c) = w \o <<c>> /\ Append(w, c) \in Seq(Chunks)
  BY AppendIsConcat, AppendProperties
<1>4. t = y
  BY <1>2, <1>3
<1>5. PICK u \in Seq(Chunks) : u = s \o w
  BY ConcatProperties
<1>6. Append(u, c) \in Seq(Chunks) /\ t = Append(u, c)
  BY <1>1, <1>4, <1>5, AppendProperties
<1>7. Grows(u, t, c)
  BY <1>6, ReadAppended, SentAppended DEF Grows
<1> QED
  BY <1>3, <1>5, <1>7

LEMMA PushedOne ==
  ASSUME NEW s \in Seq(Chunks), NEW c \in Chunks, NEW t, t = s \o <<c>>
  PROVE  Grows(s, t, c)
<1>1. Append(s, c) = s \o <<c>> /\ Append(s, c) \in Seq(Chunks)
  BY AppendIsConcat, AppendProperties
<1> QED
  BY <1>1, ReadAppended, SentAppended DEF Grows

\* The three blocks chunks of an Anthropic stream.
StartOf(b, i) == [ev |-> "start", of |-> i, block |-> b]
DeltaOf(b, i) == [ev |-> "delta", of |-> i, block |-> b]
StopOf(i) == [ev |-> "stop", of |-> i, block |-> "any"]
LEMMA BlockChunks ==
  ASSUME NEW b \in BlockTypes, NEW i \in Nat
  PROVE  /\ StartOf(b, i) \in Chunks /\ DeltaOf(b, i) \in Chunks /\ StopOf(i) \in Chunks
         /\ Start(b, i) = <<StartOf(b, i)>> /\ Delta(b, i) = <<DeltaOf(b, i)>> /\ Stop(i) = <<StopOf(i)>>
BY DEF StartOf, DeltaOf, StopOf, Start, Delta, Stop, Chunks, ChunkEvents, BlockTypes

LEMMA CatEmpty ==
  ASSUME NEW S, NEW s \in Seq(S)
  PROVE  s \o <<>> = s /\ <<>> \o s = s
OBVIOUS

OutTyped == out \in Seq(Chunks) /\ block \in [index : Nat, text : BOOLEAN, thinking : BOOLEAN]

LEMMA ThinkingWrites ==
  ASSUME OutTyped, AnthropicThinking
  PROVE  IF block.thinking THEN Grows(out, out', DeltaOf("thinking", block.index))
         ELSE \E m : /\ Grows(out, m, StartOf("thinking", block.index))
                     /\ Grows(m, out', DeltaOf("thinking", block.index))
<1> DEFINE i == block.index
           d == DeltaOf("thinking", i)
           st == StartOf("thinking", i)
<1>1. i \in Nat /\ "thinking" \in BlockTypes /\ out \in Seq(Chunks) /\ block.thinking \in BOOLEAN
  BY DEF OutTyped, BlockTypes
<1>2. d \in Chunks /\ st \in Chunks /\ Delta("thinking", i) = <<d>> /\ Start("thinking", i) = <<st>>
  <2> HIDE DEF i
  <2> QED  BY <1>1, BlockChunks
<1>3. out' = out \o ((IF block.thinking THEN <<>> ELSE <<st>>) \o <<d>>)
  BY <1>2 DEF AnthropicThinking, Write
<1> HIDE DEF d, st
<1>4. CASE block.thinking
  <2>1. <<>> \o <<d>> = <<d>>
    BY <1>2
  <2>2. Grows(out, out', d)
    BY <1>1, <1>2, <1>3, <1>4, <2>1, PushedOne
  <2> QED  BY <1>4, <2>2 DEF d
<1>5. CASE ~ block.thinking
  <2>1. PICK w \in Seq(Chunks) : w = <<st>>
    <3>1. <<st>> \in Seq(Chunks)
      BY <1>2
    <3> QED  BY <3>1, Zenon
  <2>2. out' = out \o (w \o <<d>>)
    BY <1>3, <1>5, <2>1
  <2>3. Grows(out \o w, out', d)
    BY <1>1, <1>2, <2>2, Pushed
  <2>4. PICK m : m = out \o w
    OBVIOUS
  <2>5. Grows(out, m, st)
    BY <1>1, <1>2, <2>1, <2>4, PushedOne
  <2>6. Grows(m, out', d)
    BY <2>3, <2>4
  <2> QED  BY <1>5, <2>5, <2>6 DEF d, st
<1> QED
  BY <1>4, <1>5

LEMMA TextWrites ==
  ASSUME OutTyped, AnthropicText
  PROVE  LET i == IF ThinkingEnds THEN block.index + 1 ELSE block.index
         IN  IF ThinkingEnds
             THEN \E m, n : /\ Grows(out, m, StopOf(block.index)) /\ Grows(m, n, StartOf("text", i))
                            /\ Grows(n, out', DeltaOf("text", i))
             ELSE IF block.text THEN Grows(out, out', DeltaOf("text", i))
             ELSE \E m : Grows(out, m, StartOf("text", i)) /\ Grows(m, out', DeltaOf("text", i))
<1> DEFINE h == block.index
           i == IF ThinkingEnds THEN h + 1 ELSE h
           d == DeltaOf("text", i)
           st == StartOf("text", i)
           sp == StopOf(h)
<1>1. /\ h \in Nat /\ i \in Nat /\ "text" \in BlockTypes /\ out \in Seq(Chunks)
      /\ block.text \in BOOLEAN /\ ThinkingEnds \in BOOLEAN /\ (ThinkingEnds => ~ block.text)
  BY DEF OutTyped, BlockTypes, ThinkingEnds
<1>2. /\ d \in Chunks /\ st \in Chunks /\ sp \in Chunks
      /\ Delta("text", i) = <<d>> /\ Start("text", i) = <<st>> /\ Stop(h) = <<sp>>
  <2> HIDE DEF i, h
  <2> QED  BY <1>1, BlockChunks
<1>3. out' = out \o (((IF ThinkingEnds THEN <<sp>> ELSE <<>>) \o (IF block.text THEN <<>> ELSE <<st>>)) \o <<d>>)
  BY <1>2 DEF AnthropicText, Write
<1> HIDE DEF d, st, sp, i, ThinkingEnds
<1>4. PICK a \in Seq(Chunks), w \in Seq(Chunks) : a = <<sp>> /\ w = <<st>>
  <2>1. <<st>> \in Seq(Chunks) /\ <<sp>> \in Seq(Chunks)
    BY <1>2
  <2> QED  BY <2>1, Zenon
<1>5. CASE ThinkingEnds
  <2>1. out' = out \o ((a \o w) \o <<d>>)
    BY <1>1, <1>3, <1>4, <1>5
  <2>2. PICK aw \in Seq(Chunks) : aw = a \o w
    BY <1>4, ConcatProperties
  <2>3. out' = out \o (aw \o <<d>>)
    BY <2>1, <2>2
  <2>4. Grows(out \o aw, out', d)
    BY <1>1, <1>2, <2>3, Pushed
  <2>5. PICK n : n = out \o aw
    OBVIOUS
  <2>6. n = out \o (a \o <<st>>)
    BY <1>4, <2>2, <2>5
  <2>7. Grows(out \o a, n, st)
    BY <1>1, <1>2, <1>4, <2>6, Pushed
  <2>8. PICK m : m = out \o a
    OBVIOUS
  <2>9. Grows(out, m, sp)
    BY <1>1, <1>2, <1>4, <2>8, PushedOne
  <2>10. Grows(m, n, st) /\ Grows(n, out', d)
    BY <2>4, <2>5, <2>7, <2>8
  <2> QED  BY <1>5, <2>9, <2>10 DEF d, st, sp, i
<1>6. CASE ~ ThinkingEnds /\ block.text
  <2>1. (<<>> \o <<>>) \o <<d>> = <<d>>
    BY <1>2
  <2>2. out' = out \o ((<<>> \o <<>>) \o <<d>>)
    BY <1>3, <1>6
  <2>3. Grows(out, out', d)
    BY <1>1, <1>2, <2>1, <2>2, PushedOne
  <2> QED  BY <1>6, <2>3 DEF d, i
<1>7. CASE ~ ThinkingEnds /\ ~ block.text
  <2>1. <<>> \o w = w
    BY <1>4, CatEmpty
  <2>2. out' = out \o ((<<>> \o w) \o <<d>>)
    BY <1>3, <1>4, <1>7
  <2>3. out' = out \o (w \o <<d>>)
    BY <2>1, <2>2
  <2>4. Grows(out \o w, out', d)
    BY <1>1, <1>2, <1>4, <2>3, Pushed
  <2>5. PICK m : m = out \o w
    OBVIOUS
  <2>6. Grows(out, m, st) /\ Grows(m, out', d)
    BY <1>1, <1>2, <1>4, <2>4, <2>5, PushedOne
  <2> QED  BY <1>7, <2>6 DEF d, st, i
<1> QED
  BY <1>1, <1>5, <1>6, <1>7

IsTriple(S, s, a, b, c) == \E u, v \in Seq(S) : u = <<a>> /\ v = u \o <<b>> /\ s = v \o <<c>>
LEMMA Triple ==
  ASSUME NEW S, NEW a \in S, NEW b \in S, NEW c \in S,
         NEW s \in Seq(S), Len(s) = 3, s[1] = a, s[2] = b, s[3] = c
  PROVE  IsTriple(S, s, a, b, c)
<1>1. PICK u \in Seq(S), x \in Seq(S), y \in Seq(S) : u = <<a>> /\ x = <<b>> /\ y = <<c>>
  <2>1. <<a>> \in Seq(S) /\ <<b>> \in Seq(S) /\ <<c>> \in Seq(S)
    OBVIOUS
  <2> QED  BY <2>1, Zenon
<1>2. PICK v \in Seq(S) : v = u \o x /\ Len(v) = 2 /\ v[1] = a /\ v[2] = b
  <2>1. u \o x \in Seq(S) /\ Len(u \o x) = 2 /\ (u \o x)[1] = a /\ (u \o x)[2] = b
    BY <1>1
  <2> QED  BY <2>1, Zenon
<1>3. PICK w \in Seq(S) : w = v \o y /\ Len(w) = 3 /\ w[1] = a /\ w[2] = b /\ w[3] = c
  <2>1. v \o y \in Seq(S) /\ Len(v \o y) = 3 /\ (v \o y)[1] = a /\ (v \o y)[2] = b /\ (v \o y)[3] = c
    BY <1>1, <1>2
  <2> QED  BY <2>1, Zenon
<1>4. Len(w) = Len(s) /\ \A i \in 1 .. Len(w) : w[i] = s[i]
  <2>1. \A i \in 1 .. 3 : i = 1 \/ i = 2 \/ i = 3
    OBVIOUS
  <2> QED  BY <1>3, <2>1
<1>5. w = s
  BY <1>4, SeqEqual
<1> QED
  BY <1>1, <1>2, <1>3, <1>5, Zenon DEF IsTriple

LEMMA ToolBlocksOf ==
  ASSUME NEW first \in Nat, NEW calls \in 0 .. 1
  PROVE  /\ ToolBlocks(first, calls) \in Seq(Chunks)
         /\ calls = 0 => ToolBlocks(first, calls) = <<>>
         /\ calls = 1 => IsTriple(Chunks, ToolBlocks(first, calls), StartOf("tool_use", first),
                                  DeltaOf("tool_use", first), StopOf(first))
<1>1. CASE calls = 0
  <2>1. 3 * calls = 0 /\ 1 .. 0 = {}
    BY <1>1
  <2>2. ToolBlocks(first, calls) = <<>>
    BY <2>1 DEF ToolBlocks
  <2>3. <<>> \in Seq(Chunks) /\ calls # 1
    BY <1>1
  <2> QED  BY <2>2, <2>3
<1>2. CASE calls = 1
  <2>1. PICK a \in Chunks, b \in Chunks, c \in Chunks :
                a = StartOf("tool_use", first) /\ b = DeltaOf("tool_use", first) /\ c = StopOf(first)
    <3>1. "tool_use" \in BlockTypes
      BY DEF BlockTypes
    <3> QED  BY <3>1, BlockChunks
  <2> DEFINE F(k) == [ev |-> <<"start", "delta", "stop">>[1 + ((k - 1) % 3)], of |-> first + (k - 1) \div 3,
                      block |-> IF k % 3 = 0 THEN "any" ELSE "tool_use"]
  <2>2. 3 * calls = 3
    BY <1>2
  <2>3. ToolBlocks(first, calls) = [k \in 1 .. 3 |-> F(k)]
    BY <2>2, Zenon DEF ToolBlocks
  <2>4. F(1) = a
    BY <2>1 DEF StartOf
  <2>5. F(2) = b
    BY <2>1 DEF DeltaOf
  <2>6. F(3) = c
    <3>1. 1 + ((3 - 1) % 3) = 3
      OBVIOUS
    <3>2. (3 - 1) \div 3 = 0
      OBVIOUS
    <3>3. 3 % 3 = 0
      OBVIOUS
    <3>4. first + (3 - 1) \div 3 = first
      BY <3>2
    <3> QED  BY <2>1, <3>1, <3>3, <3>4 DEF StopOf
  <2> HIDE DEF F
  <2>7. PICK s : s = [k \in 1 .. 3 |-> F(k)]
    OBVIOUS
  <2>8. \A k \in 1 .. 3 : F(k) \in Chunks
    <3>1. \A k \in 1 .. 3 : k = 1 \/ k = 2 \/ k = 3
      OBVIOUS
    <3> QED  BY <2>4, <2>5, <2>6, <3>1
  <2>9. s \in Seq(Chunks) /\ Len(s) = 3 /\ s[1] = a /\ s[2] = b /\ s[3] = c
    BY <2>4, <2>5, <2>6, <2>7, <2>8
  <2>10. IsTriple(Chunks, s, a, b, c)
    BY <2>9, Triple
  <2>11. ToolBlocks(first, calls) = s /\ calls # 0
    BY <1>2, <2>3, <2>7
  <2> QED  BY <2>1, <2>9, <2>10, <2>11, Zenon
<1> QED
  BY <1>1, <1>2

LEMMA CatGroups ==
  ASSUME NEW S, NEW s \in Seq(S), NEW t \in Seq(S), NEW u \in Seq(S),
         NEW st, NEW tu, NEW y, IsCat(st, s, t), IsCat(tu, t, u)
  PROVE  IsCat(y, s, tu) <=> IsCat(y, st, u)
<1>1. (s \o t) \o u = s \o (t \o u)
  BY ConcatAssociative
<1> QED
  BY <1>1 DEF IsCat

\* Where "done" takes the reading: the open block is closed, a block is opened
\* and closed for the call, and the message stops.
Ends(s, t, open, h, calls) ==
  \E m, n, o :
    /\ IF open THEN Grows(s, m, StopOf(h)) ELSE m = s
    /\ LET first == IF open THEN h + 1 ELSE h
       IN  IF calls = 0 THEN n = m
           ELSE \E p, q : /\ Grows(m, p, StartOf("tool_use", first)) /\ Grows(p, q, DeltaOf("tool_use", first))
                          /\ Grows(q, n, StopOf(first))
    /\ Grows(n, o, Chunk("message_delta", 0)[1]) /\ Grows(o, t, Chunk("message_stop", 0)[1])

LEMMA DoneWrites ==
  ASSUME OutTyped, NEW e \in Events, AnthropicDone(e)
  PROVE  Ends(out, out', ThinkingEnds \/ block.text, block.index, e.calls)
<1> DEFINE h == block.index
           open == ThinkingEnds \/ block.text
           first == IF open THEN h + 1 ELSE h
           sp == StopOf(h)
           T == ToolBlocks(first, e.calls)
           md == Chunk("message_delta", 0)[1]
           ms == Chunk("message_stop", 0)[1]
<1>1. h \in Nat /\ first \in Nat /\ out \in Seq(Chunks) /\ open \in BOOLEAN /\ e.calls \in 0 .. 1
  BY DEF OutTyped, ThinkingEnds, Events
<1>2. /\ md \in Chunks /\ Chunk("message_delta", 0) = <<md>> /\ ms \in Chunks /\ Chunk("message_stop", 0) = <<ms>>
      /\ sp \in Chunks /\ Stop(h) = <<sp>>
  <2>1. md \in Chunks /\ ms \in Chunks /\ Chunk("message_delta", 0) = <<md>> /\ Chunk("message_stop", 0) = <<ms>>
    BY DEF Chunk, Chunks, ChunkEvents, BlockTypes
  <2>2. sp \in Chunks /\ Stop(h) = <<sp>>
    <3>1. "any" \in BlockTypes
      BY DEF BlockTypes
    <3> HIDE DEF h
    <3> QED  BY <1>1, <3>1, BlockChunks
  <2> QED  BY <2>1, <2>2
<1>3. out' = out \o ((((IF open THEN <<sp>> ELSE <<>>) \o T) \o <<md>>) \o <<ms>>)
  BY <1>2 DEF AnthropicDone, Write
<1>4. /\ T \in Seq(Chunks)
      /\ e.calls = 0 => T = <<>>
      /\ e.calls = 1 => IsTriple(Chunks, T, StartOf("tool_use", first), DeltaOf("tool_use", first), StopOf(first))
  <2> HIDE DEF first
  <2> QED  BY <1>1, ToolBlocksOf
<1>5. PICK A \in Seq(Chunks) : A = IF open THEN <<sp>> ELSE <<>>
  <2>1. <<sp>> \in Seq(Chunks) /\ <<>> \in Seq(Chunks)
    BY <1>2
  <2> QED  BY <2>1
<1>6. PICK W \in Seq(Chunks) : W = A \o T
  BY <1>4, <1>5, ConcatProperties
<1> HIDE DEF T, sp, md, ms
<1>7. out' = out \o ((W \o <<md>>) \o <<ms>>)
  BY <1>3, <1>5, <1>6
<1>8. PICK V \in Seq(Chunks) : V = W \o <<md>>
  BY <1>1, <1>2, <1>6, Pushed
<1>9. out' = out \o (V \o <<ms>>)
  BY <1>7, <1>8
<1>10. PICK o : o = out \o V
  OBVIOUS
<1>11. Grows(o, out', ms)
  BY <1>1, <1>2, <1>8, <1>9, <1>10, Pushed
<1>12. o = out \o (W \o <<md>>)
  BY <1>8, <1>10
<1>13. PICK n : n = out \o W
  OBVIOUS
<1>14. Grows(n, o, md)
  BY <1>1, <1>2, <1>6, <1>12, <1>13, Pushed
<1>15. PICK m \in Seq(Chunks) : m = out \o A
  BY <1>1, <1>5, ConcatProperties
<1>16. IF open THEN Grows(out, m, sp) ELSE m = out
  <2>1. CASE open
    <3>1. m = out \o <<sp>>
      BY <1>5, <1>15, <2>1
    <3>2. Grows(out, m, sp)
      BY <1>1, <1>2, <3>1, PushedOne
    <3> QED  BY <2>1, <3>2
  <2>2. CASE ~ open
    BY <1>1, <1>5, <1>15, <2>2, CatEmpty
  <2> QED  BY <2>1, <2>2
<1>17. n = m \o T
  <2>1. PICK u \in Seq(Chunks), v \in Seq(Chunks), w \in Seq(Chunks) : u = out /\ v = A /\ w = T
    BY <1>1, <1>4, <1>5
  <2>2. IsCat(W, v, w) /\ IsCat(m, u, v) /\ IsCat(n, u, W)
    BY <1>6, <1>13, <1>15, <2>1 DEF IsCat
  <2>3. IsCat(n, m, w)
    BY <2>2, CatGroups
  <2> QED  BY <2>1, <2>3 DEF IsCat
<1>18. IF e.calls = 0 THEN n = m
       ELSE \E p, q : /\ Grows(m, p, StartOf("tool_use", first)) /\ Grows(p, q, DeltaOf("tool_use", first))
                      /\ Grows(q, n, StopOf(first))
  <2>1. CASE e.calls = 0
    <3>1. n = m \o <<>>
      BY <1>4, <1>17, <2>1
    <3> QED  BY <1>15, <2>1, <3>1, CatEmpty
  <2>2. CASE e.calls = 1
    <3>1. PICK a \in Chunks, b \in Chunks, c \in Chunks :
                 a = StartOf("tool_use", first) /\ b = DeltaOf("tool_use", first) /\ c = StopOf(first)
      <4>1. "tool_use" \in BlockTypes
        BY DEF BlockTypes
      <4> HIDE DEF first
      <4> QED  BY <1>1, <4>1, BlockChunks
    <3> HIDE DEF first
    <3>2. IsTriple(Chunks, T, a, b, c)
      BY <1>4, <2>2, <3>1
    <3>3. PICK u \in Seq(Chunks), v \in Seq(Chunks) : u = <<a>> /\ v = u \o <<b>> /\ T = v \o <<c>>
      BY <3>2 DEF IsTriple
    <3>4. n = m \o (v \o <<c>>)
      BY <1>17, <3>3
    <3>5. PICK q : q = m \o v
      OBVIOUS
    <3>6. Grows(q, n, c)
      BY <1>15, <3>1, <3>3, <3>4, <3>5, Pushed
    <3>7. q = m \o (u \o <<b>>)
      BY <3>3, <3>5
    <3>8. PICK p : p = m \o u
      OBVIOUS
    <3>9. Grows(p, q, b)
      BY <1>15, <3>1, <3>3, <3>7, <3>8, Pushed
    <3>10. p = m \o <<a>>
      BY <3>3, <3>8
    <3>11. Grows(m, p, a)
      BY <1>15, <3>1, <3>10, PushedOne
    <3>12. e.calls # 0
      BY <2>2
    <3> QED  BY <3>1, <3>6, <3>9, <3>11, <3>12, Zenon
  <2> QED  BY <1>1, <2>1, <2>2
<1> QED
  BY <1>11, <1>14, <1>16, <1>18, Zenon DEF Ends, sp, md, ms

\* What the end of an Anthropic stream means for its reader.
ReadyToEnd(r, open, h) == r.ok /\ r.next = h /\ (r.open = "none" <=> ~ open)
LEMMA EndsClosed ==
  ASSUME NEW s \in Seq(Chunks), NEW t, NEW open \in BOOLEAN, NEW h \in Nat, NEW calls \in 0 .. 1, Ends(s, t, open, h, calls)
  PROVE  /\ t \in Seq(Chunks) /\ Sent(t) = Sent(s)
         /\ ReadyToEnd(ReadBlocks(s), open, h) => ReadBlocks(t).ok /\ ReadBlocks(t).open = "none"
<1> USE DEF ReadyToEnd
<1> DEFINE first == IF open THEN h + 1 ELSE h
           md == Chunk("message_delta", 0)[1]
           ms == Chunk("message_stop", 0)[1]
           Fine == ReadyToEnd(ReadBlocks(s), open, h)
           Closed(m) == Fine => ReadBlocks(m).ok /\ ReadBlocks(m).open = "none"
<1>1. PICK m, n, o :
        /\ IF open THEN Grows(s, m, StopOf(h)) ELSE m = s
        /\ IF calls = 0 THEN n = m
           ELSE \E p, q : /\ Grows(m, p, StartOf("tool_use", first)) /\ Grows(p, q, DeltaOf("tool_use", first))
                          /\ Grows(q, n, StopOf(first))
        /\ Grows(n, o, md) /\ Grows(o, t, ms)
  BY Zenon DEF Ends
<1>2. md.ev = "message_delta" /\ ms.ev = "message_stop"
  BY DEF Chunk
<1> HIDE DEF md, ms
<1>3. Closed(m) /\ (Fine => ReadBlocks(m).next = first) /\ (m = s \/ Sent(m) = Sent(s))
  <2>1. CASE open
    <3>1. ReadBlocks(m) = Step(ReadBlocks(s), StopOf(h)) /\ ReadBlocks(s) \in ReadStates /\ Sent(m) = Sent(s)
      BY <1>1, <2>1 DEF Grows, StopOf, TextDelta
    <3>2. StopOf(h).ev = "stop" /\ StopOf(h).of = h
      BY DEF StopOf
    <3> QED  BY <2>1, <3>1, <3>2 DEF Step, ReadStates
  <2>2. CASE ~ open
    BY <1>1, <2>2
  <2> QED  BY <2>1, <2>2
<1>4. Closed(n) /\ Sent(n) = Sent(m)
  <2>1. CASE calls = 0
    BY <1>1, <1>3, <2>1
  <2>2. CASE calls # 0
    <3>1. PICK p, q : /\ Grows(m, p, StartOf("tool_use", first)) /\ Grows(p, q, DeltaOf("tool_use", first))
                      /\ Grows(q, n, StopOf(first))
      BY <1>1, <2>2
    <3>2. Sent(n) = Sent(m)
      BY <3>1 DEF Grows, StartOf, DeltaOf, StopOf, TextDelta
    <3>3. /\ ReadBlocks(m) \in ReadStates /\ ReadBlocks(p) \in ReadStates /\ ReadBlocks(q) \in ReadStates
          /\ ReadBlocks(p) = Step(ReadBlocks(m), StartOf("tool_use", first))
          /\ ReadBlocks(q) = Step(ReadBlocks(p), DeltaOf("tool_use", first))
          /\ ReadBlocks(n) = Step(ReadBlocks(q), StopOf(first))
      BY <3>1 DEF Grows
    <3>4. Fine => ReadBlocks(p).ok /\ ReadBlocks(p).open = "tool_use" /\ ReadBlocks(p).next = first
      BY <1>3, <3>3 DEF Step, ReadStates, StartOf
    <3>5. Fine => ReadBlocks(q).ok /\ ReadBlocks(q).open = "tool_use" /\ ReadBlocks(q).next = first
      BY <3>3, <3>4 DEF Step, ReadStates, DeltaOf
    <3>6. Fine => ReadBlocks(n).ok /\ ReadBlocks(n).open = "none"
      BY <3>3, <3>5 DEF Step, ReadStates, StopOf
    <3> QED  BY <3>2, <3>6
  <2> QED  BY <2>1, <2>2
<1>5. ReadBlocks(o) = ReadBlocks(n) /\ ReadBlocks(t) = ReadBlocks(o) /\ Sent(t) = Sent(n) /\ t \in Seq(Chunks)
  <2>1. \A r : Step(r, md) = r /\ Step(r, ms) = r
    BY <1>2 DEF Step
  <2>2. ~ TextDelta(md) /\ ~ TextDelta(ms)
    BY <1>2 DEF TextDelta
  <2>3. ReadBlocks(o) = ReadBlocks(n) /\ ReadBlocks(t) = ReadBlocks(o)
    BY <1>1, <2>1 DEF Grows
  <2>4. Sent(o) = Sent(n) + 0 /\ Sent(t) = Sent(o) + 0 /\ Sent(n) \in Nat /\ t \in Seq(Chunks)
    BY <1>1, <2>2 DEF Grows
  <2> QED  BY <2>3, <2>4
<1> QED
  BY <1>3, <1>4, <1>5

-----------------------------------------------------------------------------
\* Chunks that carry no text of the chat and legacy streams.
Quiet(w) == \A i \in 1 .. Len(w) : w[i].ev # "text"
LEMMA QuietChunk ==
  ASSUME NEW ev \in ChunkEvents, NEW of \in Nat, ev # "text"
  PROVE  Chunk(ev, of) \in Seq(Chunks) /\ Quiet(Chunk(ev, of))
<1>1. PICK w : w = Chunk(ev, of)
  OBVIOUS
<1>2. w \in Seq(Chunks) /\ Len(w) = 1 /\ w[1].ev = ev
  <2>1. w \in Seq(Chunks) /\ Len(w) = 1 /\ w[1] = [ev |-> ev, of |-> of, block |-> "none"]
    BY <1>1, ChunkType, Zenon
  <2> QED  BY <2>1
<1>3. \A i \in 1 .. 1 : i = 1
  OBVIOUS
<1> QED
  BY <1>1, <1>2, <1>3 DEF Quiet

LEMMA QuietCat ==
  ASSUME NEW v \in Seq(Chunks), NEW w \in Seq(Chunks), Quiet(v), Quiet(w), NEW y, y = v \o w
  PROVE  y \in Seq(Chunks) /\ Quiet(y)
<1>1. /\ y \in Seq(Chunks) /\ Len(y) = Len(v) + Len(w) /\ Len(v) \in Nat /\ Len(w) \in Nat
      /\ \A i \in 1 .. Len(v) : y[i] = v[i]
      /\ \A i \in 1 .. Len(w) : y[Len(v) + i] = w[i]
  BY ConcatProperties
<1>2. SUFFICES ASSUME NEW i \in 1 .. Len(y) PROVE y[i].ev # "text"
  BY <1>1 DEF Quiet
<1>3. CASE i \in 1 .. Len(v)
  BY <1>1, <1>3 DEF Quiet
<1>4. CASE i \notin 1 .. Len(v)
  <2>1. PICK k \in 1 .. Len(w) : i = Len(v) + k
    <3>1. i - Len(v) \in 1 .. Len(w) /\ i = Len(v) + (i - Len(v))
      BY <1>1, <1>4
    <3> QED  BY <3>1, Zenon
  <2> QED  BY <1>1, <2>1 DEF Quiet
<1> QED
  BY <1>3, <1>4

\* What a stream of the OpenAI API writes for an event: its text, or no text.
Speaks(e, w) ==
  w \in Seq(Chunks) /\ IF e.type = "token" THEN w = Chunk("text", e.exec) ELSE Quiet(w)
LEMMA OpenAIWrites ==
  ASSUME out \in Seq(Chunks), NEW e \in Events, ChatStream(e) \/ LegacyStream(e)
  PROVE  \E w : Speaks(e, w) /\ out' = out \o w
<1>0. e.exec \in Nat /\ e.calls \in 0 .. 1
  BY DEF Events, Execs
<1>1. <<>> \in Seq(Chunks) /\ Quiet(<<>>) /\ out \o <<>> = out
  BY DEF Quiet
<1>2. PICK done \in Seq(Chunks) : done = Chunk("DONE", 0) /\ Quiet(done)
  <2>1. "DONE" \in ChunkEvents
    BY DEF ChunkEvents
  <2> QED  BY <2>1, QuietChunk, Zenon
<1>3. PICK err \in Seq(Chunks) : err = Chunk("error", 0) /\ Quiet(err)
  <2>1. "error" \in ChunkEvents
    BY DEF ChunkEvents
  <2> QED  BY <2>1, QuietChunk, Zenon
<1>4. PICK stop \in Seq(Chunks) : stop = Chunk("stop", 0) /\ Quiet(stop)
  <2>1. "stop" \in ChunkEvents
    BY DEF ChunkEvents
  <2> QED  BY <2>1, QuietChunk, Zenon
<1>5. CASE e.type = "token"
  <2>1. Chunk("text", e.exec) \in Seq(Chunks)
    <3>1. "text" \in ChunkEvents
      BY DEF ChunkEvents
    <3> QED  BY <1>0, <3>1, ChunkType
  <2>2. out' = out \o Chunk("text", e.exec)
    BY <1>5 DEF ChatStream, LegacyStream, Write
  <2> QED  BY <1>5, <2>1, <2>2, Zenon DEF Speaks
<1>6. CASE e.type = "reasoning_token"
  <2>1. PICK w \in Seq(Chunks) : w = Chunk("reasoning", e.exec) /\ Quiet(w)
    <3>1. "reasoning" \in ChunkEvents
      BY DEF ChunkEvents
    <3> QED  BY <1>0, <3>1, QuietChunk, Zenon
  <2>2. out' = out \o w \/ out' = out
    BY <1>6, <2>1 DEF ChatStream, LegacyStream, Write
  <2> QED  BY <1>1, <1>6, <2>1, <2>2 DEF Speaks
<1>7. CASE e.type = "done"
  <2> DEFINE c == [i \in 1 .. e.calls |-> [ev |-> "call", of |-> e.exec, block |-> "none"]]
             f == Chunk(Finish(e), 0)
  <2>1. c \in Seq(Chunks) /\ Quiet(c)
    <3>1. PICK r \in Chunks : r = [ev |-> "call", of |-> e.exec, block |-> "none"]
      <4>1. [ev |-> "call", of |-> e.exec, block |-> "none"] \in Chunks
        BY <1>0 DEF Chunks, ChunkEvents, BlockTypes
      <4> QED  BY <4>1, Zenon
    <3>2. r.ev = "call"
      BY <3>1
    <3>3. c = [i \in 1 .. e.calls |-> r]
      BY <3>1
    <3> HIDE DEF c
    <3>4. c \in Seq(Chunks) /\ \A i \in 1 .. Len(c) : c[i] = r
      BY <1>0, <3>3
    <3> QED  BY <3>2, <3>4 DEF Quiet
  <2>2. f \in Seq(Chunks) /\ Quiet(f)
    <3>1. Finish(e) \in ChunkEvents /\ Finish(e) # "text"
      BY DEF Finish, ChunkEvents
    <3> HIDE DEF Finish
    <3> QED  BY <3>1, QuietChunk, Zenon
  <2>3. out' = out \o ((c \o f) \o done) \/ out' = out \o (stop \o done)
    BY <1>2, <1>4, <1>7 DEF ChatStream, LegacyStream, Write
  <2> HIDE DEF c, f
  <2>4. PICK u \in Seq(Chunks) : u = c \o f /\ Quiet(u)
    <3>1. PICK u : u = c \o f
      OBVIOUS
    <3>2. u \in Seq(Chunks) /\ Quiet(u)
      BY <2>1, <2>2, <3>1, QuietCat, Zenon
    <3> QED  BY <3>1, <3>2, Zenon
  <2>5. PICK v : v = u \o done
    OBVIOUS
  <2>6. PICK w : w = stop \o done
    OBVIOUS
  <2>7. v \in Seq(Chunks) /\ Quiet(v)
    BY <1>2, <2>4, <2>5, QuietCat, Zenon
  <2>8. w \in Seq(Chunks) /\ Quiet(w)
    BY <1>2, <1>4, <2>6, QuietCat, Zenon
  <2>9. out' = out \o v \/ out' = out \o w
    BY <2>3, <2>4, <2>5, <2>6
  <2>10. Speaks(e, v) /\ Speaks(e, w)
    BY <1>7, <2>7, <2>8 DEF Speaks
  <2> QED  BY <2>9, <2>10, Zenon
<1>8. CASE e.type = "error"
  <2>1. PICK w : w = err \o done
    OBVIOUS
  <2>2. w \in Seq(Chunks) /\ Quiet(w)
    BY <1>2, <1>3, <2>1, QuietCat, Zenon
  <2>3. out' = out \o w \/ out' = out \o done
    BY <1>2, <1>3, <1>8, <2>1 DEF ChatStream, LegacyStream, Write
  <2>4. Speaks(e, w) /\ Speaks(e, done)
    BY <1>2, <1>8, <2>2 DEF Speaks
  <2> QED  BY <2>3, <2>4, Zenon
<1> QED
  BY <1>5, <1>6, <1>7, <1>8 DEF ChatStream, LegacyStream

\* What the text chunks of a stream tell.
OfsOf(s) == [i \in 1 .. Len(s) |-> s[i].of]
TextsIn(s) == {i \in 1 .. Len(s) : s[i].ev = "text"}
LEMMA OfsAppended ==
  ASSUME NEW s \in Seq(Chunks), NEW c \in Chunks, NEW t \in Seq(Execs), NEW x \in Execs, OfsOf(s) = t, c.of = x
  PROVE  OfsOf(Append(s, c)) = Append(t, x)
<1>1. /\ Append(s, c) \in Seq(Chunks) /\ Len(Append(s, c)) = Len(s) + 1 /\ Append(s, c)[Len(s) + 1] = c
      /\ Len(s) \in Nat /\ \A i \in 1 .. Len(s) : Append(s, c)[i] = s[i]
  BY AppendProperties
<1>2. Len(t) = Len(s) /\ \A i \in 1 .. Len(s) : t[i] = s[i].of
  <2>1. Len(OfsOf(s)) = Len(s) /\ \A i \in 1 .. Len(s) : OfsOf(s)[i] = s[i].of
    BY <1>1 DEF OfsOf
  <2> QED  BY <2>1
<1>3. /\ Append(t, x) \in Seq(Execs) /\ Len(Append(t, x)) = Len(s) + 1 /\ Append(t, x)[Len(s) + 1] = x
      /\ \A i \in 1 .. Len(s) : Append(t, x)[i] = t[i]
  BY <1>2, AppendProperties
<1>4. \A i \in 1 .. Len(s) + 1 : Append(s, c)[i].of = Append(t, x)[i]
  <2> SUFFICES ASSUME NEW i \in 1 .. Len(s) + 1 PROVE Append(s, c)[i].of = Append(t, x)[i]
    OBVIOUS
  <2>1. CASE i \in 1 .. Len(s)
    BY <1>1, <1>2, <1>3, <2>1
  <2>2. CASE i = Len(s) + 1
    BY <1>1, <1>3, <2>2
  <2>3. Len(s) \in Nat
    BY <1>1
  <2>4. i \in 1 .. Len(s) \/ i = Len(s) + 1
    BY <2>3
  <2> QED  BY <2>1, <2>2, <2>4, Zenon
<1>5. Append(t, x) = [i \in 1 .. Len(s) + 1 |-> Append(t, x)[i]]
  <2>1. PICK u \in Seq(Execs) : u = Append(t, x)
    BY <1>3
  <2>2. u = [i \in 1 .. Len(u) |-> u[i]]
    OBVIOUS
  <2>3. Len(u) = Len(s) + 1
    BY <1>3, <2>1
  <2> QED  BY <2>1, <2>2, <2>3
<1>6. OfsOf(Append(s, c)) = [i \in 1 .. Len(s) + 1 |-> Append(s, c)[i].of]
  BY <1>1 DEF OfsOf
<1> QED
  BY <1>4, <1>5, <1>6

LEMMA StreamSpeaks ==
  ASSUME out \in Seq(Chunks), NEW e \in Events, NEW w, Speaks(e, w), out' = out \o w, Streamed = Texts,
         Texts \in Seq(Execs)
  PROVE  out' \in Seq(Chunks) /\ Streamed' = IF e.type = "token" THEN Append(Texts, e.exec) ELSE Texts
<1>1. Streamed = OfsOf(At(out, TextsIn(out))) /\ Streamed' = OfsOf(At(out', TextsIn(out')))
  BY DEF Streamed, TextPlaces, OfsOf, TextsIn
<1>2. At(out, TextsIn(out)) \in Seq(Chunks)
  BY AtType
<1>3. CASE e.type = "token"
  <2>1. e.exec \in Nat /\ e.exec \in Execs /\ "text" \in ChunkEvents
    BY DEF Events, Execs, ChunkEvents
  <2>2. PICK c \in Chunks : c = [ev |-> "text", of |-> e.exec, block |-> "none"]
    <3>1. [ev |-> "text", of |-> e.exec, block |-> "none"] \in Chunks
      BY <2>1 DEF Chunks, BlockTypes
    <3> QED  BY <3>1, Zenon
  <2>3. out' = out \o <<c>>
    BY <1>3, <2>2 DEF Speaks, Chunk
  <2>4. PICK t : t = Append(out, c)
    OBVIOUS
  <2>5. out' = t /\ t \in Seq(Chunks) /\ Len(t) = Len(out) + 1 /\ t[Len(out) + 1] = c /\ Len(out) \in Nat
        /\ \A i \in 1 .. Len(out) : t[i] = out[i]
    BY <2>3, <2>4, AppendIsConcat, AppendProperties
  <2>6. At(t, TextsIn(t)) = Append(At(out, TextsIn(out)), c)
    <3>1. Len(out) + 1 \in TextsIn(t) /\ \A i \in 1 .. Len(out) : i \in TextsIn(t) <=> i \in TextsIn(out)
      BY <2>2, <2>5 DEF TextsIn
    <3>2. At(t, TextsIn(t)) = IF Len(out) + 1 \in TextsIn(t) THEN Append(At(out, TextsIn(t)), c) ELSE At(out, TextsIn(t))
      <4>1. PICK P : P = TextsIn(t)
        OBVIOUS
      <4>2. At(Append(out, c), P) = IF Len(out) + 1 \in P THEN Append(At(out, P), c) ELSE At(out, P)
        BY AtAppend
      <4> QED  BY <2>4, <4>1, <4>2
    <3>3. At(out, TextsIn(t)) = At(out, TextsIn(out))
      BY <3>1, AtAlike, Zenon
    <3> QED  BY <3>1, <3>2, <3>3
  <2>7. PICK s \in Seq(Chunks) : s = At(out, TextsIn(out))
    BY <1>2
  <2>8. OfsOf(s) = Texts /\ c.of = e.exec
    BY <1>1, <2>2, <2>7
  <2>9. OfsOf(Append(s, c)) = Append(Texts, e.exec)
    BY <2>1, <2>8, OfsAppended
  <2> QED  BY <1>1, <1>3, <2>5, <2>6, <2>7, <2>9
<1>4. CASE e.type # "token"
  <2>1. w \in Seq(Chunks) /\ Quiet(w)
    BY <1>4 DEF Speaks
  <2>2. PICK t : t = out \o w
    OBVIOUS
  <2>3. /\ out' = t /\ t \in Seq(Chunks) /\ Len(t) = Len(out) + Len(w) /\ Len(out) \in Nat /\ Len(w) \in Nat
        /\ \A i \in 1 .. Len(out) : t[i] = out[i]
        /\ \A i \in 1 .. Len(w) : t[Len(out) + i] = w[i]
    BY <2>1, <2>2, ConcatProperties
  <2>4. At(t, TextsIn(t)) = At(out, TextsIn(t)) \o At(w, {})
    <3>1. \A i \in 1 .. Len(w) : i \in {} <=> Len(out) + i \in TextsIn(t)
      BY <2>1, <2>3 DEF TextsIn, Quiet
    <3>2. PICK P, Q : P = TextsIn(t) /\ Q = {}
      OBVIOUS
    <3>3. Shifted(out, w, P, Q)
      BY <3>1, <3>2 DEF Shifted
    <3>4. PICK y : y = At(out \o w, P)
      OBVIOUS
    <3>5. y = At(out, P) \o At(w, Q)
      BY <2>1, <3>3, <3>4, AtCat
    <3> QED  BY <2>2, <3>2, <3>4, <3>5
  <2>5. At(w, {}) = <<>>
    BY <2>1, AtNone
  <2>6. At(out, TextsIn(t)) = At(out, TextsIn(out))
    <3>1. \A i \in 1 .. Len(out) : i \in TextsIn(t) <=> i \in TextsIn(out)
      BY <2>3 DEF TextsIn
    <3> QED  BY <3>1, AtAlike, Zenon
  <2>7. At(out, TextsIn(out)) \o <<>> = At(out, TextsIn(out))
    BY <1>2, CatEmpty
  <2> QED  BY <1>1, <1>4, <2>3, <2>4, <2>5, <2>6, <2>7
<1> QED
  BY <1>3, <1>4

\* What a blocking handler answers with.
LEMMA BlockWrites ==
  ASSUME AnsTypeOK, NEW e \in Events, ChatBlock(e) \/ AnthropicBlock(e) \/ TextBlock(e)
  PROVE  out' \in Seq(Chunks)
<1>1. PICK calls \in Seq(Chunks) : calls = Chunk("calls", 0)
  <2>1. "calls" \in ChunkEvents
    BY DEF ChunkEvents
  <2> QED  BY <2>1, ChunkType, Zenon
<1>2. PICK text \in Seq(Chunks) : text = Chunk("text", 0)
  <2>1. "text" \in ChunkEvents
    BY DEF ChunkEvents
  <2> QED  BY <2>1, ChunkType, Zenon
<1>3. PICK thoughts \in Seq(Chunks) : thoughts = Chunk("reasoning", 0)
  <2>1. "reasoning" \in ChunkEvents
    BY DEF ChunkEvents
  <2> QED  BY <2>1, ChunkType, Zenon
<1>4. out \in Seq(Chunks) /\ <<>> \in Seq(Chunks) /\ \A v, w \in Seq(Chunks) : v \o w \in Seq(Chunks)
  BY ConcatProperties DEF AnsTypeOK
<1>5. \A present \in BOOLEAN : Part("reasoning", present) \in Seq(Chunks) /\ Part("text", present) \in Seq(Chunks)
                               /\ Part("calls", present) \in Seq(Chunks)
  BY <1>1, <1>2, <1>3, <1>4 DEF Part
<1>6. \/ out' = out
      \/ \E w \in Seq(Chunks) : out' = out \o w
  <2>1. CASE ChatBlock(e)
    <3>1. \/ out' = out
          \/ Write(Chunk("calls", 0))
          \/ Write(Part("reasoning", got'.reasoning # <<>>) \o Chunk("text", 0))
      BY <2>1 DEF ChatBlock
    <3>2. Part("reasoning", got'.reasoning # <<>>) \in Seq(Chunks)
      BY <1>5
    <3>3. Part("reasoning", got'.reasoning # <<>>) \o Chunk("text", 0) \in Seq(Chunks)
      BY <1>2, <1>4, <3>2, Zenon
    <3> HIDE DEF Part
    <3> QED  BY <1>1, <3>1, <3>3, Zenon DEF Write
  <2>2. CASE AnthropicBlock(e)
    <3> DEFINE parts == Part("reasoning", got'.reasoning # <<>>) \o Part("text", got'.text # <<>>)
                          \o Part("calls", e.calls > 0)
    <3>1. parts \in Seq(Chunks)
      <4>1. /\ Part("reasoning", got'.reasoning # <<>>) \in Seq(Chunks) /\ Part("text", got'.text # <<>>) \in Seq(Chunks)
            /\ Part("calls", e.calls > 0) \in Seq(Chunks)
        <5>1. (got'.reasoning # <<>>) \in BOOLEAN /\ (got'.text # <<>>) \in BOOLEAN /\ (e.calls > 0) \in BOOLEAN
          OBVIOUS
        <5> QED  BY <1>5, <5>1, Zenon
      <4> HIDE DEF Part
      <4> QED  BY <1>4, <4>1, Zenon
    <3>2. \/ out' = out
          \/ Write(Chunk("text", 0))
          \/ Write(parts)
      BY <2>2 DEF AnthropicBlock
    <3> HIDE DEF parts
    <3> QED  BY <1>2, <3>1, <3>2, Zenon DEF Write
  <2>3. CASE TextBlock(e)
    BY <1>2, <2>3, Zenon DEF TextBlock, Write
  <2> QED  BY <2>1, <2>2, <2>3
<1> QED
  BY <1>4, <1>6

-----------------------------------------------------------------------------
\* All handlers keep up with the text, and the Anthropic stream is read as it is
\* written: its index and flags are those its reader would have.
TextInv ==
  /\ kind \in {"chat_stream", "legacy_stream"} => Streamed = Texts
  /\ kind = "anthropic_stream" => Sent(out) = Len(Texts)
  /\ kind \in Blocking /\ answer = "open" => got.text = Texts
  /\ kind \in Blocking /\ answer = "done" =>
       LET last == Generated("token", round) IN
       got.text = (IF last = <<>> THEN Texts ELSE last) /\ (round = 1 => got.text = Texts)
OpenBlock == IF block.text THEN "text" ELSE IF block.thinking THEN "thinking" ELSE "none"
NestInv ==
  kind = "anthropic_stream" =>
    /\ block.text => \E i \in 1 .. Len(log) : log[i].type = "token"
    /\ ~ ThinksAgain =>
         LET read == ReadBlocks(out) IN
         /\ read.ok
         /\ answer = "open" => read.next = block.index /\ read.open = OpenBlock
         /\ answer = "done" => read.open = "none"
AnsInv == AnsTypeOK /\ TextInv /\ NestInv

LEMMA AnsInvHolds == AnswersInit => AnsInv
<1> SUFFICES ASSUME AnswersInit PROVE AnsInv
  OBVIOUS
<1>1. log = <<>> /\ log \in Seq(Events) /\ Len(log) = 0 /\ round = 1 /\ round \in Execs /\ answer = "open"
      /\ got = [text |-> <<>>, reasoning |-> <<>>, calls |-> 0] /\ kind \in Streaming \cup Blocking
      /\ block = [index |-> 0, text |-> FALSE, thinking |-> FALSE]
  BY DEF AnswersInit, Execs
<1>2. PICK role \in Chunks, start \in Chunks, ping \in Chunks :
        /\ role = [ev |-> "role", of |-> 0, block |-> "none"]
        /\ start = [ev |-> "message_start", of |-> 0, block |-> "none"]
        /\ ping = [ev |-> "ping", of |-> 0, block |-> "none"]
  <2>1. /\ [ev |-> "role", of |-> 0, block |-> "none"] \in Chunks
        /\ [ev |-> "message_start", of |-> 0, block |-> "none"] \in Chunks
        /\ [ev |-> "ping", of |-> 0, block |-> "none"] \in Chunks
    BY DEF Chunks, ChunkEvents, BlockTypes
  <2> QED  BY <2>1, Zenon
<1>3. PICK e \in Seq(Chunks) : e = <<>>
  <2>1. <<>> \in Seq(Chunks)
    OBVIOUS
  <2> QED  BY <2>1, Zenon
<1>4. out = CASE kind = "chat_stream" -> <<role>> [] kind = "anthropic_stream" -> <<start>> \o <<ping>> [] OTHER -> e
  BY <1>2, <1>3 DEF AnswersInit, Chunk
<1>5. ReadBlocks(e) = Unread /\ Sent(e) = 0
  <2>1. Reading(e)[0] = Unread /\ Len(e) = 0
    BY <1>3, ReadingStep
  <2>2. DeltasOf(e) = {}
    BY <1>3 DEF DeltasOf
  <2> QED  BY <2>1, <2>2, FS_EmptySet DEF ReadBlocks, Sent
<1>6. PICK one \in Seq(Chunks) : one = <<start>> /\ ReadBlocks(one) = Unread /\ Sent(one) = 0
  <2>1. PICK t : t = e \o <<start>>
    OBVIOUS
  <2>2. Grows(e, t, start)
    BY <2>1, PushedOne
  <2>3. t = <<start>>
    BY <1>3, <2>1
  <2>4. Step(Unread, start) = Unread /\ ~ TextDelta(start)
    BY <1>2 DEF Step, TextDelta
  <2>5. t \in Seq(Chunks) /\ ReadBlocks(t) = Unread /\ Sent(t) = 0
    BY <1>5, <2>2, <2>4 DEF Grows
  <2> QED  BY <2>3, <2>5, Zenon
<1>7. kind = "anthropic_stream" => out \in Seq(Chunks) /\ ReadBlocks(out) = Unread /\ Sent(out) = 0
  <2> SUFFICES ASSUME kind = "anthropic_stream" PROVE out \in Seq(Chunks) /\ ReadBlocks(out) = Unread /\ Sent(out) = 0
    OBVIOUS
  <2>1. out = one \o <<ping>>
    BY <1>4, <1>6
  <2>2. Grows(one, out, ping)
    BY <2>1, PushedOne
  <2>3. Step(Unread, ping) = Unread /\ ~ TextDelta(ping)
    BY <1>2 DEF Step, TextDelta
  <2> QED  BY <1>6, <2>2, <2>3 DEF Grows
<1>8. out \in Seq(Chunks)
  <2>1. <<role>> \in Seq(Chunks)
    BY <1>2
  <2>2. kind # "anthropic_stream" => out = <<role>> \/ out = e
    BY <1>4
  <2> QED  BY <1>3, <1>7, <2>1, <2>2
<1>9. Texts = <<>>
  <2>1. At(log, EventPlaces("token")) = <<>>
    <3>1. \A i \in 1 .. Len(log) : i \notin EventPlaces("token")
      BY <1>1
    <3> QED  BY <1>1, <3>1, AtNone, Zenon
  <2>2. Texts = ExecsOf(<<>>)
    BY <2>1, Zenon DEF Texts, ExecsAt
  <2> QED  BY <2>2 DEF ExecsOf
<1>10. kind \in {"chat_stream", "legacy_stream"} => Streamed = <<>>
  <2> SUFFICES ASSUME kind \in {"chat_stream", "legacy_stream"} PROVE Streamed = <<>>
    OBVIOUS
  <2>1. out = <<role>> \/ out = e
    BY <1>4
  <2>2. \A i \in 1 .. Len(out) : i \notin TextPlaces
    <3>1. CASE out = <<role>>
      <4>1. Len(out) = 1 /\ out[1] = role
        BY <3>1
      <4>2. \A i \in 1 .. 1 : i = 1
        OBVIOUS
      <4>3. role.ev = "role"
        BY <1>2
      <4> QED  BY <4>1, <4>2, <4>3 DEF TextPlaces
    <3>2. CASE out = e
      BY <1>3, <3>2 DEF TextPlaces
    <3> QED  BY <2>1, <3>1, <3>2
  <2>3. At(out, TextPlaces) = <<>>
    BY <1>8, <2>2, AtNone, Zenon
  <2> QED  BY <2>3 DEF Streamed
<1>11. AnsTypeOK
  <2>1. /\ \A i \in 1 .. Len(log) : log[i].exec <= round
        /\ block \in [index : Nat, text : BOOLEAN, thinking : BOOLEAN]
        /\ got \in [text : Seq(Execs), reasoning : Seq(Execs), calls : 0 .. 1]
    <3>1. <<>> \in Seq(Execs)
      OBVIOUS
    <3> QED  BY <1>1, <3>1
  <2> QED  BY <1>1, <1>8, <2>1 DEF AnsTypeOK
<1>12. TextInv
  <2>1. Len(Texts) = 0 /\ got.text = Texts
    BY <1>1, <1>9
  <2> QED  BY <1>1, <1>7, <1>9, <1>10, <2>1 DEF TextInv
<1>13. NestInv
  BY <1>1, <1>7 DEF NestInv, OpenBlock, Unread
<1> QED
  BY <1>11, <1>12, <1>13 DEF AnsInv

Delivered(e) ==
  /\ e \in Events /\ e.exec = round /\ answer = "open" /\ log' = Append(log, e)
  /\ round' = round /\ kind' = kind

\* Delivery of an event to the handlers of the OpenAI streams.
LEMMA OpenAIDelivered ==
  ASSUME AnsInv, NEW e, Delivered(e), kind \in {"chat_stream", "legacy_stream"},
         \/ ChatStream(e) \/ LegacyStream(e)
         \/ e.type \in SkippedEvents /\ UNCHANGED <<out, answer>>,
         UNCHANGED <<got, block>>
  PROVE  AnsInv'
<1>1. /\ AnsTypeOK /\ Streamed = Texts /\ e \in Events /\ out \in Seq(Chunks) /\ kind' = kind /\ round' = round
      /\ kind \notin Blocking /\ kind # "anthropic_stream"
  BY DEF AnsInv, TextInv, AnsTypeOK, Delivered, Blocking
<1>2. /\ log' \in Seq(Events) /\ \A i \in 1 .. Len(log') : log'[i].exec <= round /\ Texts \in Seq(Execs)
      /\ Texts' = IF e.type = "token" THEN Append(Texts, e.exec) ELSE Texts
  BY LogRead, Zenon DEF Delivered, AnsInv
<1>3. \E w : Speaks(e, w) /\ out' = out \o w
  <2>1. CASE e.type \in SkippedEvents /\ UNCHANGED out
    <3>1. <<>> \in Seq(Chunks) /\ Quiet(<<>>) /\ out \o <<>> = out /\ e.type # "token"
      BY <1>1, <2>1 DEF Quiet, SkippedEvents
    <3>2. Speaks(e, <<>>)
      BY <3>1 DEF Speaks
    <3> QED  BY <2>1, <3>1, <3>2, Zenon
  <2>2. CASE ChatStream(e) \/ LegacyStream(e)
    BY <1>1, <2>2, OpenAIWrites
  <2> QED  BY <2>1, <2>2
<1>4. out' \in Seq(Chunks) /\ Streamed' = IF e.type = "token" THEN Append(Texts, e.exec) ELSE Texts
  <2>1. PICK w : Speaks(e, w) /\ out' = out \o w
    BY <1>3
  <2>2. Texts \in Seq(Execs)
    BY LogRead, Zenon DEF Delivered, AnsInv
  <2> QED  BY <1>1, <2>1, <2>2, StreamSpeaks
<1>5. answer' \in {"open", "done", "error"}
  <2>1. answer = "open"
    BY DEF Delivered
  <2> QED  BY <2>1 DEF ChatStream, LegacyStream, EndWith
<1>6. \A i \in 1 .. Len(log') : log'[i].exec <= round
  BY LogRead, Zenon DEF Delivered, AnsInv
<1>7. AnsTypeOK'
  BY <1>1, <1>2, <1>4, <1>5, <1>6 DEF AnsTypeOK
<1>8. TextInv'
  BY <1>1, <1>2, <1>4 DEF TextInv
<1>9. NestInv'
  BY <1>1 DEF NestInv
<1> QED
  BY <1>7, <1>8, <1>9 DEF AnsInv

\* Delivery to the handlers that wait for the end.
LEMMA BlockDelivered ==
  ASSUME AnsInv, NEW e, Delivered(e), kind \in Blocking,
         \/ ChatBlock(e) \/ AnthropicBlock(e) \/ TextBlock(e)
         \/ e.type \in SkippedEvents /\ UNCHANGED <<out, got, answer>>,
         UNCHANGED block
  PROVE  AnsInv'
<1>1. /\ AnsTypeOK /\ got.text = Texts /\ e \in Events /\ out \in Seq(Chunks) /\ kind' = kind /\ round' = round
      /\ round \in Execs /\ kind \notin Streaming /\ answer = "open" /\ e.exec = round
      /\ got \in [text : Seq(Execs), reasoning : Seq(Execs), calls : 0 .. 1]
  BY DEF AnsInv, TextInv, AnsTypeOK, Delivered, Blocking, Streaming
<1>2. log' \in Seq(Events) /\ \A i \in 1 .. Len(log') : log'[i].exec <= round
  BY LogRead, Zenon DEF Delivered, AnsInv
<1>3. Texts \in Seq(Execs) /\ Texts' = IF e.type = "token" THEN Append(Texts, e.exec) ELSE Texts
  BY LogRead, Zenon DEF Delivered, AnsInv
<1>4. \A type, x : type # e.type => Generated(type, x)' = Generated(type, x)
  <2>1. log' = Append(log, e)
    BY DEF Delivered
  <2> QED  BY <1>1, <2>1, LogRead, Zenon
<1>5. out' \in Seq(Chunks)
  <2>1. CASE ChatBlock(e) \/ AnthropicBlock(e) \/ TextBlock(e)
    BY <1>1, <2>1, BlockWrites
  <2>2. CASE UNCHANGED out
    BY <1>1, <2>2
  <2> QED  BY <2>1, <2>2
<1>6. \A type, x : Generated(type, x) \in Seq(Execs)
  <2> SUFFICES ASSUME NEW type, NEW x PROVE Generated(type, x) \in Seq(Execs)
    OBVIOUS
  <2>1. PICK s \in Seq(Events) : s = At(log, {i \in EventPlaces(type) : log[i].exec = x})
    <3>1. log \in Seq(Events)
      BY <1>1 DEF AnsTypeOK
    <3> QED  BY <3>1, AtType, Zenon
  <2>2. ExecsOf(s) \in Seq(Execs)
    BY <1>1, ExecsAppended
  <2> QED  BY <2>1, <2>2 DEF Generated, ExecsAt
\* The events as they come, and the end.
<1>7. CASE e.type # "done"
  <2>1. /\ answer' \in {"open", "error"}
        /\ answer' = "open" => got'.text = IF e.type = "token" THEN Append(got.text, e.exec) ELSE got.text
        /\ got' \in [text : Seq(Execs), reasoning : Seq(Execs), calls : 0 .. 1]
    <3>1. e.exec \in Execs /\ Append(got.text, e.exec) \in Seq(Execs) /\ Append(got.reasoning, e.exec) \in Seq(Execs)
      BY <1>1
    <3>2. \/ e.type = "token" /\ got' = [got EXCEPT !.text = Append(@, e.exec)] /\ answer' = answer
          \/ e.type = "reasoning_token" /\ got' = [got EXCEPT !.reasoning = Append(@, e.exec)] /\ answer' = answer
          \/ e.type \notin {"token"} /\ got' = got /\ answer' \in {answer, "error"}
      BY <1>7 DEF ChatBlock, AnthropicBlock, TextBlock, Accumulate, EndWith, SkippedEvents
    <3> QED  BY <1>1, <3>1, <3>2
  <2>2. AnsTypeOK'
    BY <1>1, <1>2, <1>5, <2>1 DEF AnsTypeOK
  <2>3. TextInv'
    BY <1>1, <1>3, <2>1 DEF TextInv, Streaming
  <2> QED  BY <1>1, <2>2, <2>3 DEF AnsInv, NestInv, Streaming
<1>8. CASE e.type = "done"
  <2> DEFINE last == Generated("token", round)
  <2>1. /\ answer' = "done" /\ got'.text = (IF last = <<>> THEN got.text ELSE last)
        /\ got' = Completed(e) \/ got' = [got EXCEPT !.text = Completed(e).text]
    BY <1>1, <1>8 DEF ChatBlock, AnthropicBlock, TextBlock, Accumulate, EndWith, Completed, Replaced, SkippedEvents
  <2>2. Completed(e) \in [text : Seq(Execs), reasoning : Seq(Execs), calls : 0 .. 1]
    <3>1. /\ Replaced(got.text, Generated("token", e.exec)) \in Seq(Execs)
          /\ Replaced(got.reasoning, Generated("reasoning_token", e.exec)) \in Seq(Execs) /\ e.calls \in 0 .. 1
      BY <1>1, <1>6 DEF Replaced, Events
    <3> QED  BY <3>1 DEF Completed
  <2>3. got' \in [text : Seq(Execs), reasoning : Seq(Execs), calls : 0 .. 1]
    BY <1>1, <2>1, <2>2
  <2>4. AnsTypeOK'
    BY <1>1, <1>2, <1>5, <2>1, <2>3 DEF AnsTypeOK
  <2>5. Generated("token", round)' = last /\ Texts' = Texts
    <3>1. \A x : Generated("token", x)' = Generated("token", x)
      BY <1>4, <1>8
    <3>2. PICK x : x = round
      OBVIOUS
    <3>3. Generated("token", x)' = Generated("token", x)
      BY <3>1
    <3>4. Generated("token", round)' = Generated("token", x)'
      BY <1>1, <3>2 DEF Generated
    <3>5. Texts' = Texts
      BY <1>3, <1>8
    <3> QED  BY <3>2, <3>3, <3>4, <3>5
  <2>6. round = 1 => last = Texts
    <3> SUFFICES ASSUME round = 1 PROVE last = Texts
      OBVIOUS
    <3>1. \A i \in 1 .. Len(log) : log[i].exec = round
      <4>1. \A i \in 1 .. Len(log) : log[i].exec \in Execs /\ log[i].exec <= round
        <5>1. log \in Seq(Events) /\ \A i \in 1 .. Len(log) : log[i].exec <= round
          BY <1>1 DEF AnsTypeOK
        <5>2. \A i \in 1 .. Len(log) : log[i] \in Events
          BY <5>1, ElementOfSeq
        <5> QED  BY <5>1, <5>2 DEF Events
      <4> QED  BY <1>1, <4>1 DEF Execs
    <3>2. {i \in EventPlaces("token") : log[i].exec = round} = EventPlaces("token")
      BY <3>1 DEF EventPlaces
    <3> QED  BY <3>2, Zenon DEF Generated, Texts
  <2> HIDE DEF last
  <2>7. TextInv'
    <3>1. got'.text = (IF last = <<>> THEN Texts ELSE last) /\ (round = 1 => got'.text = Texts)
      BY <1>1, <2>1, <2>6
    <3> QED  BY <1>1, <2>1, <2>5, <3>1 DEF TextInv, Streaming
  <2> QED  BY <1>1, <2>4, <2>7 DEF AnsInv, NestInv, Streaming
<1> QED
  BY <1>7, <1>8

\* Delivery to the Anthropic stream.
LEMMA AnthropicDelivered ==
  ASSUME AnsInv, NEW e, Delivered(e), kind = "anthropic_stream",
         \/ AnthropicStream(e)
         \/ e.type \in SkippedEvents /\ UNCHANGED <<out, block, answer>>,
         UNCHANGED got
  PROVE  AnsInv'
<1> DEFINE h == block.index
           r == ReadBlocks(out)
           Nests == ~ ThinksAgain => r.ok /\ r.next = h /\ r.open = OpenBlock
           Closing == ThinkingEnds \/ block.text
<1>1. /\ OutTyped /\ AnsTypeOK /\ Sent(out) = Len(Texts) /\ e \in Events /\ kind' = kind /\ round' = round
      /\ answer = "open" /\ kind \notin Blocking /\ kind \notin {"chat_stream", "legacy_stream"}
      /\ h \in Nat /\ block.text \in BOOLEAN /\ block.thinking \in BOOLEAN /\ Nests
      /\ block.text => \E i \in 1 .. Len(log) : log[i].type = "token"
  BY DEF AnsInv, TextInv, NestInv, AnsTypeOK, OutTyped, Delivered, Blocking
<1>2. log' \in Seq(Events) /\ \A i \in 1 .. Len(log') : log'[i].exec <= round
  BY LogRead, Zenon DEF Delivered, AnsInv
<1>3. Texts \in Seq(Execs) /\ Texts' = IF e.type = "token" THEN Append(Texts, e.exec) ELSE Texts
  BY LogRead, Zenon DEF Delivered, AnsInv
<1>4. Len(Texts) \in Nat /\ Len(Texts') = Len(Texts) + (IF e.type = "token" THEN 1 ELSE 0)
  <2>1. PICK t \in Seq(Execs) : t = Texts
    BY <1>3
  <2>2. e.exec \in Execs
    BY <1>1 DEF Events
  <2>3. Len(Append(t, e.exec)) = Len(t) + 1 /\ Len(t) \in Nat
    BY <2>2, AppendProperties
  <2> QED  BY <1>3, <2>1, <2>3
<1>5. /\ Len(log) \in Nat /\ Len(log') = Len(log) + 1 /\ log'[Len(log) + 1] = e
      /\ \A i \in 1 .. Len(log) : log'[i] = log[i]
  BY <1>1, AppendProperties DEF Delivered, AnsTypeOK
<1>6. ThinksAgain => ThinksAgain'
  BY <1>5 DEF ThinksAgain
<1>7. e.type = "reasoning_token" /\ ~ ThinksAgain' => ~ block.text
  <2> SUFFICES ASSUME e.type = "reasoning_token", block.text PROVE ThinksAgain'
    BY <1>1
  <2>1. PICK i \in 1 .. Len(log) : log[i].type = "token"
    BY <1>1
  <2>2. i \in 1 .. Len(log') /\ Len(log) + 1 \in 1 .. Len(log') /\ i < Len(log) + 1
        /\ log'[i].type = "token" /\ log'[Len(log) + 1].type = "reasoning_token"
    BY <1>5, <2>1
  <2> QED  BY <2>2 DEF ThinksAgain
<1>8. block'.text => block.text \/ e.type = "token"
  <2>1. CASE AnthropicThinking
    BY <1>1, <2>1 DEF AnthropicThinking, OutTyped
  <2>2. CASE AnthropicDone(e)
    BY <1>1, <2>2 DEF AnthropicDone, OutTyped
  <2>3. CASE UNCHANGED block
    BY <2>3
  <2> QED  BY <2>1, <2>2, <2>3 DEF AnthropicStream
<1>9. block'.text => \E i \in 1 .. Len(log') : log'[i].type = "token"
  <2> SUFFICES ASSUME block'.text PROVE \E i \in 1 .. Len(log') : log'[i].type = "token"
    OBVIOUS
  <2>1. CASE block.text
    <3>1. PICK i \in 1 .. Len(log) : log[i].type = "token"
      BY <1>1, <2>1
    <3> QED  BY <1>5, <3>1
  <2>2. CASE e.type = "token"
    BY <1>5, <2>2
  <2> QED  BY <1>8, <2>1, <2>2
\* It is enough to look at the reading and the flags.
<1> DEFINE Next0 == ReadBlocks(out)'
           Good == /\ out' \in Seq(Chunks) /\ block' \in [index : Nat, text : BOOLEAN, thinking : BOOLEAN]
                   /\ Sent(out)' = Sent(out) + (IF e.type = "token" THEN 1 ELSE 0)
                   /\ answer' \in {"open", "done", "error"}
                   /\ ~ ThinksAgain' =>
                        /\ Next0.ok
                        /\ answer' = "open" => Next0.next = block'.index /\ Next0.open = OpenBlock'
                        /\ answer' = "done" => Next0.open = "none"
<1>10. Good => AnsInv'
  <2> SUFFICES ASSUME Good PROVE AnsInv'
    OBVIOUS
  <2>1. AnsTypeOK'
    BY <1>1, <1>2 DEF AnsTypeOK
  <2>2. TextInv'
    BY <1>1, <1>4 DEF TextInv
  <2>3. NestInv'
    BY <1>1, <1>9 DEF NestInv
  <2> QED  BY <2>1, <2>2, <2>3 DEF AnsInv
<1>11. r \in ReadStates
  <2>1. out \in Seq(Chunks)
    BY <1>1 DEF OutTyped
  <2>2. PICK c \in Chunks : c = [ev |-> "DONE", of |-> 0, block |-> "none"]
    <3>1. [ev |-> "DONE", of |-> 0, block |-> "none"] \in Chunks
      BY DEF Chunks, ChunkEvents, BlockTypes
    <3> QED  BY <3>1, Zenon
  <2> QED  BY <2>1, ReadAppended
<1>12. CASE e.type \in SkippedEvents /\ UNCHANGED <<out, block, answer>>
  <2>1. Sent(out)' = Sent(out) /\ ReadBlocks(out)' = r /\ OpenBlock' = OpenBlock /\ e.type # "token"
    BY <1>12 DEF OpenBlock, SkippedEvents, Sent, DeltasOf, ReadBlocks
  <2>2. Sent(out) \in Nat
    BY <1>1, <1>4
  <2>3. Good
    BY <1>1, <1>6, <1>12, <2>1, <2>2 DEF OutTyped
  <2> QED  BY <1>10, <2>3
<1>13. CASE e.type = "reasoning_token" /\ AnthropicThinking /\ UNCHANGED answer
  <2> DEFINE d == DeltaOf("thinking", h)
             st == StartOf("thinking", h)
  <2>1. IF block.thinking THEN Grows(out, out', d) ELSE \E m : Grows(out, m, st) /\ Grows(m, out', d)
    BY <1>1, <1>13, ThinkingWrites
  <2>2. ~ TextDelta(d) /\ ~ TextDelta(st)
    BY DEF TextDelta, DeltaOf, StartOf
  <2>3. d.ev = "delta" /\ d.of = h /\ d.block = "thinking" /\ st.ev = "start" /\ st.of = h /\ st.block = "thinking"
    BY DEF DeltaOf, StartOf
  <2> HIDE DEF d, st
  <2>4. /\ out' \in Seq(Chunks) /\ Sent(out)' = Sent(out)
        /\ ~ ThinksAgain' => Next0.ok /\ Next0.next = h /\ Next0.open = "thinking"
    <3>1. CASE block.thinking
      <4>1. /\ out' \in Seq(Chunks) /\ ReadBlocks(out') = Step(r, d)
            /\ Sent(out') = Sent(out) + 0 /\ Sent(out) \in Nat
        BY <2>1, <2>2, <3>1 DEF Grows
      <4>2. ~ ThinksAgain' => r.ok /\ r.next = h /\ r.open = "thinking"
        BY <1>1, <1>6, <1>7, <1>13, <3>1 DEF OpenBlock
      <4>3. ~ ThinksAgain' => Step(r, d).ok /\ Step(r, d).next = h /\ Step(r, d).open = "thinking"
        BY <1>11, <2>3, <4>2 DEF Step, ReadStates
      <4> QED  BY <4>1, <4>3
    <3>2. CASE ~ block.thinking
      <4>1. PICK m : Grows(out, m, st) /\ Grows(m, out', d)
        BY <2>1, <3>2
      <4>2. /\ out' \in Seq(Chunks) /\ ReadBlocks(out') = Step(ReadBlocks(m), d) /\ ReadBlocks(m) = Step(r, st)
            /\ Sent(out') = Sent(m) + 0 /\ Sent(m) = Sent(out) + 0 /\ Sent(out) \in Nat /\ ReadBlocks(m) \in ReadStates
        BY <2>2, <4>1 DEF Grows
      <4>3. ~ ThinksAgain' => r.ok /\ r.next = h /\ r.open = "none"
        BY <1>1, <1>6, <1>7, <1>13, <3>2 DEF OpenBlock
      <4>4. ~ ThinksAgain' => ReadBlocks(m).ok /\ ReadBlocks(m).next = h /\ ReadBlocks(m).open = "thinking"
        BY <1>11, <2>3, <4>2, <4>3 DEF Step, ReadStates
      <4>5. ~ ThinksAgain' => ReadBlocks(out').ok /\ ReadBlocks(out').next = h /\ ReadBlocks(out').open = "thinking"
        BY <2>3, <4>2, <4>4 DEF Step, ReadStates
      <4> QED  BY <4>2, <4>5
    <3> QED  BY <1>1, <3>1, <3>2
  <2>5. block' = [block EXCEPT !.thinking = TRUE]
    BY <1>13 DEF AnthropicThinking
  <2>6. /\ block' \in [index : Nat, text : BOOLEAN, thinking : BOOLEAN] /\ block'.index = h /\ block'.thinking
        /\ block'.text = block.text
    BY <1>1, <2>5 DEF OutTyped
  <2>7. ~ ThinksAgain' => OpenBlock' = "thinking"
    BY <1>7, <1>13, <2>6 DEF OpenBlock
  <2>8. Sent(out) \in Nat
    BY <1>1, <1>4
  <2>9. Good
    BY <1>1, <1>13, <2>4, <2>6, <2>7, <2>8
  <2> QED  BY <1>10, <2>9
<1>14. CASE e.type = "token" /\ AnthropicText /\ UNCHANGED answer
  <2> DEFINE i == IF ThinkingEnds THEN h + 1 ELSE h
             d == DeltaOf("text", i)
             st == StartOf("text", i)
             sp == StopOf(h)
  <2>1. IF ThinkingEnds THEN \E m, n : Grows(out, m, sp) /\ Grows(m, n, st) /\ Grows(n, out', d)
        ELSE IF block.text THEN Grows(out, out', d)
        ELSE \E m : Grows(out, m, st) /\ Grows(m, out', d)
    BY <1>1, <1>14, TextWrites
  <2>2. TextDelta(d) /\ ~ TextDelta(st) /\ ~ TextDelta(sp)
    BY DEF TextDelta, DeltaOf, StartOf, StopOf
  <2>3. /\ d.ev = "delta" /\ d.of = i /\ d.block = "text" /\ st.ev = "start" /\ st.of = i /\ st.block = "text"
        /\ sp.ev = "stop" /\ sp.of = h
    BY DEF DeltaOf, StartOf, StopOf
  <2>4. i \in Nat /\ (ThinkingEnds => i = h + 1) /\ (~ ThinkingEnds => i = h)
    BY <1>1
  <2> HIDE DEF d, st, sp, i
  <2>5. ~ ThinksAgain' => r.ok /\ r.next = h /\ r.open = OpenBlock
    BY <1>1, <1>6
  <2> DEFINE Opened == ~ ThinksAgain' => Next0.ok /\ Next0.next = i /\ Next0.open = "text"
  <2>6. out' \in Seq(Chunks) /\ Sent(out') = Sent(out) + 1 /\ Opened
    <3>1. CASE ThinkingEnds
      <4>1. PICK m, n : Grows(out, m, sp) /\ Grows(m, n, st) /\ Grows(n, out', d)
        BY <2>1, <3>1
      <4>2. /\ out' \in Seq(Chunks) /\ ReadBlocks(out') = Step(ReadBlocks(n), d) /\ ReadBlocks(n) = Step(ReadBlocks(m), st)
            /\ ReadBlocks(m) = Step(r, sp) /\ ReadBlocks(m) \in ReadStates /\ ReadBlocks(n) \in ReadStates
            /\ Sent(out') = Sent(n) + 1 /\ Sent(n) = Sent(m) + 0 /\ Sent(m) = Sent(out) + 0 /\ Sent(out) \in Nat
        BY <2>2, <4>1 DEF Grows
      <4>3. OpenBlock = "thinking"
        BY <3>1 DEF OpenBlock, ThinkingEnds
      <4>4. ~ ThinksAgain' => ReadBlocks(m).ok /\ ReadBlocks(m).next = i /\ ReadBlocks(m).open = "none"
        <5>1. Step(r, sp) = [r EXCEPT !.ok = @ /\ r.open # "none" /\ sp.of = r.next, !.open = "none", !.next = @ + 1]
          BY <2>3 DEF Step
        <5>2. ReadBlocks(m).open = "none" /\ ReadBlocks(m).next = r.next + 1
              /\ (ReadBlocks(m).ok <=> r.ok /\ r.open # "none" /\ sp.of = r.next)
          BY <1>11, <4>2, <5>1 DEF ReadStates
        <5> QED  BY <2>3, <2>4, <2>5, <3>1, <4>3, <5>2
      <4>5. ~ ThinksAgain' => ReadBlocks(n).ok /\ ReadBlocks(n).next = i /\ ReadBlocks(n).open = "text"
        BY <2>3, <4>2, <4>4 DEF Step, ReadStates
      <4>6. Opened
        BY <2>3, <4>2, <4>5 DEF Step, ReadStates
      <4> QED  BY <4>2, <4>6
    <3>2. CASE ~ ThinkingEnds /\ block.text
      <4>1. /\ out' \in Seq(Chunks) /\ ReadBlocks(out') = Step(r, d) /\ Sent(out') = Sent(out) + 1
        BY <2>1, <2>2, <3>2 DEF Grows
      <4>2. OpenBlock = "text"
        BY <3>2 DEF OpenBlock
      <4>3. Opened
        BY <1>11, <2>3, <2>4, <2>5, <3>2, <4>1, <4>2 DEF Step, ReadStates
      <4> QED  BY <4>1, <4>3
    <3>3. CASE ~ ThinkingEnds /\ ~ block.text
      <4>1. PICK m : Grows(out, m, st) /\ Grows(m, out', d)
        BY <2>1, <3>3
      <4>2. /\ out' \in Seq(Chunks) /\ ReadBlocks(out') = Step(ReadBlocks(m), d) /\ ReadBlocks(m) = Step(r, st)
            /\ ReadBlocks(m) \in ReadStates
            /\ Sent(out') = Sent(m) + 1 /\ Sent(m) = Sent(out) + 0 /\ Sent(out) \in Nat
        BY <2>2, <4>1 DEF Grows
      <4>3. OpenBlock = "none"
        BY <3>3 DEF OpenBlock, ThinkingEnds
      <4>4. ~ ThinksAgain' => ReadBlocks(m).ok /\ ReadBlocks(m).next = i /\ ReadBlocks(m).open = "text"
        BY <1>11, <2>3, <2>4, <2>5, <3>3, <4>2, <4>3 DEF Step, ReadStates
      <4>5. Opened
        BY <2>3, <4>2, <4>4 DEF Step, ReadStates
      <4> QED  BY <4>2, <4>5
    <3> QED  BY <1>1, <3>1, <3>2, <3>3
  <2>7. block' = [index |-> i, text |-> TRUE, thinking |-> block.thinking /\ block.text]
    BY <1>14 DEF AnthropicText, i
  <2>8. /\ block' \in [index : Nat, text : BOOLEAN, thinking : BOOLEAN] /\ block'.index = i /\ OpenBlock' = "text"
    BY <2>4, <2>7 DEF OpenBlock
  <2>9. Good
    BY <1>1, <1>14, <2>6, <2>8
  <2> QED  BY <1>10, <2>9
<1>15. CASE e.type = "done" /\ AnthropicDone(e) /\ EndWith("done")
  <2>1. Ends(out, out', Closing, h, e.calls)
    BY <1>1, <1>15, DoneWrites, Zenon
  <2>2. out \in Seq(Chunks) /\ Closing \in BOOLEAN /\ h \in Nat /\ e.calls \in 0 .. 1
    BY <1>1 DEF OutTyped, Events, ThinkingEnds
  <2>3. (OpenBlock = "none" <=> ~ Closing)
    BY <1>1 DEF OpenBlock, ThinkingEnds
  <2> DEFINE closing == Closing
  <2> HIDE DEF closing, h
  <2>4. /\ out' \in Seq(Chunks) /\ Sent(out') = Sent(out)
        /\ r.ok /\ r.next = h /\ (r.open = "none" <=> ~ closing) => ReadBlocks(out').ok /\ ReadBlocks(out').open = "none"
    <3>1. Ends(out, out', closing, h, e.calls) /\ closing \in BOOLEAN
      BY <2>1, <2>2 DEF closing
    <3>2. PICK t \in {out'}, k \in 0 .. 1 : t = out' /\ k = e.calls
      BY <2>2
    <3>3. Ends(out, t, closing, h, k)
      BY <3>1, <3>2
    <3>4. t \in Seq(Chunks) /\ Sent(t) = Sent(out)
      BY <2>2, <3>1, <3>3, EndsClosed, Zenon
    <3>5. ReadyToEnd(r, closing, h) => ReadBlocks(t).ok /\ ReadBlocks(t).open = "none"
      BY <2>2, <3>1, <3>3, EndsClosed, Zenon
    <3> QED  BY <3>2, <3>4, <3>5 DEF ReadyToEnd
  <2>5. ~ ThinksAgain' => r.ok /\ r.next = h /\ (r.open = "none" <=> ~ closing)
    BY <1>1, <1>6, <2>3 DEF closing
  <2>6. /\ answer' = "done" /\ block' \in [index : Nat, text : BOOLEAN, thinking : BOOLEAN]
    <3>1. block' = [block EXCEPT !.index = (IF Closing THEN block.index + 1 ELSE block.index) + e.calls]
      BY <1>15 DEF AnthropicDone
    <3>2. (IF Closing THEN block.index + 1 ELSE block.index) + e.calls \in Nat
      BY <2>2 DEF h
    <3> QED  BY <1>1, <1>15, <3>1, <3>2 DEF OutTyped, EndWith
  <2>7. Sent(out) \in Nat
    BY <1>1, <1>4
  <2>8. Good
    BY <1>15, <2>4, <2>5, <2>6, <2>7
  <2> QED  BY <1>10, <2>8
<1>16. CASE e.type = "error" /\ Write(Chunk("error", 0)) /\ EndWith("error") /\ UNCHANGED block
  <2>1. PICK c \in Chunks : c = [ev |-> "error", of |-> 0, block |-> "none"]
    <3>1. [ev |-> "error", of |-> 0, block |-> "none"] \in Chunks
      BY DEF Chunks, ChunkEvents, BlockTypes
    <3> QED  BY <3>1, Zenon
  <2>2. out' = out \o <<c>> /\ out \in Seq(Chunks)
    BY <1>1, <1>16, <2>1 DEF Write, Chunk, OutTyped
  <2>3. Grows(out, out', c)
    BY <2>2, PushedOne
  <2>4. Step(r, c) = r /\ ~ TextDelta(c)
    BY <2>1 DEF Step, TextDelta
  <2>5. out' \in Seq(Chunks) /\ ReadBlocks(out') = r /\ Sent(out') = Sent(out) + 0 /\ Sent(out) \in Nat
    BY <2>3, <2>4 DEF Grows
  <2>6. answer' = "error" /\ block' \in [index : Nat, text : BOOLEAN, thinking : BOOLEAN]
    BY <1>1, <1>16 DEF EndWith, OutTyped
  <2>7. Good
    BY <1>1, <1>6, <1>16, <2>5, <2>6
  <2> QED  BY <1>10, <2>7
<1> QED
  BY <1>12, <1>13, <1>14, <1>15, <1>16 DEF AnthropicStream

LEMMA AnsInvKept ==
  ASSUME AnsInv, [AnswersNext]_ansvars
  PROVE  AnsInv'
<1>0. AnsTypeOK /\ round \in Execs /\ kind \in Streaming \cup Blocking
  BY DEF AnsInv, AnsTypeOK
<1>1. ASSUME NEW e \in Events, e.exec = round, Deliver(e) PROVE AnsInv'
  <2>1. Delivered(e)
    BY <1>1 DEF Deliver, Delivered
  <2>2. CASE kind \in {"chat_stream", "legacy_stream"}
    BY <1>1, <2>1, <2>2, OpenAIDelivered DEF AnsInv, Deliver
  <2>3. CASE kind = "anthropic_stream"
    BY <1>1, <2>1, <2>3, AnthropicDelivered DEF AnsInv, Deliver
  <2>4. CASE kind \in Blocking
    BY <1>1, <2>1, <2>4, BlockDelivered DEF AnsInv, Deliver, Blocking, LegacyBlock, McpCall
  <2> QED  BY <1>0, <2>2, <2>3, <2>4 DEF Streaming
<1>2. \A type \in TokenEvents \cup SkippedEvents \cup {"done", "error"}, calls \in 0 .. 1 :
        Event(type, calls) \in Events /\ Event(type, calls).exec = round
  BY <1>0 DEF Event, Events
<1>3. CASE ReadToken
  BY <1>1, <1>2, <1>3 DEF ReadToken
<1>4. CASE ReadSkipped
  BY <1>1, <1>2, <1>4 DEF ReadSkipped
<1>5. CASE ReadDone
  BY <1>1, <1>2, <1>5 DEF ReadDone
<1>6. CASE ReadError
  BY <1>1, <1>2, <1>6 DEF ReadError
\* The log stays, and what was written or accumulated stays.
<1>7. ASSUME UNCHANGED <<log, kind, got, block>>, out' = out \/ kind = "chat_stream",
             out' \in Seq(Chunks), Streamed' = Streamed, round' = round \/ (round' \in Execs /\ round' > round /\ answer' = "open"),
             answer = answer' \/ answer' \in {"gone", "failed", "timeout"}, answer = "open" \/ answer' = answer
      PROVE  AnsInv'
  <2>1. Texts' = Texts /\ ThinksAgain' = ThinksAgain /\ OpenBlock' = OpenBlock
    BY <1>7 DEF Texts, ExecsAt, EventPlaces, ThinksAgain, OpenBlock
  <2>2. out' = out => Sent(out)' = Sent(out) /\ ReadBlocks(out)' = ReadBlocks(out)
    BY DEF Sent, DeltasOf, ReadBlocks
  <2>3. AnsTypeOK'
    <3>1. \A i \in 1 .. Len(log) : log[i].exec <= round'
      <4>1. \A i \in 1 .. Len(log) : log[i].exec \in Execs /\ log[i].exec <= round
        <5>1. log \in Seq(Events) /\ \A i \in 1 .. Len(log) : log[i].exec <= round
          BY <1>0 DEF AnsTypeOK
        <5>2. \A i \in 1 .. Len(log) : log[i] \in Events
          BY <5>1, ElementOfSeq
        <5> QED  BY <5>1, <5>2 DEF Events
      <4> QED  BY <1>0, <1>7, <4>1 DEF Execs
    <3> QED  BY <1>0, <1>7, <3>1 DEF AnsTypeOK
  <2>4. round' = round => Generated("token", round)' = Generated("token", round)
    BY <1>7 DEF Generated, ExecsAt, EventPlaces
  <2>5. TextInv'
    BY <1>7, <2>1, <2>2, <2>4 DEF AnsInv, TextInv
  <2>6. NestInv'
    BY <1>7, <2>1, <2>2 DEF AnsInv, NestInv
  <2> QED  BY <2>3, <2>5, <2>6 DEF AnsInv
<1>8. out \in Seq(Chunks)
  BY <1>0 DEF AnsTypeOK
<1>9. UNCHANGED out => Streamed' = Streamed
  BY DEF Streamed, TextPlaces
<1>10. CASE NextRound \/ ClientGone \/ ReadFails \/ UNCHANGED ansvars
  <2>1. UNCHANGED <<log, kind, got, block, out>>
    BY <1>10 DEF NextRound, ClientGone, ReadFails, ansvars
  <2>2. round' = round \/ (round' \in Execs /\ round' > round /\ answer' = "open")
    BY <1>0, <1>10 DEF NextRound, ClientGone, ReadFails, ansvars, Execs
  <2>3. (answer = answer' \/ answer' \in {"gone", "failed", "timeout"}) /\ (answer = "open" \/ answer' = answer)
    BY <1>10 DEF NextRound, ClientGone, ReadFails, ansvars
  <2> QED  BY <1>7, <1>8, <1>9, <2>1, <2>2, <2>3
<1>11. CASE Deadline
  <2>1. PICK stop \in Seq(Chunks), done \in Seq(Chunks) :
          stop = Chunk("stop", 0) /\ done = Chunk("DONE", 0) /\ Quiet(stop) /\ Quiet(done)
    <3>1. "stop" \in ChunkEvents /\ "DONE" \in ChunkEvents
      BY DEF ChunkEvents
    <3> QED  BY <3>1, QuietChunk, Zenon
  <2>2. PICK w : w = stop \o done
    OBVIOUS
  <2>3. w \in Seq(Chunks) /\ Quiet(w)
    BY <2>1, <2>2, QuietCat, Zenon
  <2>4. CASE kind = "chat_stream"
    <3>1. out' = (out \o stop) \o done
      BY <1>11, <2>1, <2>4 DEF Deadline
    <3>2. out' = out \o w
      <4>5. PICK o \in Seq(Chunks) : o = out
        BY <1>8
      <4>6. PICK os : os = o \o stop
        OBVIOUS
      <4>1. o = out /\ os = o \o stop
        BY <4>5, <4>6
      <4>2. IsCat(out', os, done) /\ IsCat(os, o, stop) /\ IsCat(w, stop, done)
        BY <2>2, <3>1, <4>1 DEF IsCat
      <4>3. IsCat(out', o, w)
        BY <2>1, <4>2, CatGroups
      <4> QED  BY <4>1, <4>3 DEF IsCat
    <3>3. PICK e \in Events : e.type = "error"
      <4>1. [type |-> "error", exec |-> round, calls |-> 0] \in Events
        BY <1>0 DEF Events
      <4> QED  BY <4>1
    <3>4. Speaks(e, w)
      BY <2>3, <3>3 DEF Speaks
    <3>5. Streamed = Texts /\ Texts \in Seq(Execs)
      <4>1. Streamed = Texts
        BY <2>4 DEF AnsInv, TextInv
      <4>2. PICK s \in Seq(Events) : s = At(log, EventPlaces("token"))
        <5>1. log \in Seq(Events)
          BY <1>0 DEF AnsTypeOK
        <5> QED  BY <5>1, AtType, Zenon
      <4>3. ExecsOf(s) \in Seq(Execs)
        BY <3>3, ExecsAppended
      <4> QED  BY <4>1, <4>2, <4>3 DEF Texts, ExecsAt
    <3>6. out' \in Seq(Chunks) /\ Streamed' = Texts
      BY <1>8, <3>2, <3>3, <3>4, <3>5, StreamSpeaks
    <3> QED  BY <1>7, <1>11, <2>4, <3>5, <3>6 DEF Deadline
  <2>5. CASE kind # "chat_stream"
    <3>1. out' = out
      BY <1>11, <2>5 DEF Deadline
    <3> QED  BY <1>7, <1>8, <1>9, <1>11, <3>1 DEF Deadline
  <2> QED  BY <2>4, <2>5
<1> QED
  BY <1>3, <1>4, <1>5, <1>6, <1>10, <1>11 DEF AnswersNext

\* Every handler tells its client the text of the job: a stream all of it, in
\* order and once, a blocking handler the last execution's.
THEOREM ClientsGetTheText == AnswersSpec => []SameText
<1>1. AnsInv => SameText
  <2>1. TextDeltas = DeltasOf(out)
    BY DEF TextDeltas, DeltasOf
  <2> QED  BY <2>1 DEF AnsInv, TextInv, SameText, Sent
<1> QED
  BY <1>1, AnsInvHolds, AnsInvKept, PTL DEF AnswersSpec

\* The content blocks of an Anthropic stream follow one another and are closed,
\* as long as no reasoning comes after text.
THEOREM BlocksFollow == AnswersSpec => []BlocksNest
<1>1. AnsInv => BlocksNest
  BY DEF AnsInv, NestInv, BlocksNest
<1> QED
  BY <1>1, AnsInvHolds, AnsInvKept, PTL DEF AnswersSpec


-----------------------------------------------------------------------------
(* The parts beside each other.                                              *)

LEMMA McpTyped ==
  McpTypeOK /\ [McpNext]_mcpvars => McpTypeOK'
<1> SUFFICES ASSUME McpTypeOK, [McpNext]_mcpvars PROVE McpTypeOK'
  OBVIOUS
<1> USE DEF Goes, conn, call
<1>1. /\ session \in {"none", "open", "closed"} /\ toolsUp \in BOOLEAN
      /\ events \in Seq(Requests) /\ Len(events) <= ChanCap /\ delivered \in Seq(Requests)
      /\ dropped \subseteq Requests /\ conts \subseteq Requests /\ refs \subseteq Requests
      /\ asks \in [Requests -> Asks \cup {"nothing"}]
      /\ step \in [Requests -> {"new", "dispatch", "registered", "waiting", "generating", "reply", "over", "refused"}]
      /\ result \in [Requests -> BOOLEAN] /\ ctxDone \in [Requests -> BOOLEAN]
      /\ resultCh \in [Requests -> {"empty", "result", "cancelled"}]
      /\ job \in [Requests -> {"none", "sent", "lost", "answered"}]
  BY DEF McpTypeOK
<1>2. ChanCap \in Nat
  BY McpAssumption
<1>3. ASSUME NEW r \in Requests, SendSSEResponse(r)
      PROVE  /\ events' \in Seq(Requests) /\ Len(events') <= ChanCap /\ delivered' \in Seq(Requests)
             /\ dropped' \subseteq Requests /\ session' \in {"none", "open", "closed"}
  <2>1. Append(events, r) \in Seq(Requests) /\ Len(Append(events, r)) = Len(events) + 1 /\ Len(events) \in Nat
    BY <1>1
  <2>2. UNCHANGED <<session, delivered>>
    BY <1>3 DEF SendSSEResponse
  <2>3. CASE Len(events) < ChanCap
    <3>1. events' = Append(events, r) /\ dropped' = dropped
      BY <1>3, <2>3 DEF SendSSEResponse
    <3>2. Len(events) + 1 <= ChanCap
      BY <1>2, <2>1, <2>3
    <3> QED  BY <1>1, <2>1, <2>2, <3>1, <3>2
  <2>4. CASE ~(Len(events) < ChanCap)
    <3>1. events' = events /\ dropped' = dropped \cup {r}
      BY <1>3, <2>4 DEF SendSSEResponse
    <3> QED  BY <1>1, <2>2, <3>1
  <2> QED  BY <2>3, <2>4
<1>4. ASSUME NEW r \in Requests, HandleMessage(r) PROVE McpTypeOK'
  <2>1. /\ asks' \in [Requests -> Asks \cup {"nothing"}] /\ UNCHANGED <<call, toolsUp>>
        /\ \E s \in {"refused", "over", "dispatch"} : Goes(r, s)
        /\ UNCHANGED conn \/ SendSSEResponse(r)
    BY <1>1, <1>4 DEF HandleMessage
  <2>2. step' \in [Requests -> {"new", "dispatch", "registered", "waiting", "generating", "reply", "over", "refused"}]
    BY <1>1, <2>1
  <2> QED  BY <1>1, <1>3, <2>1, <2>2 DEF McpTypeOK
<1>5. ASSUME NEW r \in Requests, DispatchRequest(r) PROVE McpTypeOK'
  BY <1>1, <1>5 DEF DispatchRequest, McpTypeOK
<1>6. ASSUME NEW r \in Requests, SendToolJob(r) PROVE McpTypeOK'
  BY <1>1, <1>6 DEF SendToolJob, McpTypeOK
<1>7. ASSUME NEW r \in Requests, ToolResult(r) PROVE McpTypeOK'
  BY <1>1, <1>7 DEF ToolResult, McpTypeOK
<1>8. ASSUME NEW r \in Requests, PollResult(r) \/ CallTimesOut(r) PROVE McpTypeOK'
  BY <1>1, <1>8 DEF PollResult, CallTimesOut, McpTypeOK
<1>9. ASSUME NEW r \in Requests, CallReturns(r) \/ GenerateEnds(r) PROVE McpTypeOK'
  BY <1>1, <1>9 DEF CallReturns, GenerateEnds, McpTypeOK
<1>10. ASSUME NEW r \in Requests, Reply(r) PROVE McpTypeOK'
  <2>1. SendSSEResponse(r) /\ UNCHANGED <<asks, call, toolsUp>> /\ step' = [step EXCEPT ![r] = "over"]
    BY <1>10 DEF Reply
  <2> QED  BY <1>1, <1>3, <2>1 DEF McpTypeOK
<1>11. CASE SSEWrites
  <2>1. Tail(events) \in Seq(Requests) /\ Len(Tail(events)) <= ChanCap /\ Append(delivered, Head(events)) \in Seq(Requests)
    BY <1>1, <1>2, <1>11 DEF SSEWrites
  <2> QED  BY <1>1, <1>11, <2>1 DEF SSEWrites, McpTypeOK
<1>12. CASE HandleSSE \/ ClientLeaves
  BY <1>1, <1>12 DEF HandleSSE, ClientLeaves, McpTypeOK
<1>13. CASE ToolsWorkerGoes
  BY <1>1, <1>13 DEF ToolsWorkerGoes, McpTypeOK
<1>14. CASE UNCHANGED mcpvars
  BY <1>1, <1>14 DEF mcpvars, McpTypeOK
<1> QED
  BY <1>4, <1>5, <1>6, <1>7, <1>8, <1>9, <1>10, <1>11, <1>12, <1>13, <1>14 DEF McpNext

AdmTypes == AdmTypeOK /\ IsFiniteSet(verdicts) /\ (stage = "hashing" => ask.key # "none")
LEMMA AdmTyped ==
  AdmTypes /\ [AdmissionNext]_admvars => AdmTypes'
<1> SUFFICES ASSUME AdmTypes, [AdmissionNext]_admvars PROVE AdmTypes'
  OBVIOUS
<1>1. /\ toolsKey \in BOOLEAN /\ Cardinality(verdicts) <= CacheBound /\ IsFiniteSet(verdicts)
      /\ verdicts \subseteq [key : Keys, hash : Roles, valid : BOOLEAN]
      /\ opener \in [SessionIds -> Keys \cup {"none"}] /\ streams \subseteq SessionIds
      /\ ask \in [to : Endpoints, v1s : 0 .. 2, key : Keys \cup {"none"}, session : SessionIds \cup {"none"}]
      /\ stage \in {"idle", "routed", "hashing", "answered"}
      /\ reply \in {"nothing", "served", "unauthorized", "not_found", "not_implemented", "refused"}
      /\ stage = "hashing" => ask.key # "none"
  BY DEF AdmTypes, AdmTypeOK
<1>2. \A valid \in BOOLEAN : Answer(valid) =>
        /\ stage' = "answered" /\ reply' \in {"served", "unauthorized"}
        /\ opener' \in [SessionIds -> Keys \cup {"none"}] /\ streams' \subseteq SessionIds
  BY <1>1 DEF Answer, OpenSession, sessions
<1>3. CASE Arrive
  <2>1. PICK to \in Endpoints, n \in 0 .. 2, key \in Keys \cup {"none"}, s \in SessionIds \cup {"none"} :
          /\ ask' = [to |-> to, v1s |-> n, key |-> key, session |-> s]
          /\ LET r == Routed(to, AfterV1(to, n)) IN
             IF r # "handler" THEN stage' = "answered" /\ reply' = r
             ELSE IF to = "health" THEN stage' = "answered" /\ reply' = "served"
             ELSE stage' = "routed" /\ reply' = "nothing"
    BY <1>3 DEF Arrive
  <2>2. Routed(to, AfterV1(to, n)) \in {"handler", "not_implemented", "not_found", "refused"}
    BY DEF Routed
  <2>3. UNCHANGED <<toolsKey, verdicts, opener, streams>>
    BY <1>3 DEF Arrive, sessions
  <2> QED  BY <1>1, <2>1, <2>2, <2>3 DEF AdmTypes, AdmTypeOK
<1>4. CASE Leave
  BY <1>1, <1>4 DEF Leave, sessions, Nobody, AdmTypes, AdmTypeOK, Endpoints, Open
<1>5. CASE MissingKey \/ CacheHit
  BY <1>1, <1>2, <1>5 DEF MissingKey, CacheHit, AdmTypes, AdmTypeOK
<1>6. CASE CacheMiss \/ UNCHANGED admvars
  BY <1>1, <1>6 DEF CacheMiss, admvars, sessions, AdmTypes, AdmTypeOK
<1>7. CASE Verify
  <2>1. PICK c : c = [key |-> ask.key, hash |-> Hash(ask.to), valid |-> Matches(ask.key, Hash(ask.to))]
    OBVIOUS
  <2>2. /\ verdicts' = verdicts \cup {c} /\ Cardinality(verdicts) < CacheBound /\ UNCHANGED <<toolsKey, ask>>
        /\ stage' = "answered" /\ reply' \in {"served", "unauthorized"}
        /\ opener' \in [SessionIds -> Keys \cup {"none"}] /\ streams' \subseteq SessionIds
    BY <1>2, <1>7, <2>1 DEF Verify, Matches
  <2>3. IsFiniteSet(verdicts') /\ Cardinality(verdicts') <= CacheBound
    <3>1. /\ IsFiniteSet(verdicts \cup {c})
          /\ Cardinality(verdicts \cup {c}) = IF c \in verdicts THEN Cardinality(verdicts) ELSE Cardinality(verdicts) + 1
      BY <1>1, FS_AddElement
    <3>2. Cardinality(verdicts) \in Nat /\ CacheBound \in Nat
      BY <1>1, FS_CardinalityType, AdmissionAssumption
    <3> QED  BY <2>2, <3>1, <3>2
  <2>4. c \in [key : Keys, hash : Roles, valid : BOOLEAN]
    <3>1. ask.key \in Keys
      BY <1>1, <1>7 DEF Verify
    <3>2. Hash(ask.to) \in Roles
      BY DEF Hash, Roles
    <3>3. Matches(ask.key, Hash(ask.to)) \in BOOLEAN
      BY DEF Matches
    <3> QED  BY <2>1, <3>1, <3>2, <3>3
  <2> QED  BY <1>1, <2>2, <2>3, <2>4 DEF AdmTypes, AdmTypeOK
<1>8. CASE VerdictExpires
  <2>1. PICK c \in verdicts : verdicts' = verdicts \ {c}
    BY <1>8 DEF VerdictExpires
  <2>2. IsFiniteSet(verdicts') /\ Cardinality(verdicts') <= CacheBound
    <3>1. IsFiniteSet(verdicts \ {c}) /\ Cardinality(verdicts \ {c}) = Cardinality(verdicts) - 1
      BY <1>1, <2>1, FS_RemoveElement
    <3>2. Cardinality(verdicts) \in Nat /\ CacheBound \in Nat
      BY <1>1, FS_CardinalityType, AdmissionAssumption
    <3> QED  BY <1>1, <2>1, <3>1, <3>2
  <2> QED  BY <1>1, <1>8, <2>1, <2>2 DEF VerdictExpires, sessions, AdmTypes, AdmTypeOK
<1>9. CASE MessageToSession \/ SessionEnds
  BY <1>1, <1>9 DEF MessageToSession, SessionEnds, sessions, AdmTypes, AdmTypeOK
<1> QED
  BY <1>3, <1>4, <1>5, <1>6, <1>7, <1>8, <1>9 DEF AdmissionNext

LEMMA StartTyped ==
  StartTypeOK /\ [StartNext]_startvars => StartTypeOK'
<1> SUFFICES ASSUME StartTypeOK, [StartNext]_startvars PROVE StartTypeOK'
  OBVIOUS
<1>1. /\ setups \in 0 .. MaxSetups /\ shown \subseteq KeyRoles /\ applied \in BOOLEAN
      /\ environ \in [KeyRoles -> 0 .. Old] /\ dotenv \in [KeyRoles -> 0 .. Old] /\ printed \in [KeyRoles -> 0 .. Old]
      /\ router \in {"down", "configured", "redis", "serving", "draining"}
  BY DEF StartTypeOK
<1>2. MaxSetups \in Nat /\ Old = MaxSetups + 1 /\ 0 \in 0 .. Old
  BY StartAssumption DEF Old
<1>3. NoHashes \in [KeyRoles -> 0 .. Old]
  BY <1>2 DEF NoHashes, Unset
<1>4. ASSUME CanSetUp, setups' = setups + 1
      PROVE  setups' \in 0 .. MaxSetups /\ \A roles : Hashes(roles) \in [KeyRoles -> 0 .. Old]
  <2>1. setups + 1 \in 0 .. MaxSetups /\ setups + 1 \in 0 .. Old
    BY <1>1, <1>2, <1>4 DEF CanSetUp
  <2> QED  BY <1>2, <1>4, <2>1 DEF Hashes, Unset
<1>5. CASE SetupWriteEnv
  <2>1. /\ CanSetUp /\ setups' = setups + 1 /\ shown' \subseteq KeyRoles /\ dotenv' = Hashes(shown') /\ applied' = TRUE
        /\ printed' = NoHashes /\ UNCHANGED <<environ, router>>
    BY <1>5, ShownRoles DEF SetupWriteEnv
  <2> QED  BY <1>1, <1>3, <1>4, <2>1 DEF StartTypeOK
<1>6. CASE SetupFly
  <2>1. /\ CanSetUp /\ setups' = setups + 1 /\ shown' = KeyRoles /\ environ' = Hashes(KeyRoles) /\ applied' = TRUE
        /\ printed' = NoHashes /\ UNCHANGED <<dotenv, router>>
    BY <1>6 DEF SetupFly
  <2> QED  BY <1>1, <1>3, <1>4, <2>1 DEF StartTypeOK
<1>7. ASSUME NEW roles \in SUBSET KeyRoles, SetupPrint(roles) PROVE StartTypeOK'
  <2>1. /\ CanSetUp /\ setups' = setups + 1 /\ shown' = roles /\ printed' = Hashes(roles) /\ applied' = FALSE
        /\ UNCHANGED <<environ, dotenv, router>>
    BY <1>7 DEF SetupPrint
  <2> QED  BY <1>1, <1>4, <2>1 DEF StartTypeOK
<1>8. CASE Setup \/ SetupCLI \/ NewToolsKey
  <2>1. /\ Shown(Effective.tools) \in SUBSET KeyRoles /\ {"admin", "api"} \in SUBSET KeyRoles
        /\ {"tools"} \in SUBSET KeyRoles
    BY ShownRoles DEF KeyRoles
  <2> QED  BY <1>7, <1>8, <2>1 DEF Setup, SetupCLI, NewToolsKey
<1>9. CASE OperatorCopies
  <2> DEFINE Take(old, roles) == [r \in KeyRoles |-> IF r \in roles /\ printed[r] # Unset THEN printed[r] ELSE old[r]]
  <2>1. \A old \in [KeyRoles -> 0 .. Old] : \A roles : Take(old, roles) \in [KeyRoles -> 0 .. Old]
    BY <1>1
  <2>2. \E one, two : environ' = Take(environ, one) /\ dotenv' = Take(dotenv, two)
    BY <1>9 DEF OperatorCopies
  <2>3. printed' = NoHashes /\ applied' = TRUE /\ UNCHANGED <<setups, shown, router>>
    BY <1>9 DEF OperatorCopies
  <2> HIDE DEF Take
  <2> QED  BY <1>1, <1>3, <2>1, <2>2, <2>3 DEF StartTypeOK
<1>10. ASSUME UNCHANGED keyvars, router' \in {"down", "configured", "redis", "serving", "draining"} PROVE StartTypeOK'
  BY <1>1, <1>10 DEF keyvars, StartTypeOK
<1>11. CASE LoadConfig
  BY <1>10, <1>11 DEF LoadConfig
<1>12. CASE StartRedis \/ NewServer \/ Shutdown \/ Exit
  BY <1>10, <1>12 DEF StartRedis, NewServer, Shutdown, Exit, EntersPhase, Exits
<1>13. CASE HandleHello
  BY <1>1, <1>10, <1>13 DEF HandleHello
<1>14. CASE UNCHANGED startvars
  BY <1>1, <1>10, <1>14 DEF startvars, keyvars
<1> QED
  BY <1>5, <1>6, <1>8, <1>9, <1>11, <1>12, <1>13, <1>14 DEF StartNext

\* A step of the composition is a step of one part that leaves the others as they are.
LEMMA PartsRun ==
  Spec => /\ AnswersSpec /\ StreamSpec /\ McpSpec
          /\ AdmissionSpec /\ ConversionSpec /\ StartSpec
<1>1. Init => AnswersInit /\ StreamInit /\ McpInit /\ AdmissionInit /\ ConversionInit /\ StartInit
  BY DEF Init
<1>2. ASSUME [Next]_routervars
      PROVE  /\ [AnswersNext]_ansvars /\ [StreamNext]_tsvars /\ [McpNext]_mcpvars
             /\ [AdmissionNext]_admvars /\ [ConversionNext]_convvars /\ [StartNext]_startvars
  BY <1>2 DEF Next, routervars
<1> QED
  BY <1>1, <1>2, PTL DEF Spec, AnswersSpec, StreamSpec, McpSpec, AdmissionSpec, ConversionSpec, StartSpec

\* Every part keeps its types, beside the others as alone.
THEOREM RouterPartsTyped == Spec => []RouterPartsTypeOK
<1>1. AnswersSpec => []AnsTypeOK
  <2>1. AnsInv => AnsTypeOK
    BY DEF AnsInv
  <2> QED  BY <2>1, AnsInvHolds, AnsInvKept, PTL DEF AnswersSpec
<1>2. StreamSpec => []TsTypeOK
  <2>1. StreamInit => StreamInv
    BY TokenStreamAssumption DEF StreamInit, StreamInv, TsTypeOK, TTLs, Tries
  <2>2. StreamInv => TsTypeOK
    BY DEF StreamInv
  <2> QED  BY <2>1, <2>2, StreamInvKept, PTL DEF StreamSpec
<1>3. McpSpec => []McpTypeOK
  <2>1. McpInit => McpTypeOK
    <3> SUFFICES ASSUME McpInit PROVE McpTypeOK
      OBVIOUS
    <3>1. <<>> \in Seq(Requests) /\ Len(<<>>) = 0 /\ ChanCap \in Nat
      BY McpAssumption
    <3>2. events = <<>> /\ delivered = <<>>
      BY DEF McpInit
    <3>3. events \in Seq(Requests) /\ Len(events) <= ChanCap /\ delivered \in Seq(Requests)
      BY <3>1, <3>2
    <3> QED  BY <3>3 DEF McpInit, McpTypeOK
  <2> QED  BY <2>1, McpTyped, PTL DEF McpSpec
<1>4. AdmissionSpec => []AdmTypeOK
  <2>1. AdmissionInit => AdmTypes
    BY FS_EmptySet, AdmissionAssumption DEF AdmissionInit, AdmTypes, AdmTypeOK, Nobody, Endpoints, Open
  <2>2. AdmTypes => AdmTypeOK
    BY DEF AdmTypes
  <2> QED  BY <2>1, <2>2, AdmTyped, PTL DEF AdmissionSpec
<1>5. ConversionSpec => []ConvTypeOK
  <2>1. ConvInv => ConvTypeOK
    BY DEF ConvInv
  <2> QED  BY <2>1, ConvInvHolds, PTL
<1>6. StartSpec => []StartTypeOK
  <2>1. StartInit => StartTypeOK
    <3> SUFFICES ASSUME StartInit PROVE StartTypeOK
      OBVIOUS
    <3>1. MaxSetups \in Nat /\ Old \in 0 .. Old /\ 0 \in 0 .. Old /\ 0 \in 0 .. MaxSetups
      BY StartAssumption DEF Old
    <3>2. NoHashes \in [KeyRoles -> 0 .. Old] /\ [r \in KeyRoles |-> Old] \in [KeyRoles -> 0 .. Old]
      BY <3>1 DEF NoHashes, Unset
    <3>3. [NoHashes EXCEPT !.tools = Old] \in [KeyRoles -> 0 .. Old]
      BY <3>1, <3>2
    <3>4. environ \in [KeyRoles -> 0 .. Old]
      BY <3>2, <3>3 DEF StartInit
    <3> QED  BY <3>1, <3>2, <3>4 DEF StartInit, StartTypeOK
  <2> QED  BY <2>1, StartTyped, PTL DEF StartSpec
<1>7. AnsTypeOK /\ TsTypeOK /\ McpTypeOK /\ AdmTypeOK /\ ConvTypeOK /\ StartTypeOK <=> RouterPartsTypeOK
  BY DEF RouterPartsTypeOK
<1> QED
  BY <1>1, <1>2, <1>3, <1>4, <1>5, <1>6, <1>7, PartsRun, PTL
=============================================================================
