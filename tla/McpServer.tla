------------------------------ MODULE McpServer ------------------------------
(* One MCP client of the router: its SSE session, the JSON-RPC requests it     *)
(* posts, the goroutine that answers each, and the synchronous tool call that  *)
(* a request (or POST /api/tools/v1/execute) makes through the continuation    *)
(* tables: a fake continuation with one pending result and a goroutine that    *)
(* polls it.                                                                   *)
EXTENDS Naturals, Sequences, FiniteSets

CONSTANTS Requests, \* the requests the client posts
          ChanCap   \* capacity of the session's event channel (64)

ASSUME McpAssumption == ChanCap \in Nat \ {0}

VARIABLES
  session,   \* "none", "open", "closed"
  events,    \* the session's event channel: requests whose response is in it
  delivered, \* responses written to the SSE stream, in order
  dropped,   \* requests whose response found the channel full
  asks,      \* asks[r]: what the request is
  step,      \* step[r]: where the goroutine of the request is
  conts,     \* pendingConts: the direct calls that are registered
  refs,      \* toolJobRefs of direct calls
  result,    \* result[r]: the result was stored in the continuation
  resultCh,  \* resultCh[r]: what the polling goroutine passed on
  ctxDone,   \* ctxDone[r]: the call's context ended
  job,       \* job[r]: "none", "sent", "lost" (with its worker), "answered"
  toolsUp    \* a tools worker that has the tool is connected

conn == <<session, events, delivered, dropped>>
call == <<conts, refs, result, resultCh, ctxDone, job>>
mcpvars == <<conn, asks, step, call, toolsUp>>

\* Requests by what becomes of them: not JSON-RPC 2.0 (answered at once),
\* notifications/initialized (not answered), any other notification (an unknown
\* method to the router), answered without waiting (initialize, ping, tools/list,
\* an unknown method, bad parameters), a tool, or generate_text.
Asks == {"malformed", "initialized", "notice", "quick", "tool", "generate"}

McpTypeOK ==
  /\ session \in {"none", "open", "closed"} /\ toolsUp \in BOOLEAN
  /\ events \in Seq(Requests) /\ Len(events) <= ChanCap /\ delivered \in Seq(Requests)
  /\ dropped \subseteq Requests /\ conts \subseteq Requests /\ refs \subseteq Requests
  /\ asks \in [Requests -> Asks \cup {"nothing"}]
  /\ step \in [Requests -> {"new", "dispatch", "registered", "waiting", "generating", "reply", "over", "refused"}]
  /\ result \in [Requests -> BOOLEAN] /\ ctxDone \in [Requests -> BOOLEAN]
  /\ resultCh \in [Requests -> {"empty", "result", "cancelled"}]
  /\ job \in [Requests -> {"none", "sent", "lost", "answered"}]

McpInit ==
  /\ session = "none" /\ events = <<>> /\ delivered = <<>> /\ dropped = {}
  /\ asks = [r \in Requests |-> "nothing"] /\ step = [r \in Requests |-> "new"]
  /\ conts = {} /\ refs = {} /\ toolsUp \in BOOLEAN
  /\ result = [r \in Requests |-> FALSE] /\ ctxDone = [r \in Requests |-> FALSE]
  /\ resultCh = [r \in Requests |-> "empty"] /\ job = [r \in Requests |-> "none"]

Goes(r, s) == step' = [step EXCEPT ![r] = s]

\* Mutant: the response is queued whatever the channel holds.
SendSSEResponseUnbounded(r) == events' = Append(events, r) /\ UNCHANGED <<session, delivered, dropped>>
\* sendSSEResponse: never blocks; a full channel loses the response.
SendSSEResponse(r) ==
  /\ IF Len(events) < ChanCap
     THEN events' = Append(events, r) /\ UNCHANGED dropped
     ELSE dropped' = dropped \cup {r} /\ UNCHANGED events
  /\ UNCHANGED <<session, delivered>>

HandleSSE == session = "none" /\ session' = "open" /\ UNCHANGED <<events, delivered, dropped, asks, step, call, toolsUp>>
SSEWrites ==
  /\ session = "open" /\ events # <<>>
  /\ delivered' = Append(delivered, Head(events)) /\ events' = Tail(events)
  /\ UNCHANGED <<session, dropped, asks, step, call, toolsUp>>
ClientLeaves ==
  /\ session = "open" /\ session' = "closed"
  /\ UNCHANGED <<events, delivered, dropped, asks, step, call, toolsUp>>

\* Mutant: a message that is not JSON-RPC is dropped without a response.
HandleMessageSilent(r) ==
  /\ step[r] = "new"
  /\ \E a \in Asks : asks' = [asks EXCEPT ![r] = a]
  /\ Goes(r, IF session # "open" THEN "refused" ELSE IF asks'[r] = "malformed" THEN "over" ELSE "dispatch")
  /\ UNCHANGED <<conn, call, toolsUp>>
\* POST /mcp/message: the session is looked up; the request runs on its own.
HandleMessage(r) ==
  /\ step[r] = "new"
  /\ \E a \in Asks : asks' = [asks EXCEPT ![r] = a]
  /\ IF session # "open" THEN Goes(r, "refused") /\ UNCHANGED conn
     ELSE IF asks'[r] = "malformed" THEN Goes(r, "over") /\ SendSSEResponse(r)
     ELSE Goes(r, "dispatch") /\ UNCHANGED conn
  /\ UNCHANGED <<call, toolsUp>>

\* dispatch and handleToolsCall: the continuation and the job reference are
\* entered before the job is sent.
DispatchRequest(r) ==
  /\ step[r] = "dispatch" /\ UNCHANGED <<conn, asks, result, resultCh, ctxDone, job, toolsUp>>
  /\ \/ asks[r] = "initialized" /\ Goes(r, "over") /\ UNCHANGED <<conts, refs>>
     \/ asks[r] \in {"notice", "quick"} /\ Goes(r, "reply") /\ UNCHANGED <<conts, refs>>
     \/ asks[r] = "generate" /\ Goes(r, "generating") /\ UNCHANGED <<conts, refs>>
     \/ asks[r] = "tool" /\ ~toolsUp /\ Goes(r, "reply") /\ UNCHANGED <<conts, refs>>
     \/ /\ asks[r] = "tool" /\ toolsUp /\ Goes(r, "registered")
        /\ conts' = conts \cup {r} /\ refs' = refs \cup {r}
SendToolJob(r) ==
  /\ step[r] = "registered" /\ UNCHANGED <<conn, asks, result, resultCh, ctxDone, toolsUp>>
  /\ \/ /\ Goes(r, "waiting")
        /\ job' = [job EXCEPT ![r] = IF toolsUp THEN "sent" ELSE "lost"] /\ UNCHANGED <<conts, refs>>
     \/ /\ ~toolsUp /\ Goes(r, "reply") /\ UNCHANGED job
        /\ conts' = conts \ {r} /\ refs' = refs \ {r}

\* Mutant: a result leaves the continuation to the poller, which may be gone.
ToolResultKept(r) ==
  /\ toolsUp /\ job[r] = "sent" /\ job' = [job EXCEPT ![r] = "answered"]
  /\ refs' = refs \ {r} /\ result' = [result EXCEPT ![r] = r \in conts]
  /\ UNCHANGED <<conn, asks, step, conts, resultCh, ctxDone, toolsUp>>
\* handleToolResult and recordToolResult, for a result that may be late.
ToolResult(r) ==
  /\ toolsUp /\ job[r] = "sent" /\ job' = [job EXCEPT ![r] = "answered"]
  /\ refs' = refs \ {r} /\ conts' = conts \ {r}
  /\ result' = [result EXCEPT ![r] = r \in conts]
  /\ UNCHANGED <<conn, asks, step, resultCh, ctxDone, toolsUp>>
\* The worker goes; nothing tells the calls it had (failPendingToolJobs only logs).
ToolsWorkerGoes ==
  /\ toolsUp /\ toolsUp' = FALSE
  /\ job' = [r \in Requests |-> IF job[r] = "sent" THEN "lost" ELSE job[r]]
  /\ UNCHANGED <<conn, asks, step, conts, refs, result, resultCh, ctxDone>>

\* The goroutine that polls every 100 ms; it ends with what it passes on.
PollResult(r) ==
  /\ step[r] = "waiting" /\ resultCh[r] = "empty"
  /\ \/ /\ result[r] /\ resultCh' = [resultCh EXCEPT ![r] = "result"] /\ conts' = conts \ {r}
     \/ ctxDone[r] /\ resultCh' = [resultCh EXCEPT ![r] = "cancelled"] /\ UNCHANGED conts
  /\ UNCHANGED <<conn, asks, step, refs, result, ctxDone, job, toolsUp>>
\* JobTimeout, or the caller of the tools API leaves.
CallTimesOut(r) ==
  /\ step[r] = "waiting" /\ ~ctxDone[r] /\ ctxDone' = [ctxDone EXCEPT ![r] = TRUE]
  /\ UNCHANGED <<conn, asks, step, conts, refs, result, resultCh, job, toolsUp>>
CallReturns(r) ==
  /\ step[r] = "waiting" /\ (resultCh[r] # "empty" \/ ctxDone[r])
  /\ Goes(r, "reply") /\ UNCHANGED <<conn, asks, call, toolsUp>>
\* dispatchLLMCall ends by an event of its stream or by the timeout.
GenerateEnds(r) ==
  /\ step[r] = "generating" /\ Goes(r, "reply") /\ UNCHANGED <<conn, asks, call, toolsUp>>
Reply(r) ==
  /\ step[r] = "reply" /\ Goes(r, "over") /\ SendSSEResponse(r) /\ UNCHANGED <<asks, call, toolsUp>>

McpNext ==
  \/ HandleSSE \/ SSEWrites \/ ClientLeaves \/ ToolsWorkerGoes
  \/ \E r \in Requests :
       \/ HandleMessage(r) \/ DispatchRequest(r) \/ SendToolJob(r) \/ ToolResult(r)
       \/ PollResult(r) \/ CallTimesOut(r) \/ CallReturns(r) \/ GenerateEnds(r) \/ Reply(r)
McpSpec == McpInit /\ [][McpNext]_mcpvars
-----------------------------------------------------------------------------
Places(r) == {i \in 1 .. Len(events \o delivered) : (events \o delivered)[i] = r}
Times(r) == Cardinality(Places(r)) + (IF r \in dropped THEN 1 ELSE 0)

\* Every message the session accepted has exactly one response, written, waiting
\* in the channel or lost to a full one: the notifications too, all of which but
\* notifications/initialized are answered as methods the router does not know.
OneResponse ==
  \A r \in Requests :
    /\ Times(r) <= 1
    /\ step[r] = "over" => (Times(r) = 0 <=> asks[r] = "initialized")
    /\ r \in dropped => Len(events \o delivered) >= ChanCap

\* The tables forget a direct call, whichever of result, timeout and failed send
\* came first; only a call whose worker never answered stays in them.
CallForgotten ==
  \A r \in Requests :
    step[r] \in {"reply", "over"} /\ r \in conts \cup refs => job[r] \in {"sent", "lost"}
=============================================================================
