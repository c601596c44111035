------------------------------ MODULE ToolsWorker ------------------------------
(* The tools worker process: its connection and backoff, the policies a server   *)
(* pushes, each applied by a goroutine that introspects MCP servers for as long  *)
(* as it takes, and the tool jobs, each run and answered by another.  The policy *)
(* messages are the worker's side of the protocol alone: the router of this      *)
(* repository sends none, and keeps of a worker's tools what its hello names.    *)
EXTENDS Naturals, Sequences

CONSTANTS
  MaxPolicies,    \* policies received
  MaxToolJobs,    \* tool jobs received
  MaxRetryDelay,  \* cap of the backoff
  MaxSessions     \* connections made

ASSUME ToolsWorkerAssumption == {MaxPolicies, MaxToolJobs, MaxSessions} \subseteq Nat /\ MaxRetryDelay \in Nat \ {0}

VARIABLES
  twLink,      \* "down", "dialled", "spoilt", "hello", "up", "exited"
  twSocket,    \* writes succeed: c.conn is open
  twDelay,     \* wait before the next dial
  twSessions,  \* sessions so far
  twDone,      \* the context is cancelled
  reloads,     \* handleReloadPolicy of each policy received: its stage and what it found
  advertised,  \* Connection.tools: the policy they come from, 0 for the registry's
  carried,     \* the tools that the hello of this connection names
  announced,   \* the tools the worker named last on its connection
  raced,       \* the last reload started while another was under way
  toolJobs     \* tool jobs received: "running", "retry", "told", "lost"

twvars == <<twLink, twSocket, twDelay, twSessions, twDone, reloads, advertised, carried, announced, raced, toolJobs>>

UnderWay == {n \in 1 .. Len(reloads) : reloads[n] # "over"}

ToolsWorkerInit ==
  /\ twLink = "down" /\ twSocket = FALSE /\ twDelay = 0 /\ twSessions = 0 /\ twDone = FALSE
  /\ reloads = <<>> /\ advertised = 0 /\ carried = 0 /\ announced = 0 /\ raced = FALSE /\ toolJobs = <<>>
-----------------------------------------------------------------------------
\* A policy begins to be applied in a goroutine of its own.
BeginReload == reloads' = Append(reloads, "introspecting") /\ raced' = (UnderWay # {}) /\ Len(reloads) < MaxPolicies

\* Run and Connect: dial, hello with the tools of the moment, hello_ack.
\* Only a failed attempt escalates the delay, and a session resets it.
Escalated == IF twDelay = 0 THEN 1 ELSE IF 2 * twDelay > MaxRetryDelay THEN MaxRetryDelay ELSE 2 * twDelay
\* Mutant: the hello names the tools the worker started with.
ToolsDialStale ==
  /\ twLink = "down" /\ ~ twDone /\ twSessions < MaxSessions
  /\ \/ twLink' = "dialled" /\ twSocket' = TRUE /\ carried' = 0 /\ twSessions' = twSessions + 1 /\ UNCHANGED twDelay
     \/ twDelay' = Escalated /\ UNCHANGED <<twLink, twSocket, carried, twSessions>>
  /\ UNCHANGED <<twDone, reloads, advertised, announced, raced, toolJobs>>
\* The connection is published with the tools of the moment, before the hello.
ToolsDial ==
  /\ twLink = "down" /\ ~ twDone /\ twSessions < MaxSessions
  /\ \/ twLink' = "dialled" /\ twSocket' = TRUE /\ carried' = advertised /\ twSessions' = twSessions + 1 /\ UNCHANGED twDelay
     \/ twDelay' = Escalated /\ UNCHANGED <<twLink, twSocket, carried, twSessions>>
  /\ UNCHANGED <<twDone, reloads, advertised, announced, raced, toolJobs>>
ToolsHello ==
  /\ twLink = "dialled" /\ twLink' = "hello" /\ announced' = carried
  /\ UNCHANGED <<twSocket, twDelay, twSessions, twDone, reloads, advertised, carried, raced, toolJobs>>
\* Connect returns with an error, to be tried again unless the worker stops.
ToolsConnectFails == twLink' = (IF twDone THEN "exited" ELSE "down") /\ twSocket' = FALSE /\ twDelay' = Escalated
\* A goroutine wrote to the connection before the hello: the server, whose first
\* message must be one, closes it.
ToolsTurnedAway ==
  /\ twLink = "spoilt" /\ ToolsConnectFails
  /\ UNCHANGED <<twSessions, twDone, reloads, advertised, carried, announced, raced, toolJobs>>
ToolsHelloAck ==
  /\ twLink = "hello"
  /\ \/ /\ twLink' = "up" /\ twDelay' = 0 /\ UNCHANGED twSocket
        /\ BeginReload \/ UNCHANGED <<reloads, raced>>
     \/ ToolsConnectFails /\ UNCHANGED <<reloads, raced>>
  /\ UNCHANGED <<twSessions, twDone, advertised, carried, announced, toolJobs>>
\* The socket fails under the read loop, which ends a moment later.
SocketFails ==
  /\ twLink = "up" /\ twSocket /\ twSocket' = FALSE
  /\ UNCHANGED <<twLink, twDelay, twSessions, twDone, reloads, advertised, carried, announced, raced, toolJobs>>
LoopEnds ==
  /\ twLink = "up" /\ ~ twSocket
  /\ \/ twDone /\ twLink' = "exited" /\ UNCHANGED twDelay
     \/ ~ twDone /\ twLink' = "down" /\ twDelay' \in {twDelay, Escalated}
  /\ UNCHANGED <<twSocket, twSessions, twDone, reloads, advertised, carried, announced, raced, toolJobs>>
\* The context ends: an attempt to connect goes on, a connection is closed.
Shutdown ==
  /\ ~ twDone /\ twDone' = TRUE /\ twSocket' = (twSocket /\ twLink # "up")
  /\ twLink' = IF twLink = "down" THEN "exited" ELSE twLink
  /\ UNCHANGED <<twDelay, twSessions, reloads, advertised, carried, announced, raced, toolJobs>>
-----------------------------------------------------------------------------
Online == twLink = "up" /\ twSocket
\* Something that is not a hello is written to the connection of the moment.
Speaks == twLink' = IF twLink = "dialled" THEN "spoilt" ELSE twLink
\* handleReloadPolicy: introspect every server, then set the advertised tools,
\* then tell the router, which fails if the link is down.
ReloadPolicy ==
  /\ Online /\ BeginReload
  /\ UNCHANGED <<twLink, twSocket, twDelay, twSessions, twDone, advertised, carried, announced, toolJobs>>
UpdateAdvertisedTools(n) ==
  /\ reloads[n] = "introspecting" /\ twLink # "exited" /\ advertised' = n /\ reloads' = [reloads EXCEPT ![n] = "updated"]
  /\ UNCHANGED <<twLink, twSocket, twDelay, twSessions, twDone, carried, announced, raced, toolJobs>>
SendPolicyReloaded(n) ==
  /\ reloads[n] = "updated" /\ twLink # "exited" /\ reloads' = [reloads EXCEPT ![n] = "over"]
  /\ IF twSocket THEN announced' = n /\ Speaks ELSE UNCHANGED <<announced, twLink>>
  /\ UNCHANGED <<twSocket, twDelay, twSessions, twDone, advertised, carried, raced, toolJobs>>

\* handleToolJob: an MCP server, a package or a built-in tool runs; an error or
\* a panic is a result too.  It is sent twice at most, on the link of the moment.
ReceiveToolJob ==
  /\ Online /\ Len(toolJobs) < MaxToolJobs /\ toolJobs' = Append(toolJobs, "running")
  /\ UNCHANGED <<twLink, twSocket, twDelay, twSessions, twDone, reloads, advertised, carried, announced, raced>>
SendResult(k) ==
  /\ toolJobs[k] \in {"running", "retry"} /\ twLink # "exited"
  /\ toolJobs' = [toolJobs EXCEPT ![k] = IF twSocket THEN "told" ELSE IF @ = "running" THEN "retry" ELSE "lost"]
  /\ IF twSocket THEN Speaks ELSE UNCHANGED twLink
  /\ UNCHANGED <<twSocket, twDelay, twSessions, twDone, reloads, advertised, carried, announced, raced>>
\* handleValidateConfiguration answers with a tool list or an error, and keeps nothing.

ToolsWorkerNext ==
  \/ ToolsDial \/ ToolsHello \/ ToolsTurnedAway \/ ToolsHelloAck \/ SocketFails \/ LoopEnds \/ Shutdown \/ ReloadPolicy \/ ReceiveToolJob
  \/ \E n \in 1 .. Len(reloads) : UpdateAdvertisedTools(n) \/ SendPolicyReloaded(n)
  \/ \E k \in 1 .. Len(toolJobs) : SendResult(k)
ToolsWorkerSpec == ToolsWorkerInit /\ [][ToolsWorkerNext]_twvars
-----------------------------------------------------------------------------
TwTypeOK ==
  /\ twLink \in {"down", "dialled", "spoilt", "hello", "up", "exited"}
  /\ twDelay \in 0 .. MaxRetryDelay /\ twSessions \in 0 .. MaxSessions
  /\ {advertised, carried, announced} \subseteq 0 .. MaxPolicies /\ {raced, twSocket, twDone} \subseteq BOOLEAN
  /\ Len(reloads) <= MaxPolicies /\ Len(toolJobs) <= MaxToolJobs

\* Once no policy is being applied, the worker advertises the tools of the last
\* one, and has named them on the connection it is accepted on, in its hello or
\* after it: wherever the link broke while the policy was applied, unless two
\* policies were applied at the same time.
PolicyTakesHold ==
  UnderWay = {} /\ ~ raced =>
    /\ advertised = Len(reloads)
    /\ Online => announced = advertised
=============================================================================
