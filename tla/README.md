# A TLA+ model of auxot

auxot lets people serve LLM inference from GPUs they own. A **router** accepts
API requests (OpenAI, Anthropic and MCP dialects) and puts them in a Redis
stream; **GPU workers** dial in over WebSocket and are sent jobs from it;
**tools workers** dial in as well and execute the tool calls the models make.
This directory models the router, the worker programs and what they do to each
other: the parts in which goroutines, processes and Redis commands interleave, and
the protocols and conversions around them.

## Inventory

| Component | State | Operations | Hard part | Correct when |
|---|---|---|---|---|
| GPU job queue and worker connections (`internal/router/wshandler.go`, `dispatch.go`, `pkg/queue/job_queue.go`) | Redis stream, consumer group, pending lists; per connection `activeJobs`, `maxSlots`, two goroutines | enqueue, connect, read pending, read new, dispatch, complete, error, expire, reconfigure, clean up | reader and message loop share `activeJobs`; ACK is two commands; cancellation reaches into every command | no job is lost, run twice at once, or acknowledged in silence; slots are used and given back |
| Dead-worker sweeper (`pkg/queue/sweeper.go`) | none of its own between ticks | find dead, list, claim, delete consumer | four Redis commands with others between them | entries move from dead to live consumers and are never dropped |
| Heartbeat (`pkg/queue/heartbeat.go`) | one key with a TTL per connection | ping, expire, remove | a live worker may lose its key | a connected worker is not taken for dead |
| GPU pool (`pkg/gpu/pool.go`) | workers and their active jobs, for `/health` | add, remove, assign, complete, update | a second copy of `activeJobs` under another lock | agrees with `activeJobs` between steps |
| Tools workers and continuations (`internal/router/toolshandler.go`) | `toolsWorkers`, `pendingConts`, `toolJobRefs`, `jobContexts` | start a continuation, record a result, re-enqueue the round, direct calls, disconnect | tool workers vanish; results race; one job id for all rounds | a round has all its results; every continuation ends |
| Token streams and API handlers (`apihandler.go`, `anthropichandler.go`, `mcphandler.go`) | one Redis stream per job with a TTL; a cursor per handler | publish, read, set TTL, time out | events of two executions in one stream; TTLs overwritten | one terminal event ends the response; block protocol respected |
| Requests (`server.go`, the handlers, `pkg/anthropic`, `pkg/openai`) | none between requests | normalise the path, authenticate, convert messages, enqueue | two dialects with different block structures | every call keeps its result behind it, nothing is lost |
| MCP endpoint and direct tool calls (`mcphandler.go`, `toolsapihandler.go`, `toolshandler.go`) | SSE session with a channel, the continuation tables | accept, dispatch, poll, time out, reply | result, timeout and departure race; most notifications are answered too | one response per message; the tables forget the call |
| API key cache (`pkg/auth/argon2.go`) | key and hash to verdict, with TTL | verify, expire | stale verdicts, three roles, MCP messages that bring no key | a key opens exactly what its role may; an MCP session is opened by the API key |
| Router start (`cmd/auxot-router`, `config.go`, `pkg/registry`) | environment, `.env`, registry | set up keys, load, resolve the model, serve, greet, shut down | two places for the keys; a model named by id, name or quantization | the keys shown work; a policy can be run |
| GPU worker process (`cmd/auxot-worker`, `internal/worker`) | `activeJobs`, connection | fetch the policy, connect, run, cancel, reconnect, stop | a job sent twice, cancellation before the goroutine is entered | a running job can be stopped |
| llama-server and sd-server control (`llamaproc.go`, `sdproc.go`) | process objects, one monitor each, `llama` | start, patch, stop, crash, restart, policy update | callbacks registered after start; stop against monitor against update | one server, or a reason why there is none |
| Executor (`executor.go`, `qwen_tool_xml.go`, `pkg/llamacpp`) | text and tool calls accumulated from a stream | split thinking, hide and extract textual calls, complete | markup split over chunks | what was shown is what is reported; every call once |
| Tools worker process (`internal/tools`) | policy, advertised tools, connection | connect, reload, execute, report | reconnection while a policy is applied | the worker advertises and has announced the tools of the last policy |
| Browser sessions (`pkg/tools/browser`) | session table | get or create, call, evict, sweep | a session is visible before it is connected; lookup, touch and sweep take the lock one by one | what listens can be found and closed; what the table offers is not closed by the worker |
| MCP client (`pkg/tools/mcp.go`, `mcp_http.go`) | installations, one server process per call | install, initialize, call, end | installations shared by callers whose waits end | installed once; a call ends with an error or with a line of its request's id, and leaves no process |
| Agent worker (`internal/agentworker`) | connection, watcher, debounce timer | hello, watch, refresh, push, execute, upload | refreshes overlap | the server's context catches up with the files |
| CLI worker (`internal/cliworker`) | session file, pending built-in calls, MCP calls | build a session, follow events, kill, retry | calls that are both claude's own and the router's | what claude called is reported, once |
| Model and binary downloads (`pkg/modeldown`, `pkg/llamabin`, `pkg/sdbin`) | files and `.download` files | check, resume, copy, rename, unpack | several processes on one cache; a resumed file published anew | only whole files are loaded |
| Web and coding tools, GPU detection, npm packages, probes | | | I/O and formats | not modelled, see below |

The components meet in three places: the Redis consumer group (API handlers
add, readers receive, message loops acknowledge, the sweeper moves), the token
stream of a job (dispatcher, message loop, expiry and continuation publish; one
API handler reads) and, inside the router, the call from `handleComplete` into
the continuation pipeline, which re-enqueues under the same job id.

## Plan

1. `Dispatch` with `JobLease` above it: queue, connections, sweeper, heartbeat,
   pool. *Done; proved in `DispatchProofs` and `LeaseProofs`, the refinement
   included.*
2. `Continuation`: job contexts, pending continuations, tool jobs and rounds.
   *Done; proved in `ContinuationProofs` and `FreshProofs`. Direct tool calls
   (`DispatchDirectToolCall`) are in `McpServer`.*
3. `TokenStream`, `ApiAnswers`, `McpServer`, `Admission`, `RequestConversion`,
   `RouterStart`: the router around the dispatcher, composed in `MCRouterParts`.
   *Done; proofs in `RouterPartsProofs`.*
4. `WorkerProcess`, `LlamaServer`, `Executor`, `ToolsWorker`, `BrowserSessions`,
   `McpClient`, `AgentWorker`, `CliWorker`, `Downloads`: the worker programs,
   composed in `MCWorkerParts`. *Done; proofs in `GpuWorkerProofs` and
   `ToolsWorkerProofs`.*
5. Every safety property of the passing runs is stated by a theorem. What is left is
   liveness, which stays with TLC (see *Only model-checked*).

## Modules

| Module | What it is |
|---|---|
| `Dispatch.tla` | the core model |
| `JobLease.tla` | what the queue promises an API caller, as leases |
| `MCDispatch.tla` | symmetry and fairness for TLC |
| `Continuation.tla` | the continuation pipeline between GPU and tools workers |
| `MCContinuation.tla` | symmetry and fairness for TLC |
| `Subsequences.tla` | the subsequence of a sequence at a set of places, used by three modules below |
| `ApiAnswers.tla` | the seven readers of a token stream and what they tell their clients |
| `TokenStream.tla` | the Redis key of one token stream and who sets its expiry |
| `McpServer.tla` | one MCP client: session, requests, direct tool calls |
| `Admission.tla` | paths, routes, roles and the cache of verdicts |
| `RequestConversion.tla` | from a request body to the messages of a job |
| `RouterStart.tla` | keys, configuration, model resolution, policies, shutdown |
| `MCRouterParts.tla` | composes these six for TLC |
| `WorkerProcess.tla` | the main loop of a GPU or CLI worker and its connection |
| `LlamaServer.tla` | the inference server it runs |
| `Executor.tla` | one job against that server |
| `ToolsWorker.tla` | the connection and the policies of a tools worker |
| `BrowserSessions.tla` | the session table of the browser tools |
| `McpClient.tla` | the MCP installer and one-call clients |
| `AgentWorker.tla` | the agent worker's connection and prompt watcher |
| `CliWorker.tla` | one job run by the claude command line |
| `Downloads.tla` | model files and binaries fetched by worker processes |
| `MCWorkerParts.tla` | composes these nine for TLC |
| `DispatchProofs.tla` | types, pending entries, answers and books of the dispatcher, for any timing |
| `LeaseProofs.tla` | with the promised timing: no job is lost, one executor per job, the refinement of `JobLease` |
| `ContinuationProofs.tla` | types and rounds of the continuation pipeline, for any timing |
| `FreshProofs.tla` | one round at a time and whole conversations, with `FreshBatches` |
| `RouterPartsProofs.tla` | token streams, MCP calls, key checks, setup, model and policies; conversions and answers; the types of all parts |
| `GpuWorkerProofs.tla` | executions, inference servers and downloads of a GPU worker; texts and calls of a job |
| `ToolsWorkerProofs.tla` | policies, browsers and MCP calls; the agent's context; the calls of claude; the types of all parts |
| `SubsequenceProofs.tla` | facts about `Subsequences`: type, length, appending, concatenation |

### `Dispatch`

The configuration is the one without a tools key: a completion is final.

*State.* `added`, `lastDelivered`, `inStream`, `pel` are the Redis stream and its
consumer group; job *n* is the *n*-th `XADD`, so a job and its entry id are one
number. `beat` are the heartbeat keys. `active`, `stale`, `slots` are
`workerConn.activeJobs`, the part of it older than `JobTimeout`, and `maxSlots`.
`poolConns`, `poolJobs` are `gpu.Pool`. `reader[w]` and `handler[w]` are the
program counters of `jobReaderLoop` and `messageLoop`, `sweeper` that of
`Sweeper.sweep`. `running[w]` is what the worker process executes. `answered[j]`
is the first terminal event on the job's token stream, the one that ends the
API handler's loop; the value `unsent` marks a job the router gave up without
an event because the context of the goroutine was cancelled: the connection of
`expireStaleJobs` broke between its `Ack` and its `PublishError`. Its caller is
never told. The properties count `unsent` as an end of the job.

An execution ends with a completion, with an error or, once the worker's own
timeout has passed, in silence (`EndsInSilence`): `executor.go:491-495` returns
without a message when the job's context is over. The router learns of such an
end by the expiry of stale jobs alone.

*Steps.* One Redis command, or the local updates between two commands, is one
step. A Redis command that carries a cancelled context fails: that is where
`ExpireFails` and the `unsent` value come from. A reconnecting worker has a new
random id and is a new member of `Conns`.

*Timing.* `Timely = FALSE` allows a key to lapse under a live worker
(`HeartbeatLapses`, `Ping` after `Connect`) and a cancelled `XREADGROUP` to receive
an entry. `Timely = TRUE` forbids both, which is what the comments in
`jobReaderLoop` and the heartbeat configuration promise.

*Abstractions.* Tokens and payloads are absent; ages are one bit (`stale`); the
sweeper's round robin over a `SCAN` is any live worker; transient Redis failures
other than cancellation are absent; `FetchPolicy` connections, which register
like workers but never answer, are absent. Resetting `stale` when a job is
untracked is what `completeJob` does by deleting the entry with its timestamp.

### `JobLease`

Jobs are submitted, granted in order, passed on between holders, and settled
when they are answered or their answer is under way. `Dispatch` implements it
under `state <- LeaseState`, `holder <- pel`, `reply <- answered`. A delivered job
that is neither pending nor answered nor about to be maps to `lost`, a state
`JobLease` does not have, so the refinement contains the absence of loss.

### `Continuation`

The configuration is the one with a tools key. A GPU worker ends a round with
tool calls; `handleComplete` acknowledges the entry, `StartContinuation` sends the
calls to a tools worker, `recordToolResult` counts the results down, and
`continueLLMRound` puts the job back in the queue under the same id.

*State.* Here a job has several entries and an entry may be executed several
times, so `queue[e]` holds the job and the conversation of entry `e`, and `sent[x]`
the entry behind execution `x`. A conversation is the sequence of executions
whose tool calls and results it contains. `tracked[g]` is `activeJobs`; `reader[g]`
carries the rest of a batch (`todo`) and the entry in hand; `handler[g]` is
`messageLoop`, from a completion through the acknowledgement to the calls still to
send. `jobContexts` and `pendingConts` are the maps of that name; `conts[x]` is the
`pendingContinuation` that execution `x` started, whose `phase` follows the goroutine
of `continueLLMRound`. `links[t]` is the connection of a tools worker as the router
sees it, `toolJobs[t]` the calls the process executes, `toolLoop[t]` its
`toolsMessageLoop` between looking a continuation up and recording a result.

*Difference to `Dispatch`.* GPU connections stay, so the sweeper, the heartbeat
and cancellation are absent, the expiry of stale jobs and `Ack` are one step each,
and `ExpireStaleJobs` may take any of the `SlowJobs` in flight. What is kept of the
queue is what the pipeline depends on: the batch of `ReadPending` that goes stale,
the duplicate check that knows only jobs in flight, and the order acknowledge,
then continue. An expired job may still be executing, so one job can have two
executions, and both can end with tool calls.

*Timing.* `FreshBatches = TRUE` excludes the stale batch of the finding
`redispatched`: no completion is handled while the reader holds its entry. Without
it a stale batch also overwrites the saved conversation of a later round
(`SaveJobContext` runs before `assignJob`): TLC finds `HistoryMatches` violated without
its `FreshBatches` premise, even where no entry has been sent twice.

*Abstractions.* Which of the connected tools workers is picked is arbitrary (the
code hashes the thread id, empty for every API of this repository, over those
that advertise the tools), and so is whether one of them names the tools called: if
none does, or none is connected, or no context was saved, the caller gets the calls as
the completion (`PassThrough`). A GPU worker's execution may end in silence, as in
`Dispatch`. A process reconnects only after the router noticed
that the old connection is gone. `toolJobRefs` is a pair (execution, call). A tools
worker reports an outcome for every call, errors included, so an outcome is
just its arrival. After `workerFull` the reader goes on with the batch: the `break`
at `wshandler.go:430` leaves the `switch`, not the loop.

### The router around the dispatcher

`ApiAnswers`. One job, its executions (`round`) and one reader (`kind`). The readers do
not influence the writers, so an event is delivered when it is read: `log` is the part
of the stream read so far. What belongs to an execution or an event type is the
subsequence of `log` at its places (`At`). A token is named by its execution; `out` is what a streaming
handler wrote, chunk by chunk, `got` what a waiting one accumulated, `block` the index
and the two flags of `AnthropicHandler.streamResponse`. `BlocksNest` reads `out` with a
reference automaton for content blocks. It excludes reasoning that follows text: there
the handler opens a thinking block inside the text block (`anthropichandler.go:567`),
which needs a second execution that thinks again. The Anthropic readers have no
deadline (`Timed`).

`TokenStream`. One key and its expiry. Redis gives a new key no expiry and `EXPIRE` does
nothing to a missing one; every event is two calls, and the dispatcher's (sentinel, TTL)
can be overtaken by the worker's. `NoStreamLeft` excludes jobs the router gave up, whose
worker may write `tool_generating`, which sets no TTL, after the key is gone.

`McpServer`. The SSE session with its channel, one goroutine per message, and
`DispatchDirectToolCall`. Of the notifications only `notifications/initialized` goes
unanswered; any other reaches the default case of `dispatch` and is answered as an unknown
method. A direct call is its entry in `pendingConts`, its reference, the polling goroutine
and the caller that waits for it, the timeout or its own departure.

`Admission`. `v1Tolerant`, the routes, `requireAuth` and `verifyWithCache`. Argon2 is
equality of a key and the key behind a hash. `POST /mcp/message` has no key check: the
message is served if it names a session whose SSE stream is open, and that stream was
opened with the API key. Session ids are drawn at random and never used again.

`RequestConversion`. `handleMessages` step by step over user and assistant messages of all
block shapes; a message of the job remembers the turn it was made from (`from`), so that
`NothingLost` can compare every turn with what was made of it. `ResultsFollowCalls` assumes a
proper conversation (`ProperTurns`) and states what chat templates need.

`RouterStart`. The two places a key hash can come from, the four ways of setting them up,
resolution of a model by id, by name and quantization or by preference, and the policy a
worker is greeted with. A lookup is the set of places of the registry it matches, and what it
finds is the first of them. `CLIType` defaults to `claude`, so the type a worker announces is
never used; an explicit quantization is ignored when the model is given by id.

### The worker programs

`WorkerProcess`. `run` from the policy fetch to the return: `main` is where it is, `wire` the
connection field that is replaced without the lock, `execs` the job messages read and
the goroutine of each, `activeJobs` the `sync.Map`. A job sent twice replaces the cancel
function of its first execution; `RunningIsCancellable` names that exception. Met on the
way: `runWithExternalLlama` never reads messages (`parked`); a signal during a redial is
not noticed until the dial ends; a failed handshake leaves its connection open.

`LlamaServer`. `objects` are the `LlamaProcess` values, `servers` the operating-system
processes they started, `monitors` one goroutine each. `DownHasReason` names the cases no
one recovers: a crash before `OnCrash` was registered, and a restart that failed; jobs
keep coming then and fail one by one. Leaving for a new model (`swapped`) exits without
stopping the server.

`Executor`. The stream of `llama-server` as chunks of text pieces; `shown` is what was sent
on at once, `fullResponse` what was accumulated. The opening of a textual call may be
split over two chunks. Extraction is stated by places of the text: the closings of tagged
calls, the inline calls, and what is outside of both; `CallsAccounted` counts those places.
With effort "none" suppressed thinking is part of the answer though it was never shown,
which `ShownIsAnswered` excludes. Met on the way: a job that ends by its timeout is told nothing; a
textual call split over reasoning chunks is not recognised; a stream that ends without
`[DONE]` completes.

`ToolsWorker`. `reloads` are the goroutines of `handleReloadPolicy`; `advertised` is the list
the connection object keeps, `carried` what the hello of this connection names, `announced`
what was last written on it. A goroutine that writes before the hello spoils the connection.
This is the worker's side of the protocol alone: the router of this repository sends no
policies, ignores `policy_reloaded` (`toolshandler.go:290`) and takes a worker's tools from
its hello (`toolshandler.go:213-215`). Two policies applied at once may end in the wrong order
(`raced`), which `PolicyTakesHold` excludes.

`BrowserSessions`. `registry` is the table; a session is published before it is connected.
`GetOrCreate` lets the table's lock go between finding a session (`found`) and touching it
(`Touch`), and `doCall` counts itself in later still: a sweep in between does not see the
caller and closes the session it has found (`session.go:485`, `619-632`). No property
excludes that; `SessionsAreOwned` is about the table and the closing, not the call.
`displaced` are sessions evicted in the place of another: a call that found its session
dead evicts whatever the table holds by then. Such a session listens on and no sweep finds it.

`McpClient`. `installs` and how often each ran, the callers, their processes and the lines
those wrote. A caller's wait ends with its context, the installation goes on. A line is a
reply, a log line or notification, or a request of the server's own, whose id is the server's
count: `readResp` compares nothing but the id, so a request with the awaited id ends the call
(`got = "request"`), with no result.

`AgentWorker`. A context is the revision of the workspace it was read from. The connection is
published first (`AgentDial`), the workspace read after that (`AgentRead`) and the hello
written last (`AgentHello`); a refresh may push in between. `ContextCatchesUp`
excludes overlapping refreshes, of which the older may be pushed last, and changes no
watch covers: directories made after the watcher started.

`CliWorker`. A run of the `claude` process: `turn` is what `runJobOnce` gathered, `claude` what
the process did, `reported` what the server is told. Met on the way: the batch mark is never
taken back when a turn ends without calls (`claude.late`); a second run
that would need a retry of its own gets none; text after a built-in result is lost if MCP calls follow.

`Downloads`. Files as sequences of (version, block). `LoadedIsWhole` excludes the three cases
the code does not defend against: two processes writing one `.download` file, a file
published anew between two halves (there is no ETag), a directory unpacked by halves,
whose binary counts as cached from then on.

## Runs

| Run | Shows | Bounds |
|---|---|---|
| `dispatch_any_timing` | without any timing: no silent acknowledgement, pending entries keep their payload | 2 connections, 1 job, 1 slot |
| `dispatch_timely` | with the timing, and expiries: no lost job, no job on two live workers, what an expiry takes off the books is answered, the pool never overcounts, refinement of `JobLease` | 2 connections, 2 jobs, 2 slots, one job may go stale |
| `dispatch_live` | every job is answered and acknowledged for good, unless the worker is clogged | 2 connections, one steady; 1 job that may go stale; 1 or 2 slots |
| `slot_left_free` | a free slot may be left unused (README of the repository, line 112) | 1 connection, 2 jobs, 2 slots |
| `slot_never_freed` | a stuck job may keep its slot for ever (`wshandler.go:400`) | 1 connection, 1 job, 1 slot |
| `job_lost` | without the timing, the sweeper may destroy the entry of a waiting caller's job (`sweeper.go:191`) | 2 connections, 1 job |
| `redispatched` | an acknowledged job may be sent again (`wshandler.go:101`) | 2 connections, 2 jobs |
| `tools_any_batch` | with stale batches and double executions: no round is continued with a result missing, or twice, and no waiting caller's job is forgotten | 1 job that may outlive its timeout, 2 GPUs with 1 slot, 1 tools worker, 2 calls, 1 round with calls, 4 entries, 3 executions |
| `tools_fresh` | without stale batches: one round at a time, whole conversations, every job answered unless a tools worker takes a call along | 1 job that may outlive its timeout, 2 GPUs with 2 slots, 1 tools worker, 2 calls, 2 rounds with calls, 3 entries, 3 executions |
| `tools_abandoned` | a continuation whose tools worker is gone never ends (`toolshandler.go:339`) | 1 job, 1 GPU, 1 tools worker, 1 call |
| `router_parts` | the twelve properties of the parts of the router, see below | 2 executions, 3 tokens; 2 requests and a channel of 1; 2 cached verdicts; requests of 3 messages; 2 setups |
| `worker_parts` | the twelve properties of the worker programs, see below | 2 slots, 4 spawns, 2 updates; 2 jobs, 2 executions, 2 links; 3 chunks; 3 policies, 3 sessions; 2 callers; 2 revisions; 4 output lines; 2 processes, 2 versions |

The parts in `MCRouterParts` and in `MCWorkerParts` share no variable and, within one
program, only call each other through what they have in common with the modules above.
Interleaving them would multiply their states and show nothing more: the variable
`focus` says which part runs, the others stay in one of their initial states, and one
search visits the sum of their states. The type invariants are asked of all parts at
once. Every action of every part fires.

| Property | Says |
|---|---|
| `BlocksNest` | Anthropic content blocks follow one another, each delta in its own |
| `SameText` | a streaming client is told every execution's text once and in order, a waiting one the last one's |
| `NoStreamLeft` | a stream nobody will write again expires |
| `OneResponse` | a message the session accepts has one response, written, queued or lost to a full channel; `notifications/initialized` alone has none |
| `CallForgotten` | no table keeps a direct call that was answered or never sent |
| `ServedByRole` | whatever is cached, an endpoint with a key check serves exactly the key of its role; an MCP message is served exactly in an open session, which the API key opened |
| `ResultsFollowCalls` | a tool message stands behind the call it answers |
| `NothingLost` | a conversion keeps what was said, in order, but text beside results and blocks it ignores |
| `KeysShownWork` | the keys setup showed open a router that reads their hashes |
| `ModelResolved` | a GPU router serves the quantization that was asked for, or the one it prefers |
| `PolicyRunnable` | a worker is told a model the registry has, or its own |
| `RunningIsCancellable` | a cancel message or a disconnect finds every running execution, but of two executions of one job only the later |
| `OneServer` | two servers never share the GPU |
| `DownHasReason` | a worker that takes jobs has a server or someone who brings one up, or it is known why not |
| `ShownIsAnswered` | the text shown is the text reported, without a piece of a call |
| `CallsAccounted` | a call is reported exactly if it was taken out of the text, once; a tagged call that cannot be parsed stays in the text (`qwen_tool_xml.go:53-57`) and is none here |
| `PolicyTakesHold` | the worker advertises the tools of the last policy and has named them on its connection, wherever the link broke; policies applied at once excluded |
| `SessionsAreOwned` | a listening session can be found, or was displaced; what the table offers is not closed while the sidecar knows it |
| `CallsEndInOrder` | one install per package; a call ends with an error or a line with its request's id, and leaves no process |
| `ContextCatchesUp` | the server has the workspace as it is once nothing is under way, overlapping refreshes and unseen changes excluded |
| `CallsAreReportedOnce` | a call of claude's is handed on or reported as resolved, never both |
| `LoadedIsWhole` | a file that is loaded was fetched whole |

Two executions are the least in which events of one can follow the other's; a channel
of one is full as soon as two answers meet; two jobs and two executions include the same
job twice; three chunks hold an opening split over two and its end; two processes and two
versions are enough for a file to be written, or to change, under a reader.

Two connections are enough for each hazard: one that dies and one that
inherits, or two that run the same job. Two jobs in two slots let a batch
outlive an acknowledgement and let deliveries overlap a sweep. `PendingBatch`
and `ClaimBatch` have the code's values 10 and 100 and are never reached. The claims about
the sweeper are therefore for no more jobs than `ClaimBatch`: with the value 1 and three
connections TLC finds `DELCONSUMER` destroying what `XPENDING` did not list (`sweeper.go:143`).
A reader expires stale jobs only while it has a free slot, so expiries take two slots
(`dispatch_timely`, `dispatch_live`). The number of slots changes at run time in `dispatch_live`
only, with one job: that it may fall below the jobs in flight is covered by the theorem
`PoolCountIsTrue` and by no run.
In the continuation runs two calls are enough for a first and a last result; a
second GPU, or a second slot, for the same job to be executed twice; two rounds
for a conversation to be extended that was extended before. In `tools_fresh` the
bounds on entries and executions are what two rounds and the final one need. In
`tools_any_batch` duplicates may use them up; the actions behind the bound are then
disabled, which cuts behaviours short but adds none.
Deadlock is not checked: the system rests when every connection is over, and a part
when its bounds are used up or its process has ended.

*Fairness* (`MCDispatch`). `RouterRuns`: the goroutines of the router are scheduled,
the sweeper's ticker fires again, a broken socket is noticed. Weak fairness is
per goroutine, since each has one program counter. `WorkersAnswer`: a worker ends
every execution, with a completion, with an error or, its own timeout being over, without
a word (`executor.go:491-495`), and time passes, so that a job in flight becomes overdue;
`Steady` connections connect and stay. A worker all of whose slots are taken by executions
that ended without a word is `Clogged`, and its reader expires none of them (the finding
`slot_never_freed`): `EveryJobSettled` excuses the router if a worker is found clogged again
and again, and only then. `MuteSpec` drops `WorkersAnswer`: a worker may be connected and
never answer, the situation the expiry of stale jobs exists for.
`MCContinuation` assumes the same of the router's goroutines, that GPU workers end
every execution, in silence too, that a reader which expires stale jobs again and again
expires each of them, that tools workers end every call, and that a tools worker that is
away comes back. Completions are strongly fair: with `FreshBatches` one is held back
while the reader is busy with its entry, which is again and again but never for
good, since the reader backs off for two seconds after a batch it could not
dispatch.
`MCRouterParts` and `MCWorkerParts` state no fairness and check safety only.

## Proofs

The theorems hold for every value of the constants that satisfies the named
assumptions of their modules: sets of connections, jobs, calls and workers of any size
(`Calls` finite), any positive number of slots, any bounds. Two of them assume more:
`NoJobLost` and `DispatchLeases` need `NumJobs <= ClaimBatch`, since the sweeper lists a
consumer's entries once and the code's `XPENDING` returns 100 of them. `Timely` and
`FreshBatches` are constants: where a property speaks of a timing it names it itself
(`TimelyNoLostJob`, `TimelySingleExecutor`, `OneRoundAtATime`, `HistoryMatches`), only
`DispatchLeases` has it as a hypothesis. The theorems about a part of the router or of a
worker are about that part's own specification, of which `MCRouterParts` and
`MCWorkerParts` run one at a time; `RouterPartsTyped` and `WorkerPartsTyped` are about these
compositions themselves.

### Sequences

The provers cannot instantiate an induction principle, and much here is about what a
handler has written against what it has read. `At(s, P)` of `Subsequences` is a recursive
function, and `SubsequenceProofs` proves what is needed of it once, by least
counterexample: a non-empty set of numbers has a least element (`LeastOf`, `CountUp`), so
the first prefix at which an equation fails contradicts the function's own step
(`KeptStep`). `AtAppend`, `AtCat`, `AtNone`, `AtAll`, `AtLen` and `AtEntries` say what
appending, concatenating, selecting nothing or everything, and counting amount to. The
invariants below cite these and stay first-order. `ReadBlocks` in `RouterPartsProofs` is
treated in the same way.

### The dispatcher

* `TypeCorrect`: `TypeOK` with the job a reader is sending (`TypeInv`).
* `PendingKeptInStream`: `PendingInStream` is not inductive, because `HandlerXdel`
  and `ExpireXdel` remove an entry from the stream. What makes them safe is that
  the goroutine at `xdel` took the entry out of the pending list one step before
  and nothing can put it back: an entry is delivered once, and `XCLAIM` only
  moves entries that are pending. `EntryInv` says that an entry at `xdel` is
  delivered and pending nowhere.
* `RemovalIsAnswered`: `RemovedIsAnswered` is inductive relative to `EntryInv`. The
  settling goroutine keeps the job until it publishes (`SettlingKept`), and an error was
  published before its `XDEL` (`ErrorsPublished`, part of `EntryInv`).
* `OffTheBooksIsAnswered`, `PoolCountIsTrue`: `BooksInv` compares what a worker runs, what
  `activeJobs` has and what the pool has. A difference is owned by a goroutine that has
  yet to publish or to acknowledge (`Expiring`, `Acking`). The clause that makes it inductive
  is about the reader at `send`: the job it is about to send is on the books and not
  running, so no older execution can take it off behind the reader's back, or else its
  caller is answered.
* `NoJobLost`: the dangerous step is `SweepDelete`. `BeatInv` says that a consumer with
  pending entries has had a key, so that one without a key was cancelled and receives
  nothing more; `SweepView` that the consumers the sweeper holds for dead are such;
  `SweepListing` that between listing and claiming the list still contains all they have
  pending (`FirstIsAll` needs `ClaimBatch`). Then nothing is left when the consumer is
  deleted. `SafeInv` is all of this together.
* `OneExecutor`: a job may be executed by the worker that runs it, the reader that has it in
  its batch and the one that sends it (`Holds`). `HoldInv` says that of the connections that
  are not cancelled one at most holds a job, and that an entry which is pending is pending
  with the one that does. `XCLAIM` moves an entry away only from a cancelled connection, and
  what the sweeper is about to claim is still the dead one's or acknowledged (`ListedOfDead`).
  No bound on the number of jobs is needed.
* `DispatchLeases`: `Spec => LeaseSpec`. The state of a lease depends on what goroutines are
  about to do, but while no job is lost it depends on the queue and the answers alone
  (`PlainLease`), and `NoJobLost` holds in both states of every step. Then each step maps to a
  submission, a grant, a pass, a settlement or a reply, or leaves the leases alone, by a lemma
  for each kind; `SweepDelete` is a stutter because of `SweepListing`.

### Continuations

The invariant is built in layers. `BaseInv`: what is named exists (an entry was submitted,
an execution sent). `RoundInv`: an execution is at one worker or one handler; a call on its
way is at one place, the handler that sends it, the tools worker that runs it or the loop
that records it, and its round is open and misses it; `remaining` counts what is missing.
`TrackInv`: a worker runs a job under the entry it is tracked with, unless the caller is
answered.

* `TypeCorrect`: `recordToolResult` decrements `remaining` without a test, so that it never
  falls below zero is part of this theorem and rests on `RoundInv`.
* `RoundsAreWhole`: a round is closed when the last missing result came, so the branch of
  `continueLLMRound` for a missing result is never taken.
* `RoundsContinueOnce`: two executions of a job may both end in calls, but the entry of a
  round is added by the goroutine of one execution, whose phase moves on with it.
* `CallersKeepTheirJob`: a case for every place a job can be at (`Somewhere`), and every step
  hands it to the next; it needs `TrackInv` to know that a completion that is ignored belongs to
  a caller who is answered.
* `OneRoundInFlight`, `ConversationsAreWhole`, in `FreshProofs`: an entry is *live* from its
  `XADD` until its execution is answered or followed by the next entry. `Alone` says that an
  entry is sent once and a job has one live entry at most; `InOrder` that whatever is in a
  reader's batch is still pending with it, which is what `FreshBatches` keeps true, and that
  a pending entry is either unsent or accounted for by one goroutine or worker; `Contexts`
  that `jobContexts`, the open continuation and the queue hold the conversation of the live
  entry. None of the three is inductive without the others.

### The router around the dispatcher

* `StreamsExpire`: the executions of a job follow each other, so only the last one writes; once
  it is over its `EXPIRE` is still due or the key has a TTL, and a key that expired has no
  writer left (`RouterPartsProofs!StreamInv`).
* `CallsLeaveTheTables`: once its goroutine waits, or has gone, a call is in a table only while
  the worker has not answered it (`CallTables`). `OneResponseEach`: `ApartInv`, a response is queued, delivered or dropped, and
  dropped only when the channel was full; `OverInv`, it exists exactly when its message is over
  and is not `notifications/initialized`.
* `KeysAreChecked`: the cache holds nothing but verdicts Argon2 gave, for the key and hash they
  are filed under, so that a stale one is still right, and an open MCP session was opened with
  a key that was found right (`AdmissionInv`).
* `SetupKeysWork`: what setup showed is printed and waits to be applied, or is in place, and a
  router that runs read what is in place (`KeyInv`).
* `ModelIsResolved`, `PoliciesCanRun`: the row of the registry that a lookup finds is the
  first of those that match and `AutoSelect` prefers no worse one (`LeastPlace`, `ModelInv`).
* `ResultsFollowTheirCalls`, `NothingSaidIsLost`: `ConvInv`. The messages made so far stand in
  the order of their turns and those of a turn are complete for it (`SaidInv`). A tool message
  finds its call behind tool messages only because the message of an assistant that calls
  tools is the last of its turn (`TurnsInv`): `handleMessages` writes text and calls in one message.
* `ClientsGetTheText`: `TextInv` ties what a handler wrote or gathered to the tokens at their places
  in `log`. A waiting handler that is done has the last execution's text only when that is
  not empty, since an empty full response replaces nothing (`Replaced`).
* `BlocksFollow`: `NestInv` runs the reference automaton over what the Anthropic handler wrote and
  says that its state is the handler's own `block.index` and flags. The text flag is set only
  after a token was read, so that reasoning met under it is reasoning after text.
* `RouterPartsTyped`: a step of the composition is a step of the part in `focus` and leaves the
  others alone (`PartsRun`), so the invariants of the parts, types included, hold side by side.

### The worker programs

* `ExecutionsCanBeStopped`: of two executions of a job that run beside each other both know it
  (`shared`); one that runs alone is the one in `activeJobs` (`ExecutionInv`).
* `OneServerAtATime`, `ServersComeBack`: `OneServerInv`. The serving process belongs to the newest
  `LlamaProcess` and its monitor waits for it; one monitor at most is about to restart; a
  server is killed before its object is replaced; between two servers no job is taken.
  The converse, that a server that is down has somebody who brings one up, is inductive only
  together with it (`CrashIsHeard`, `DownIsKnown`).
* `FetchedWhole`: a `.download` file and what its writer has yet to append are the two halves of
  one version (`FileWhole`), loaders proceed to the second file only when the first is there
  (`StageInOrder`), and an unpacked directory is as far as its unpacker (`ServerWhole`).
* `LastPolicyHolds`: of policies applied in turn all but the last are over, and what the
  connection has announced is what is advertised, or a goroutine has yet to announce it, or
  the connection is not accepted yet (`PolicyInv`).
* `BrowsersAreOwned`: a session nobody has closed is in the table or was displaced from it; one
  that is being closed while a call can find it is not known to the sidecar; one call at
  most connects a session (`BrowserInv`).
* `CallsEndWell`: where a caller is says whether it has a process and an installation
  (`McpInv`).
* `ServerHasTheContext`: without overlapping refreshes one goroutine holds the context of the
  workspace, or the server has it, or the debounce timer is armed (`ContextInv`).
* `ReportedOnce`: while claude makes no call after its batch mark the worker has seen every one,
  pending or done, and kills the process only with nothing pending (`CallInv`).
* `TokensAreTheAnswer`, `CallsAreAccounted`: `ExecInv`. What was shown begins the accumulated text and
  holds no opening of a call, and it is all of that text until one was opened (`ShownInv`):
  a chunk that completes an opening begun in the one before is not shown. Nothing is reported
  before the end, and then what `CompleteJob` makes of the accumulated text and calls
  (`TellingInv`), so both properties come down to what extraction does to a text, by places.
* `WorkerPartsTyped`: as `RouterPartsTyped` (`WorkerPartsRun`). Some types rest on more than types:
  the number of servers started on `OneServerInv` (`SpawnsAreBounded`), the length of a file on
  what its writer has left to append (`FilesAreShort`), and that the CLI worker's turn knows
  only calls claude made on the fact that what claude does late is ignored (`LateIsIgnored`).

### Only model-checked

* Liveness under fairness and what rests on `ENABLED`: out of the prover's reach. These are
  `EveryJobSettled` and `EveryJobAnswered`.
* The five findings, which are counterexamples.
* What the properties except (*Met on the way* below).

## Findings

Each is a `violation` run that reproduces in a few seconds.

* `slot_left_free`: `ReadPending` returns entries in flight, so a worker with a job
  in flight never blocks for new ones: its other slots stay empty.
* `slot_never_freed`: the wait for capacity precedes the expiry of stale jobs.
* `job_lost`: a new connection's reader receives a job before its first heartbeat key is set,
  and the sweeper finds the consumer dead. The key is set, the consumer is alive for
  `LiveWorkerIDs`, its entry is claimed back to itself, and `DELCONSUMER` destroys it with the
  consumer. Only the batch in that reader's hands still has the job: when the connection breaks
  before it is sent, no list, no worker and no event has it, and its caller waits for ever.
* `redispatched`: the batch of `ReadPending` is dispatched after its entries were
  acknowledged; the duplicate check only knows jobs in flight.
* `tools_abandoned`: `failPendingToolJobs` fails nothing. Its comment relies on the job
  timeout on the GPU side, but the GPU's entry was acknowledged, and the job
  untracked, before the calls were sent.

### Met on the way

The model has these behaviours and the properties name them as exceptions; they have no run
of their own.

* A pending list of more than 100 entries loses the rest to `DELCONSUMER` (`sweeper.go:143`).
* An expiry whose connection breaks between its `Ack` and its `PublishError` leaves the caller
  without the "error" that the comment over `expireStaleJobs` promises (`wshandler.go:586`).
* A stale batch saves an earlier round's context over that of the round in flight
  (`wshandler.go:521`).
* A GPU worker that runs a job twice aborts one of the two when its link is lost (`main.go:487`).
* Of two policies applied at once the older may speak last (`tools/worker.go:282`), and of two
  overlapping refreshes the one that read the older files (`agentworker/worker.go:272`).
* A sweep between the lookup and the touch closes a browser session under a call
  (`session.go:485`); the second of two calls that find one dead session takes the first one's
  replacement out of the table, and no sweep finds its browser (`session.go:532`).
* A request of an MCP server's own with the awaited id is taken for the reply (`mcp.go:517`).

## Not modelled

* The router: `SelectWorker` and `DeadWorkers` (no caller), the tool definitions injected into
  jobs, the choice of a tools worker by thread, parsing of environment variables,
  transient Redis failures.
* The workers: command lines and output of `llama-server` and `sd-server`, sanitising of
  messages for chat templates, debug output, GPU detection, what web fetch, web search,
  code execution and the coding tools do, the tool schemas of the browser, the thinking
  stream, usage counts and message cap of the CLI worker.
* Code without a caller: `pkg/workerconn`, `internal/agentworker/loop.go` and
  `toolclient.go`. The server the agent worker talks to, and the router's side of
  `job.tool.call.request`, are not in this repository.
* The npm packages, the probe and the benchmark; wording of responses and logs.
