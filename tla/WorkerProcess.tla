----------------------------- MODULE WorkerProcess -----------------------------
(* The GPU worker process around its executor: the policy it fetches on a      *)
(* temporary connection, the permanent connection with its read loop and       *)
(* backoff, the executions it starts in goroutines of their own, the map that   *)
(* holds how to cancel them, and the tool calls a running CLI sends upstream.   *)
EXTENDS Naturals, Sequences

CONSTANTS
  Jobs,        \* job ids
  MaxExecs,    \* job messages read
  MaxDelay,    \* cap of the backoff, in units of the first delay
  MaxLinks     \* permanent connections made

ASSUME WorkerAssumption == MaxExecs \in Nat \ {0} /\ MaxDelay \in Nat \ {0} /\ MaxLinks \in Nat \ {0}

VARIABLES
  backend,     \* "gpu", "image", "cli", "external"
  main,        \* "fetching", "backoff1", "starting", "reading", "backoff", "redialing", "parked", "exited", "failed"
  delay,       \* backoff
  wire,        \* c.conn: "nil", "open", "broken"
  links,       \* permanent connections so far
  signalled,   \* the context is cancelled
  closer,      \* the goroutine that closes the connection then: "none", "armed", "done"
  execs,       \* job messages read, each with its goroutine and what befell it
  activeJobs   \* sync.Map: the execution a job's cancel function belongs to, or 0

workervars == <<backend, main, delay, wire, links, signalled, closer, execs, activeJobs>>

\* Mutant: the backoff has no limit.
Unlimited(a, b) == a
Minimum(a, b) == IF a <= b THEN a ELSE b
Running(e) == execs[e].stage = "running"
Rivals(e) == {f \in 1 .. Len(execs) \ {e} : execs[f].job = execs[e].job /\ Running(f)}
Loop == {"reading", "backoff", "redialing"}

WorkerInit ==
  /\ backend \in {"gpu", "image", "cli", "external"} /\ main = "fetching" /\ delay = 1 /\ wire = "nil" /\ links = 0
  /\ signalled = FALSE /\ closer = "none" /\ execs = <<>> /\ activeJobs = [j \in Jobs |-> 0]
-----------------------------------------------------------------------------
\* run: the policy, retried with backoff unless the key is refused; a CLI type
\* other than claude is refused too.
FetchPolicy ==
  /\ main = "fetching"
  /\ \/ main' = "starting" /\ UNCHANGED delay
     \/ main' = "failed" /\ UNCHANGED delay
     \/ main' = "backoff1" /\ UNCHANGED delay
  /\ UNCHANGED <<backend, wire, links, signalled, closer, execs, activeJobs>>
WaitForRouter ==
  /\ main = "backoff1"
  /\ IF signalled THEN main' = "failed" /\ UNCHANGED delay ELSE main' = "fetching" /\ delay' = Minimum(2 * delay, MaxDelay)
  /\ UNCHANGED <<backend, wire, links, signalled, closer, execs, activeJobs>>

\* ConnectPermanent: c.conn is replaced before the handshake, without the lock;
\* a failed handshake leaves it there.
ConnectPermanent(ok, failed) ==
  /\ links < MaxLinks /\ links' = links + 1
  /\ \/ wire' = "open" /\ main' = ok
     \/ wire' \in {wire, "open", "broken"} /\ main' = failed
ConnectFirst ==
  /\ main = "starting" /\ ConnectPermanent(IF backend = "external" THEN "parked" ELSE "reading", "failed")
  /\ closer' = IF main' = "failed" THEN closer ELSE "armed"
  /\ UNCHANGED <<backend, delay, signalled, execs, activeJobs>>
Reconnect ==
  /\ main = "redialing" /\ ConnectPermanent("reading", "backoff")
  /\ delay' = IF main' = "reading" THEN 1 ELSE Minimum(2 * delay, MaxDelay)
  /\ UNCHANGED <<backend, signalled, closer, execs, activeJobs>>
BackoffEnds ==
  /\ main = "backoff" /\ main' = IF signalled THEN "exited" ELSE "redialing"
  /\ UNCHANGED <<backend, delay, wire, links, signalled, closer, execs, activeJobs>>

Signal ==
  /\ ~ signalled /\ signalled' = TRUE
  /\ execs' = [e \in 1 .. Len(execs) |-> [execs[e] EXCEPT !.cancelled = @ \/ execs[e].stage = "running"]]
  /\ UNCHANGED <<backend, main, delay, wire, links, closer, activeJobs>>
CloseOnSignal ==
  /\ signalled /\ closer = "armed" /\ closer' = "done" /\ wire' = "nil"
  /\ UNCHANGED <<backend, main, delay, links, signalled, execs, activeJobs>>
LinkBreaks ==
  /\ wire = "open" /\ main \in Loop \cup {"parked"} /\ wire' = "broken"
  /\ UNCHANGED <<backend, main, delay, links, signalled, closer, execs, activeJobs>>
-----------------------------------------------------------------------------
\* RunMessageLoop: each job runs in its own goroutine; cancels are handled here.
ReadJob(j) ==
  /\ main = "reading" /\ wire = "open" /\ Len(execs) < MaxExecs
  /\ execs' = Append(execs, [job |-> j, stage |-> "spawned", cancelled |-> FALSE, asks |-> "no", late |-> FALSE, shared |-> FALSE])
  /\ UNCHANGED <<backend, main, delay, wire, links, signalled, closer, activeJobs>>
ReadCancel(j) ==
  /\ main = "reading" /\ wire = "open" /\ activeJobs[j] # 0
  /\ execs' = [execs EXCEPT ![activeJobs[j]].cancelled = TRUE]
  /\ UNCHANGED <<backend, main, delay, wire, links, signalled, closer, activeJobs>>
\* A result nobody waits for any more is dropped.
ReadToolCallResult(e) ==
  /\ main = "reading" /\ wire = "open" /\ execs[e].asks = "sent" /\ execs' = [execs EXCEPT ![e].asks = "answered"]
  /\ UNCHANGED <<backend, main, delay, wire, links, signalled, closer, activeJobs>>
\* Mutant: the executions of a broken link go on.
DisconnectedRunsOn ==
  /\ main = "reading" /\ wire # "open" /\ main' = (IF signalled THEN "exited" ELSE "backoff") /\ delay' = 1
  /\ UNCHANGED <<backend, wire, links, signalled, closer, execs, activeJobs>>
\* The loop is over: everything in activeJobs is cancelled; shutdown or backoff.
Disconnected ==
  /\ main = "reading" /\ wire # "open"
  /\ execs' = [e \in 1 .. Len(execs) |->
                 [execs[e] EXCEPT !.cancelled = @ \/ \E j \in Jobs : activeJobs[j] = e]]
  /\ main' = (IF signalled THEN "exited" ELSE "backoff") /\ delay' = 1
  /\ UNCHANGED <<backend, wire, links, signalled, closer, activeJobs>>
\* Beside an external llama-server the loop is not run: only the signal ends it.
Parked ==
  /\ main = "parked" /\ signalled /\ main' = "exited"
  /\ UNCHANGED <<backend, delay, wire, links, signalled, closer, execs, activeJobs>>

\* onJob: stores how to cancel it, runs the executor, and deletes the entry of
\* its job, whoever's it is by then.
StartExecution(e) ==
  /\ execs[e].stage = "spawned" /\ main \in Loop
  /\ execs' = [f \in 1 .. Len(execs) |->
                 IF f = e THEN [execs[e] EXCEPT !.stage = "running", !.cancelled = signalled, !.late = main # "reading",
                                                !.shared = Rivals(e) # {}]
                 ELSE [execs[f] EXCEPT !.shared = @ \/ f \in Rivals(e)]]
  /\ activeJobs' = [activeJobs EXCEPT ![execs[e].job] = e]
  /\ UNCHANGED <<backend, main, delay, wire, links, signalled, closer>>
EndExecution(e) ==
  /\ Running(e) /\ main \in Loop /\ (execs[e].asks = "no" \/ execs[e].cancelled)
  /\ execs' = [execs EXCEPT ![e].stage = "over", ![e].asks = "no"]
  /\ activeJobs' = [activeJobs EXCEPT ![execs[e].job] = 0]
  /\ UNCHANGED <<backend, main, delay, wire, links, signalled, closer>>

\* A tool of the server, called by the CLI: asked upstream, waited for.
SendToolCallRequest(e) ==
  /\ backend = "cli" /\ Running(e) /\ main \in Loop /\ execs[e].asks = "no" /\ wire = "open"
  /\ execs' = [execs EXCEPT ![e].asks = "sent"]
  /\ UNCHANGED <<backend, main, delay, wire, links, signalled, closer, activeJobs>>
ToolCallReturns(e) ==
  /\ Running(e) /\ main \in Loop /\ execs[e].asks = "answered"
  /\ execs' = [execs EXCEPT ![e].asks = "no"]
  /\ UNCHANGED <<backend, main, delay, wire, links, signalled, closer, activeJobs>>

WorkerNext ==
  \/ FetchPolicy \/ WaitForRouter \/ ConnectFirst \/ Reconnect \/ BackoffEnds \/ Signal \/ CloseOnSignal \/ LinkBreaks
  \/ Disconnected \/ Parked
  \/ \E j \in Jobs : ReadJob(j) \/ ReadCancel(j)
  \/ \E e \in 1 .. Len(execs) : \/ StartExecution(e) \/ EndExecution(e) \/ SendToolCallRequest(e)
                                \/ ToolCallReturns(e) \/ ReadToolCallResult(e)
WorkerSpec == WorkerInit /\ [][WorkerNext]_workervars
-----------------------------------------------------------------------------
WorkerTypeOK ==
  /\ main \in Loop \cup {"fetching", "backoff1", "starting", "parked", "exited", "failed"} /\ delay \in 1 .. MaxDelay
  /\ wire \in {"nil", "open", "broken"} /\ links \in 0 .. MaxLinks /\ Len(execs) <= MaxExecs
  /\ activeJobs \in [Jobs -> 0 .. Len(execs)]

\* Every execution can still be stopped: whoever is running and not cancelled
\* is the one a cancel message or a disconnect finds, unless it ran beside
\* another execution of its job, and they had one entry between them; and none that ran when the link broke runs on
\* after it, unless its goroutine had not stored its entry yet.
RunningIsCancellable ==
  \A e \in 1 .. Len(execs) : Running(e) /\ ~ execs[e].cancelled /\ ~ execs[e].shared =>
     /\ activeJobs[execs[e].job] = e
     /\ main \in {"backoff", "redialing"} => execs[e].late
=============================================================================
