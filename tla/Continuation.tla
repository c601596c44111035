---------------------------- MODULE Continuation ----------------------------
(***************************************************************************)
(* The continuation pipeline: a GPU worker answers a round with tool       *)
(* calls, the router sends them to a tools worker, collects the results,   *)
(* extends the conversation and puts the job back in the queue under the   *)
(* same job id, until a round ends without calls.                          *)
(*                                                                         *)
(* The GPU side is Dispatch with connections that stay: the reader's batch *)
(* of pending entries, the in-flight map, the acknowledgement.  An entry   *)
(* is its position in the queue, an execution its position in the order of *)
(* sends, and a conversation the sequence of executions whose tool calls   *)
(* and results it contains.  Call ids are unique to an execution, so a     *)
(* call is known by the pair of the two.                                   *)
(***************************************************************************)
EXTENDS Naturals, Sequences, FiniteSets

CONSTANTS
  Jobs,         \* requests of API callers
  Gpus,         \* connections of GPU workers
  Tools,        \* tools worker processes
  Calls,        \* the tool calls one response may hold
  Slots,        \* parallelism of a GPU worker
  SlowJobs,     \* bound: jobs that may outlive JobTimeout, the router's and
                \* the worker's
  MaxRounds,    \* bound: rounds with tool calls in one conversation
  MaxEntries,   \* bound: XADDs
  MaxSends,     \* bound: executions
  NoGpu, NoTool, NoContext,
  FreshBatches  \* the timing under which assignJob's comment is true: no
                \* completion is handled while the reader still works through
                \* a batch that holds its entry

ASSUME SlotsAssumption  == Slots \in Nat \ {0}
ASSUME SlowAssumption   == SlowJobs \subseteq Jobs
ASSUME BoundsAssumption == MaxRounds \in Nat /\ MaxEntries \in Nat /\ MaxSends \in Nat
ASSUME CallsAssumption  == IsFiniteSet(Calls)
ASSUME NamesAssumption  ==
  NoGpu \notin Gpus /\ NoTool \notin Tools /\ NoContext \notin Seq(Nat)
ASSUME FreshAssumption  == FreshBatches \in BOOLEAN

Entries == 1 .. MaxEntries
Execs   == 1 .. MaxSends

VARIABLES
  added,        \* XADDs so far
  queue,        \* the job and the conversation of every entry
  delivered,    \* the group's last-delivered-id
  pel,          \* the consumer whose pending list holds the entry
  answered,     \* the first terminal event on the job's token stream
  tracked,      \* activeJobs: the entry behind each job in flight, 0 for none
  reader,       \* jobReaderLoop of a GPU connection
  sends,        \* executions so far
  sent,         \* the entry behind each execution
  running,      \* executions in the GPU worker
  handler,      \* messageLoop of a GPU connection
  jobContexts,  \* the conversation saved for a job
  pendingConts, \* the execution whose calls a job waits for, 0 for none
  conts,        \* the pendingContinuation of each execution
  links,        \* connection of a tools worker as the router sees it
  toolJobs,     \* calls a tools worker executes
  toolLoop      \* toolsMessageLoop of a connection

queueVars == <<added, queue, delivered, pel>>
execVars  == <<sends, sent, running>>
contVars  == <<jobContexts, pendingConts, conts>>
toolVars  == <<links, toolJobs, toolLoop>>
vars == <<queueVars, answered, tracked, reader, execVars, handler, contVars,
          toolVars>>

ReaderPCs  == {"top", "pending", "save", "assign", "send", "block"}
HandlerPCs == {"idle", "untrack", "ack", "start", "send", "publish", "forget"}
Phases     == {"none", "open", "save", "enqueue", "over"}

JobOf(x)     == queue[sent[x]].job
HistoryOf(x) == queue[sent[x]].history
Registered   == {t \in Tools : links[t] # "off"}
\* A handler's connection to a tools worker: NoTool once that is closed, since
\* the process comes back on another one.
IsDead(tool) == tool \notin {t \in Tools : links[t] = "up"}
HasCapacity(g) == Cardinality({j \in Jobs : tracked[g][j] # 0}) < Slots
IsFirst(e, S)  == e \in S /\ \A f \in S : e <= f
InBatch(g, e)  == e \in reader[g].todo \/ e = reader[g].entry

NoCont      == [phase |-> "none", history |-> <<>>, calls |-> {}, got |-> {}, remaining |-> 0]
IdleHandler == [pc |-> "idle", exec |-> 0, entry |-> 0, calls |-> {}, next |-> "idle",
                tool |-> NoTool]
IdleLoop    == [exec |-> 0, call |-> 0, found |-> 0]

Init ==
  /\ added = 0
  /\ queue = [e \in Entries |-> [job |-> 0, history |-> <<>>]]
  /\ delivered = 0
  /\ pel = [e \in Entries |-> NoGpu]
  /\ answered = [j \in Jobs |-> "none"]
  /\ tracked = [g \in Gpus |-> [j \in Jobs |-> 0]]
  /\ reader = [g \in Gpus |-> [pc |-> "top", todo |-> {}, entry |-> 0]]
  /\ sends = 0
  /\ sent = [x \in Execs |-> 0]
  /\ running = [g \in Gpus |-> {}]
  /\ handler = [g \in Gpus |-> IdleHandler]
  /\ jobContexts = [j \in Jobs |-> NoContext]
  /\ pendingConts = [j \in Jobs |-> 0]
  /\ conts = [x \in Execs |-> NoCont]
  /\ links = [t \in Tools |-> "off"]
  /\ toolJobs = [t \in Tools |-> {}]
  /\ toolLoop = [t \in Tools |-> IdleLoop]

-----------------------------------------------------------------------------
(* Pieces the steps share.                                                 *)

\* A terminal event; the caller stops at the first.
Publish(j, reply) ==
  answered' = [answered EXCEPT ![j] = IF @ = "none" THEN reply ELSE @]

\* enqueueJob.
AddEntry(j, history) ==
  /\ added < MaxEntries
  /\ added' = added + 1
  /\ queue' = [queue EXCEPT ![added + 1] = [job |-> j, history |-> history]]
  /\ UNCHANGED <<delivered, pel>>

ReaderAt(g, pc, todo, e) ==
  reader' = [reader EXCEPT ![g] = [pc |-> pc, todo |-> todo, entry |-> e]]
NextEntry(g) ==
  ReaderAt(g, IF reader[g].todo = {} THEN "top" ELSE "save", reader[g].todo, 0)

HandlerGoes(g, pc) ==
  handler' = [handler EXCEPT ![g] = IF pc = "idle" THEN IdleHandler ELSE [@ EXCEPT !.pc = pc]]
NextCall(g, c) ==
  LET left == handler[g].calls \ {c} IN
    handler' = [handler EXCEPT ![g] = IF left = {} THEN IdleHandler
                                      ELSE [@ EXCEPT !.calls = left]]

\* Mutant: the countdown is tested before it is decremented.
RecordResultLate(found, x, c) ==
  IF found = x
  THEN LET last == conts[x].remaining = 0 IN
       /\ conts' = [conts EXCEPT ![x].got = @ \cup {c},
                                 ![x].remaining = IF last THEN 0 ELSE @ - 1,
                                 ![x].phase = IF last THEN "save" ELSE @]
       /\ pendingConts' = IF last THEN [pendingConts EXCEPT ![JobOf(x)] = 0]
                          ELSE pendingConts
  ELSE UNCHANGED <<conts, pendingConts>>

\* recordToolResult for call c of execution x, with the continuation the
\* lookup found: calls of another execution are unknown to it.  The last one
\* closes the continuation and starts the goroutine of the next round.
RecordResult(found, x, c) ==
  IF found = x
  THEN LET last == conts[x].remaining = 1 IN
       /\ conts' = [conts EXCEPT ![x].got = @ \cup {c},
                                 ![x].remaining = @ - 1,
                                 ![x].phase = IF last THEN "save" ELSE @]
       /\ pendingConts' = IF last THEN [pendingConts EXCEPT ![JobOf(x)] = 0]
                          ELSE pendingConts
  ELSE UNCHANGED <<conts, pendingConts>>

-----------------------------------------------------------------------------
(* The API and the job reader.                                             *)

Submit(j) ==
  /\ \A e \in 1 .. added : queue[e].job # j
  /\ AddEntry(j, <<>>)
  /\ UNCHANGED <<answered, tracked, reader, execVars, handler, contVars, toolVars>>

\* With a free slot, expireStaleJobs gives up the jobs that are overdue; Dispatch
\* has its steps one by one.
ExpireStaleJobs(g) ==
  /\ reader[g].pc = "top"
  /\ HasCapacity(g)
  /\ \E stale \in SUBSET {j \in SlowJobs : tracked[g][j] # 0} :
       /\ pel' = [e \in Entries |-> IF \E j \in stale : tracked[g][j] = e THEN NoGpu ELSE pel[e]]
       /\ tracked' = [tracked EXCEPT ![g] = [j \in Jobs |-> IF j \in stale THEN 0 ELSE @[j]]]
       /\ answered' = [j \in Jobs |-> IF j \in stale /\ answered[j] = "none"
                                      THEN "timeout" ELSE answered[j]]
  /\ ReaderAt(g, "pending", {}, 0)
  /\ UNCHANGED <<added, queue, delivered, execVars, handler, contVars, toolVars>>

\* ReadPending; an empty list leads to the blocking read.
ReadPending(g) ==
  /\ reader[g].pc = "pending"
  /\ FreshBatches => handler[g].pc \notin {"untrack", "ack"}
  /\ LET batch == {e \in Entries : pel[e] = g} IN
       ReaderAt(g, IF batch = {} THEN "block" ELSE "save", batch, 0)
  /\ UNCHANGED <<queueVars, answered, tracked, execVars, handler, contVars, toolVars>>

ReadNew(g) ==
  /\ reader[g].pc = "block"
  /\ delivered < added
  /\ delivered' = delivered + 1
  /\ pel' = [pel EXCEPT ![delivered + 1] = g]
  /\ ReaderAt(g, "save", {delivered + 1}, 0)
  /\ UNCHANGED <<added, queue, answered, tracked, execVars, handler, contVars, toolVars>>

ReadTimeout(g) ==
  /\ reader[g].pc = "block"
  /\ delivered = added
  /\ ReaderAt(g, "top", {}, 0)
  /\ UNCHANGED <<queueVars, answered, tracked, execVars, handler, contVars, toolVars>>

\* dispatchToWorker saves the context of every entry of the batch, before it
\* knows whether the entry will be sent.
SaveJobContext(g) ==
  /\ reader[g].pc = "save"
  /\ \E e \in Entries :
       /\ IsFirst(e, reader[g].todo)
       /\ jobContexts' = [jobContexts EXCEPT ![queue[e].job] = queue[e].history]
       /\ ReaderAt(g, "assign", reader[g].todo \ {e}, e)
  /\ UNCHANGED <<queueVars, answered, tracked, execVars, handler, pendingConts,
                 conts, toolVars>>

\* Mutant: only the free slot is checked.
AssignJobAgain(g) ==
  /\ reader[g].pc = "assign"
  /\ LET e == reader[g].entry
         j == queue[e].job IN
       IF HasCapacity(g)
       THEN /\ tracked' = [tracked EXCEPT ![g][j] = e]
            /\ ReaderAt(g, "send", reader[g].todo, e)
       ELSE NextEntry(g) /\ UNCHANGED tracked
  /\ UNCHANGED <<queueVars, answered, execVars, handler, contVars, toolVars>>

\* assignJob refuses a job in flight and a worker without a free slot.
AssignJob(g) ==
  /\ reader[g].pc = "assign"
  /\ LET e == reader[g].entry
         j == queue[e].job IN
       IF tracked[g][j] = 0 /\ HasCapacity(g)
       THEN /\ tracked' = [tracked EXCEPT ![g][j] = e]
            /\ ReaderAt(g, "send", reader[g].todo, e)
       ELSE NextEntry(g) /\ UNCHANGED tracked
  /\ UNCHANGED <<queueVars, answered, execVars, handler, contVars, toolVars>>

SendJob(g) ==
  /\ reader[g].pc = "send"
  /\ sends < MaxSends
  /\ sends' = sends + 1
  /\ sent' = [sent EXCEPT ![sends + 1] = reader[g].entry]
  /\ running' = [running EXCEPT ![g] = @ \cup {sends + 1}]
  /\ NextEntry(g)
  /\ UNCHANGED <<queueVars, answered, tracked, handler, contVars, toolVars>>

ReaderStep(g) ==
  \/ ExpireStaleJobs(g) \/ ReadPending(g) \/ ReadNew(g) \/ ReadTimeout(g)
  \/ SaveJobContext(g) \/ AssignJob(g) \/ SendJob(g)

-----------------------------------------------------------------------------
(* The message loop of a GPU connection.                                   *)

\* A completion arrives: completeJob frees the slot and returns the entry.
ReceiveComplete(g, x, calls) ==
  /\ handler[g].pc = "idle"
  /\ x \in running[g]
  /\ FreshBatches => ~InBatch(g, sent[x])
  /\ calls # {} => Len(HistoryOf(x)) < MaxRounds
  /\ LET entry == tracked[g][JobOf(x)]
         next  == IF calls = {} THEN "publish" ELSE "start" IN
       /\ running' = [running EXCEPT ![g] = @ \ {x}]
       /\ tracked' = [tracked EXCEPT ![g][JobOf(x)] = 0]
       /\ handler' = [handler EXCEPT ![g] =
            [pc |-> IF entry = 0 THEN next ELSE "ack", exec |-> x, entry |-> entry,
             calls |-> calls, next |-> next, tool |-> NoTool]]
  /\ UNCHANGED <<queueVars, answered, reader, sends, sent, contVars, toolVars>>

\* An error arrives: handleWorkerError publishes first.
ReceiveError(g, x) ==
  /\ handler[g].pc = "idle"
  /\ x \in running[g]
  /\ FreshBatches => ~InBatch(g, sent[x])
  /\ running' = [running EXCEPT ![g] = @ \ {x}]
  /\ Publish(JobOf(x), "error")
  /\ handler' = [handler EXCEPT ![g] =
       [pc |-> "untrack", exec |-> x, entry |-> 0, calls |-> {}, next |-> "idle",
        tool |-> NoTool]]
  /\ UNCHANGED <<queueVars, tracked, reader, sends, sent, contVars, toolVars>>

\* The worker's own AUXOT_JOB_TIMEOUT ends an execution: nothing is sent.
EndsInSilence(g, x) ==
  /\ x \in running[g]
  /\ JobOf(x) \in SlowJobs
  /\ running' = [running EXCEPT ![g] = @ \ {x}]
  /\ UNCHANGED <<queueVars, answered, tracked, reader, sends, sent, handler, contVars,
                 toolVars>>

UntrackJob(g) ==
  /\ handler[g].pc = "untrack"
  /\ LET j == JobOf(handler[g].exec) IN
       /\ handler' = [handler EXCEPT ![g] =
            IF tracked[g][j] = 0 THEN IdleHandler
            ELSE [@ EXCEPT !.pc = "ack", !.entry = tracked[g][j]]]
       /\ tracked' = [tracked EXCEPT ![g][j] = 0]
  /\ UNCHANGED <<queueVars, answered, reader, execVars, contVars, toolVars>>

\* Ack; its two commands are told apart in Dispatch.
AckJob(g) ==
  /\ handler[g].pc = "ack"
  /\ pel' = [pel EXCEPT ![handler[g].entry] = NoGpu]
  /\ HandlerGoes(g, handler[g].next)
  /\ UNCHANGED <<added, queue, delivered, answered, tracked, reader, execVars,
                 contVars, toolVars>>

\* Mutant: the missing context is not noticed.
StartWithoutContext(g) ==
  /\ handler[g].pc = "start"
  /\ LET x == handler[g].exec
         j == JobOf(x) IN
       /\ \E t \in Registered : handler' = [handler EXCEPT ![g].pc = "send", ![g].tool = t]
       /\ conts' = [conts EXCEPT ![x] =
            [phase |-> "open", history |-> jobContexts[j], calls |-> handler[g].calls,
             got |-> {}, remaining |-> Cardinality(handler[g].calls)]]
       /\ pendingConts' = [pendingConts EXCEPT ![j] = x]
  /\ UNCHANGED <<queueVars, answered, tracked, reader, execVars, jobContexts, toolVars>>

\* StartContinuation up to the dispatch of the calls: the saved context, the
\* tools worker, the tracker, which replaces one the job may still have.
StartContinuation(g) ==
  /\ handler[g].pc = "start"
  /\ LET x == handler[g].exec
         j == JobOf(x) IN
       /\ jobContexts[j] # NoContext
       /\ \E t \in Registered : handler' = [handler EXCEPT ![g].pc = "send", ![g].tool = t]
       /\ conts' = [conts EXCEPT ![x] =
            [phase |-> "open", history |-> jobContexts[j], calls |-> handler[g].calls,
             got |-> {}, remaining |-> Cardinality(handler[g].calls)]]
       /\ pendingConts' = [pendingConts EXCEPT ![j] = x]
  /\ UNCHANGED <<queueVars, answered, tracked, reader, execVars, jobContexts, toolVars>>

\* It returns false, and the caller gets the tool calls as the completion: there
\* is no saved context, or no tools worker, or none that names one of the tools
\* called; which tools a worker names is left open.
PassThrough(g) ==
  /\ handler[g].pc = "start"
  /\ HandlerGoes(g, "publish")
  /\ UNCHANGED <<queueVars, answered, tracked, reader, execVars, contVars, toolVars>>

\* A call goes out: to the worker, or into a connection that is already dead.
SendToolJob(g, c) ==
  /\ handler[g].pc = "send"
  /\ c \in handler[g].calls
  /\ toolJobs' = IF IsDead(handler[g].tool) THEN toolJobs
                 ELSE [toolJobs EXCEPT ![handler[g].tool] = @ \cup {<<handler[g].exec, c>>}]
  /\ NextCall(g, c)
  /\ UNCHANGED <<queueVars, answered, tracked, reader, execVars, contVars, links, toolLoop>>

\* The write fails: the call has its result at once (lookup and record, which
\* ToolResult and ToolRecord tell apart, in one step).
SendToolJobFails(g, c) ==
  /\ handler[g].pc = "send"
  /\ c \in handler[g].calls
  /\ IsDead(handler[g].tool)
  /\ RecordResult(pendingConts[JobOf(handler[g].exec)], handler[g].exec, c)
  /\ NextCall(g, c)
  /\ UNCHANGED <<queueVars, answered, tracked, reader, execVars, jobContexts, toolVars>>

\* The final completion.
PublishDone(g) ==
  /\ handler[g].pc = "publish"
  /\ Publish(JobOf(handler[g].exec), "done")
  /\ HandlerGoes(g, "forget")
  /\ UNCHANGED <<queueVars, tracked, reader, execVars, contVars, toolVars>>

DeleteJobContext(g) ==
  /\ handler[g].pc = "forget"
  /\ jobContexts' = [jobContexts EXCEPT ![JobOf(handler[g].exec)] = NoContext]
  /\ HandlerGoes(g, "idle")
  /\ UNCHANGED <<queueVars, answered, tracked, reader, execVars, pendingConts, conts,
                 toolVars>>

HandlerStep(g) ==
  \/ UntrackJob(g) \/ AckJob(g) \/ StartContinuation(g) \/ PassThrough(g)
  \/ PublishDone(g) \/ DeleteJobContext(g)
  \/ \E c \in Calls : SendToolJob(g, c) \/ SendToolJobFails(g, c)

-----------------------------------------------------------------------------
(* continueLLMRound: the context first, then the queue.                    *)

\* Mutant: the saved conversation is left out.
NextHistoryBare(x) == <<x>>

NextHistory(x) == Append(conts[x].history, x)

UpdateJobContext(x) ==
  /\ conts[x].phase = "save"
  /\ jobContexts' = [jobContexts EXCEPT ![JobOf(x)] = NextHistory(x)]
  /\ conts' = [conts EXCEPT ![x].phase = "enqueue"]
  /\ UNCHANGED <<queueVars, answered, tracked, reader, execVars, handler, pendingConts,
                 toolVars>>

\* Mutant: an XADD whose reply is late is tried once more.
RequeueAgain(x) ==
  /\ conts[x].phase = "enqueue"
  /\ AddEntry(JobOf(x), NextHistory(x))
  /\ conts' \in {conts, [conts EXCEPT ![x].phase = "over"]}
  /\ UNCHANGED <<answered, tracked, reader, execVars, handler, jobContexts, pendingConts,
                 toolVars>>

Requeue(x) ==
  /\ conts[x].phase = "enqueue"
  /\ AddEntry(JobOf(x), NextHistory(x))
  /\ conts' = [conts EXCEPT ![x].phase = "over"]
  /\ UNCHANGED <<answered, tracked, reader, execVars, handler, jobContexts, pendingConts,
                 toolVars>>

\* Mutant: the error is logged and nothing else.
RequeueFailsSilently(x) ==
  /\ conts[x].phase = "enqueue"
  /\ conts' = [conts EXCEPT ![x].phase = "over"]
  /\ UNCHANGED <<queueVars, answered, tracked, reader, execVars, handler, jobContexts,
                 pendingConts, toolVars>>

\* The XADD fails: the caller is told.
RequeueFails(x) ==
  /\ conts[x].phase = "enqueue"
  /\ Publish(JobOf(x), "error")
  /\ conts' = [conts EXCEPT ![x].phase = "over"]
  /\ UNCHANGED <<queueVars, tracked, reader, execVars, handler, jobContexts, pendingConts,
                 toolVars>>

NextRound(x) == UpdateJobContext(x) \/ Requeue(x) \/ RequeueFails(x)

-----------------------------------------------------------------------------
(* Tools workers.                                                          *)

ToolsConnect(t) ==
  /\ links[t] = "off"
  /\ links' = [links EXCEPT ![t] = "up"]
  /\ UNCHANGED <<queueVars, answered, tracked, reader, execVars, handler, contVars,
                 toolJobs, toolLoop>>

\* The connection fails; the process may fail with it or live on.
ToolsBreak(t) ==
  /\ links[t] = "up"
  /\ links' = [links EXCEPT ![t] = "broken"]
  /\ toolJobs' \in {toolJobs, [toolJobs EXCEPT ![t] = {}]}
  /\ UNCHANGED <<queueVars, answered, tracked, reader, execVars, handler, contVars, toolLoop>>

\* cleanupToolsWorker: failPendingToolJobs only logs.
ToolsCleanup(t) ==
  /\ links[t] = "broken"
  /\ toolLoop[t] = IdleLoop
  /\ links' = [links EXCEPT ![t] = "off"]
  /\ handler' = [g \in Gpus |-> [handler[g] EXCEPT !.tool = IF handler[g].tool = t THEN NoTool ELSE @]]
  /\ UNCHANGED <<queueVars, answered, tracked, reader, execVars, contVars, toolJobs,
                 toolLoop>>

\* Mutant: the worker sends a result again that has arrived.
ToolResultTwice(t, x, c) ==
  /\ links[t] = "up"
  /\ toolLoop[t] = IdleLoop
  /\ <<x, c>> \in toolJobs[t]
  /\ toolJobs' \in {toolJobs, [toolJobs EXCEPT ![t] = @ \ {<<x, c>>}]}
  /\ toolLoop' = [toolLoop EXCEPT ![t] =
       [exec |-> x, call |-> c, found |-> pendingConts[JobOf(x)]]]
  /\ UNCHANGED <<queueVars, answered, tracked, reader, execVars, handler, contVars, links>>

\* A result arrives; recordToolResult looks its continuation up.
ToolResult(t, x, c) ==
  /\ links[t] = "up"
  /\ toolLoop[t] = IdleLoop
  /\ <<x, c>> \in toolJobs[t]
  /\ toolJobs' = [toolJobs EXCEPT ![t] = @ \ {<<x, c>>}]
  /\ toolLoop' = [toolLoop EXCEPT ![t] =
       [exec |-> x, call |-> c, found |-> pendingConts[JobOf(x)]]]
  /\ UNCHANGED <<queueVars, answered, tracked, reader, execVars, handler, contVars, links>>

\* ... and records the result under the lock of what it found.
ToolRecord(t) ==
  /\ toolLoop[t].exec # 0
  /\ RecordResult(toolLoop[t].found, toolLoop[t].exec, toolLoop[t].call)
  /\ toolLoop' = [toolLoop EXCEPT ![t] = IdleLoop]
  /\ UNCHANGED <<queueVars, answered, tracked, reader, execVars, handler, jobContexts,
                 links, toolJobs>>

\* A tool that ends while there is no connection: both attempts to send fail.
ToolResultLost(t, x, c) ==
  /\ links[t] # "up"
  /\ <<x, c>> \in toolJobs[t]
  /\ toolJobs' = [toolJobs EXCEPT ![t] = @ \ {<<x, c>>}]
  /\ UNCHANGED <<queueVars, answered, tracked, reader, execVars, handler, contVars,
                 links, toolLoop>>

-----------------------------------------------------------------------------
Next ==
  \/ \E j \in Jobs : Submit(j)
  \/ \E g \in Gpus :
       \/ ReaderStep(g) \/ HandlerStep(g)
       \/ \E x \in Execs :
            \/ ReceiveError(g, x) \/ EndsInSilence(g, x)
            \/ \E calls \in SUBSET Calls : ReceiveComplete(g, x, calls)
  \/ \E x \in Execs : NextRound(x)
  \/ \E t \in Tools :
       \/ ToolsConnect(t) \/ ToolsBreak(t) \/ ToolsCleanup(t) \/ ToolRecord(t)
       \/ \E x \in Execs, c \in Calls : ToolResult(t, x, c) \/ ToolResultLost(t, x, c)

Spec == Init /\ [][Next]_vars

-----------------------------------------------------------------------------
(* What must hold.                                                         *)

TypeOK ==
  /\ added \in 0 .. MaxEntries
  /\ queue \in [Entries -> [job : Jobs \cup {0}, history : Seq(Execs)]]
  /\ delivered \in 0 .. added
  /\ pel \in [Entries -> Gpus \cup {NoGpu}]
  /\ answered \in [Jobs -> {"none", "done", "error", "timeout"}]
  /\ tracked \in [Gpus -> [Jobs -> Entries \cup {0}]]
  /\ reader \in [Gpus -> [pc : ReaderPCs, todo : SUBSET Entries, entry : Entries \cup {0}]]
  /\ sends \in 0 .. MaxSends
  /\ sent \in [Execs -> Entries \cup {0}]
  /\ running \in [Gpus -> SUBSET Execs]
  /\ handler \in [Gpus -> [pc : HandlerPCs, exec : Execs \cup {0}, entry : Entries \cup {0},
                           calls : SUBSET Calls, next : {"idle", "start", "publish"},
                           tool : Tools \cup {NoTool}]]
  /\ jobContexts \in [Jobs -> Seq(Execs) \cup {NoContext}]
  /\ pendingConts \in [Jobs -> Execs \cup {0}]
  /\ conts \in [Execs -> [phase : Phases, history : Seq(Execs), calls : SUBSET Calls,
                          got : SUBSET Calls, remaining : 0 .. Cardinality(Calls)]]
  /\ links \in [Tools -> {"off", "up", "broken"}]
  /\ toolJobs \in [Tools -> SUBSET (Execs \X Calls)]
  /\ toolLoop \in [Tools -> [exec : Execs \cup {0}, call : Calls \cup {0},
                             found : Execs \cup {0}]]

\* The defensive branch of continueLLMRound is dead code: a round is continued
\* only when every one of its calls has its result.
RoundIsWhole ==
  \A x \in Execs : conts[x].phase \in {"save", "enqueue", "over"} =>
    conts[x].got = conts[x].calls

\* No execution is continued twice: the results of its calls feed one entry.
LastOf(history) == history[Len(history)]
ContinuedOnce ==
  \A d, e \in 1 .. added :
    queue[d].history # <<>> /\ queue[e].history # <<>> =>
      /\ LastOf(queue[d].history) = LastOf(queue[e].history) => d = e
      /\ conts[LastOf(queue[e].history)].phase = "over"

\* Where a job can be.
Queued(j)     == {e \in 1 .. added : /\ queue[e].job = j
                                     /\ e > delivered \/ pel[e] # NoGpu
                                     /\ \A x \in 1 .. sends : sent[x] # e}
ExecsOf(j)    == {x \in 1 .. sends : JobOf(x) = j}
Running(j)    == {x \in ExecsOf(j) : \E g \in Gpus : x \in running[g]}
Completing(j) == {x \in ExecsOf(j) : \E g \in Gpus :
                    /\ handler[g].exec = x
                    /\ \/ handler[g].pc \in {"start", "publish"}
                       \/ handler[g].pc = "ack" /\ handler[g].next # "idle"}
Calling(j)    == {x \in ExecsOf(j) : conts[x].phase \in {"open", "save", "enqueue"}}

\* A caller who waits is not forgotten: his job is in the queue, in the hands
\* of the router, or in flight on a worker that it would time out.
InFlight(j) == \E g \in Gpus : tracked[g][j] # 0
NoRoundLost ==
  \A j \in Jobs : (\E e \in 1 .. added : queue[e].job = j) /\ answered[j] = "none" =>
    InFlight(j) \/ Queued(j) \cup Completing(j) \cup Calling(j) # {}

\* With fresh batches a job is at one place at a time, and at none once its
\* last round is published: one conversation, one round after the other.
OnePlace(j) ==
  /\ Cardinality(Queued(j)) + Cardinality(Running(j)) + Cardinality(Completing(j))
       + Cardinality(Calling(j)) <= 1
  /\ answered[j] = "done" => Queued(j) \cup Running(j) \cup Calling(j) = {}
OneRoundAtATime == FreshBatches => \A j \in Jobs : OnePlace(j)

\* An entry of a later round carries what the round before was given and what
\* that said, in this order.
Follows(e) ==
  queue[e].history # <<>> =>
    LET x == LastOf(queue[e].history) IN
      JobOf(x) = queue[e].job /\ queue[e].history = Append(HistoryOf(x), x)

\* With fresh batches nothing is missing from a conversation and nothing is in
\* it twice, although the two copies travel apart, in the queue and in
\* jobContexts.
HistoryMatches == FreshBatches => \A e \in 1 .. added : Follows(e)

\* A call nobody will answer any more: its worker took it along.
CallGone(x, c) ==
  /\ conts[x].phase = "open"
  /\ c \in conts[x].calls \ conts[x].got
  /\ \A t \in Tools : <<x, c>> \notin toolJobs[t] /\ ~(toolLoop[t].exec = x /\ toolLoop[t].call = c)
  /\ \A g \in Gpus : ~(handler[g].exec = x /\ c \in handler[g].calls)
Stranded(j) == \E x \in ExecsOf(j), c \in Calls : CallGone(x, c)

\* Every job is answered in the end, unless a tools worker takes a call along.
EveryJobAnswered ==
  \A j \in Jobs : (\E e \in 1 .. added : queue[e].job = j) ~> answered[j] # "none" \/ Stranded(j)

\* failPendingToolJobs: pending continuations time out via the job timeout on
\* the GPU side.
ContinuationEnds ==
  \A j \in Jobs : pendingConts[j] # 0 ~> pendingConts[j] = 0 \/ answered[j] # "none"
=============================================================================
