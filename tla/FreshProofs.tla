----------------------------- MODULE FreshProofs -----------------------------
(***************************************************************************)
(* Proofs about Continuation under the timing FreshBatches: a job is at    *)
(* one place at a time, and its conversation is whole.                     *)
(*                                                                         *)
(* An entry of the queue is one round of a conversation.  It is live from  *)
(* the XADD until its execution is answered or followed by the next entry, *)
(* and a job has one live entry at most.                                   *)
(***************************************************************************)
EXTENDS ContinuationProofs

USE SlotsAssumption, BoundsAssumption, NamesAssumption

Unsent(e) ==
  /\ e > delivered \/ pel[e] # NoGpu
  /\ \A x \in Sent : sent[x] # e
Runs(x)      == \E g \in Gpus : x \in running[g]
Completes(x) ==
  \E g \in Gpus : /\ handler[g].exec = x
                  /\ \/ handler[g].pc \in {"start", "publish"}
                     \/ handler[g].pc = "ack" /\ handler[g].next # "idle"
Active(x) == Runs(x) \/ Completes(x) \/ conts[x].phase \in {"open", "save", "enqueue"}
Live(e)   == Unsent(e) \/ \E x \in Sent : sent[x] = e /\ Active(x)
Empty(j)  == \A e \in 1 .. added : queue[e].job = j => ~Live(e)

SentOnce == \A x, y \in Sent : sent[x] = sent[y] => x = y
OneLive  == \A d, e \in 1 .. added : queue[d].job = queue[e].job /\ Live(d) /\ Live(e) => d = e

\* A job whose answer is published, or about to be given up, has no live entry.
DoneIsOver ==
  \A j \in Jobs : answered[j] = "done" => Empty(j) /\ \E e \in 1 .. added : queue[e].job = j
Ends(g) ==
  handler[g].pc \in {"untrack", "forget"} \/ (handler[g].pc = "ack" /\ handler[g].next = "idle")
EndsEmpty == \A g \in Gpus : Ends(g) => Empty(JobOf(handler[g].exec))
PublishAlone ==
  \A g \in Gpus : handler[g].pc = "publish" => conts[handler[g].exec].phase = "none"

\* What the reader works through, and what is tracked, is in the pending list.
BatchPending(g) ==
  /\ reader[g].pc \notin {"save", "assign", "send"} => reader[g].todo = {}
  /\ reader[g].pc \notin {"assign", "send"} => reader[g].entry = 0
  /\ \A e \in Entries : InBatch(g, e) => pel[e] = g
TrackedPending(g) == \A j \in Jobs : tracked[g][j] # 0 => pel[tracked[g][j]] = g

\* A pending entry is to be sent, or runs under its job's entry, or its execution
\* ended without a completion and only the books still hold the job, or it is on
\* the way to its acknowledgement.
Accounted(g, e) ==
  \/ Unsent(e)
  \/ \E x \in running[g] : sent[x] = e /\ tracked[g][queue[e].job] = e
  \/ Empty(queue[e].job) /\ tracked[g][queue[e].job] = e
  \/ handler[g].pc = "ack" /\ handler[g].entry = e
PendingAccounted(g) == \A e \in Entries : pel[e] = g => Accounted(g, e)

\* A job in flight is tracked under the entry that was sent, until it expires.
RunsUnder(g) == \A x \in running[g] : tracked[g][JobOf(x)] \in {0, sent[x]}
UntracksUnder(g) ==
  handler[g].pc = "untrack" =>
    /\ tracked[g][JobOf(handler[g].exec)] \in {0, sent[handler[g].exec]}
    /\ ~InBatch(g, sent[handler[g].exec]) /\ handler[g].next = "idle"
AcksOwn(g) ==
  handler[g].pc = "ack" =>
    /\ handler[g].entry = sent[handler[g].exec] /\ tracked[g][JobOf(handler[g].exec)] = 0
    /\ pel[handler[g].entry] = g /\ ~InBatch(g, handler[g].entry)
SendsUnsent(g) ==
  reader[g].pc = "send" =>
    Unsent(reader[g].entry) /\ tracked[g][queue[reader[g].entry].job] = reader[g].entry
FlightTracked(g) == RunsUnder(g) /\ UntracksUnder(g) /\ AcksOwn(g) /\ SendsUnsent(g)

\* The context saved for a job is that of its live entry.
RunsContext(g)    == \A x \in running[g] : jobContexts[JobOf(x)] = HistoryOf(x)
HandlerContext(g) ==
  handler[g].pc = "start" \/ (handler[g].pc = "ack" /\ handler[g].next = "start") =>
    jobContexts[JobOf(handler[g].exec)] = HistoryOf(handler[g].exec)
ReaderContext(g)  ==
  reader[g].pc \in {"assign", "send"} /\ Unsent(reader[g].entry) =>
    jobContexts[queue[reader[g].entry].job] = queue[reader[g].entry].history
ContextsMatch(g)  == RunsContext(g) /\ HandlerContext(g) /\ ReaderContext(g)
ContsMatch ==
  \A x \in Execs : conts[x].phase \in {"open", "save", "enqueue"} => conts[x].history = HistoryOf(x)
HistoriesMatch ==
  \A e \in 1 .. added : queue[e].history # <<>> =>
    \E x \in Sent : /\ JobOf(x) = queue[e].job
                    /\ queue[e].history = Append(HistoryOf(x), x)

Alone    == SentOnce /\ OneLive /\ DoneIsOver /\ EndsEmpty /\ PublishAlone
OrderAt(g) ==
  BatchPending(g) /\ TrackedPending(g) /\ PendingAccounted(g) /\ FlightTracked(g)
InOrder  == \A g \in Gpus : OrderAt(g)
Contexts == (\A g \in Gpus : ContextsMatch(g)) /\ ContsMatch /\ HistoriesMatch
FreshInv == Alone /\ InOrder /\ Contexts

-----------------------------------------------------------------------------
(* What lives.                                                             *)

\* What is delivered is pending where it was, or nowhere.
LEMMA PelMoves ==
  ASSUME BaseInv, Next
  PROVE  \A e \in Readable : pel'[e] \in {pel[e], NoGpu}
<1>0. BaseType /\ Readable \subseteq Entries
  <2>1. added \in 0 .. MaxEntries /\ delivered \in 0 .. added
    BY DEF BaseInv, BaseType
  <2> QED  BY <2>1 DEF BaseInv, Readable, Entries
<1>1. ASSUME NEW g \in Gpus, ReaderStep(g) PROVE \A e \in Readable : pel'[e] \in {pel[e], NoGpu}
  <2>1. CASE ReadNew(g)
    BY <1>0, <2>1 DEF ReadNew, BaseType, Readable
  <2>2. CASE ExpireStaleJobs(g)
    BY <1>0, <2>2 DEF ExpireStaleJobs
  <2>3. CASE UNCHANGED pel
    BY <2>3
  <2> QED  BY <1>1, <2>1, <2>2, <2>3 DEF ReaderStep, ReadPending, ReadTimeout, SaveJobContext,
                                         AssignJob, SendJob, queueVars
<1>2. ASSUME NEW g \in Gpus, HandlerStep(g) PROVE \A e \in Readable : pel'[e] \in {pel[e], NoGpu}
  <2>1. CASE AckJob(g)
    BY <1>0, <2>1 DEF AckJob, BaseType
  <2>2. CASE UNCHANGED pel
    BY <2>2
  <2> QED  BY <1>2, <2>1, <2>2 DEF HandlerStep, UntrackJob, StartContinuation, PassThrough, PublishDone,
                                   DeleteJobContext, SendToolJob, SendToolJobFails, queueVars
<1>3. ASSUME NEW g \in Gpus, NEW x \in Execs, NEW calls \in SUBSET Calls,
             ReceiveError(g, x) \/ EndsInSilence(g, x) \/ ReceiveComplete(g, x, calls)
      PROVE  UNCHANGED pel
  BY <1>3 DEF ReceiveError, EndsInSilence, ReceiveComplete, queueVars
<1>4. ASSUME NEW x \in Execs, NextRound(x) PROVE UNCHANGED pel
  BY <1>4 DEF NextRound, UpdateJobContext, Requeue, AddEntry, RequeueFails, queueVars
<1>5. ASSUME NEW t \in Tools, ToolsStep(t) PROVE UNCHANGED pel
  BY <1>5 DEF ToolsStep, ToolsConnect, ToolsBreak, ToolsCleanup, ToolRecord, ToolResult,
              ToolResultLost, queueVars
<1>6. ASSUME NEW j \in Jobs, Submit(j) PROVE UNCHANGED pel
  BY <1>6 DEF Submit, AddEntry
<1> QED
  BY <1>1, <1>2, <1>3, <1>4, <1>5, <1>6 DEF Next, ToolsStep

\* An execution begins with SendJob and runs where it was sent.
LEMMA ExecMoves ==
  ASSUME BaseInv, Next
  PROVE  /\ \A x \in Sent, g \in Gpus : x \in running'[g] => x \in running[g]
         /\ \/ sends' = sends /\ sent' = sent
            \/ \E g \in Gpus : /\ SendJob(g) /\ sends' = sends + 1
                               /\ sent'[sends'] = reader[g].entry
<1>0. BaseType
  BY DEF BaseInv
<1>1. ASSUME NEW g \in Gpus, SendJob(g)
      PROVE  /\ sends' = sends + 1 /\ sent'[sends'] = reader[g].entry
             /\ \A x \in Sent, h \in Gpus : x \in running'[h] => x \in running[h]
  <2>1. sends' = sends + 1 /\ sends' \in Execs /\ sends' \notin Sent
    BY <1>0, <1>1 DEF SendJob, BaseType, Execs, Sent
  <2>2. \A h \in Gpus : running'[h] \subseteq running[h] \cup {sends'}
    BY <1>0, <1>1, <2>1 DEF SendJob, BaseType
  <2> QED  BY <1>0, <1>1, <2>1, <2>2 DEF SendJob, BaseType
<1>2. ASSUME NEW g \in Gpus, ReaderStep(g), ~SendJob(g)
      PROVE  UNCHANGED <<sends, sent, running>>
  BY <1>2 DEF ReaderStep, ExpireStaleJobs, ReadPending, ReadNew, ReadTimeout, SaveJobContext,
              AssignJob, execVars
<1>3. ASSUME NEW g \in Gpus, NEW x \in Execs, NEW calls \in SUBSET Calls,
             ReceiveError(g, x) \/ EndsInSilence(g, x) \/ ReceiveComplete(g, x, calls)
      PROVE  sends' = sends /\ sent' = sent /\ \A h \in Gpus : running'[h] \subseteq running[h]
  <2>1. sends' = sends /\ sent' = sent /\ running' = [running EXCEPT ![g] = @ \ {x}]
    BY <1>3 DEF ReceiveError, EndsInSilence, ReceiveComplete
  <2> QED  BY <1>0, <2>1 DEF BaseType
<1>4. ASSUME NEW g \in Gpus, HandlerStep(g) PROVE UNCHANGED <<sends, sent, running>>
  BY <1>4 DEF HandlerStep, UntrackJob, AckJob, StartContinuation, PassThrough, PublishDone,
              DeleteJobContext, SendToolJob, SendToolJobFails, execVars
<1>5. ASSUME NEW x \in Execs, NextRound(x) PROVE UNCHANGED <<sends, sent, running>>
  BY <1>5 DEF NextRound, UpdateJobContext, Requeue, RequeueFails, execVars
<1>6. ASSUME NEW t \in Tools, ToolsStep(t) PROVE UNCHANGED <<sends, sent, running>>
  BY <1>6 DEF ToolsStep, ToolsConnect, ToolsBreak, ToolsCleanup, ToolRecord, ToolResult,
              ToolResultLost, execVars
<1>7. ASSUME NEW j \in Jobs, Submit(j) PROVE UNCHANGED <<sends, sent, running>>
  BY <1>7 DEF Submit, execVars
<1> QED
  BY <1>1, <1>2, <1>3, <1>4, <1>5, <1>6, <1>7 DEF Next, ToolsStep

\* Where a message loop can be after a step.
SameWork(g) ==
  /\ handler'[g].pc = handler[g].pc /\ handler'[g].exec = handler[g].exec
  /\ handler'[g].entry = handler[g].entry /\ handler'[g].next = handler[g].next
GoesIdle(g) ==
  /\ handler'[g].pc = "idle" /\ handler'[g].exec = 0
  /\ \/ handler[g].pc \in {"untrack", "send", "forget"}
     \/ handler[g].pc = "ack" /\ handler[g].next = "idle"
GoesOn(g) ==
  /\ handler'[g].exec = handler[g].exec /\ handler'[g].next = handler[g].next
  /\ \/ handler[g].pc = "untrack" /\ handler'[g].pc = "ack"
     \/ /\ handler[g].pc = "ack" /\ handler[g].next # "idle"
        /\ handler'[g].pc = handler[g].next
     \/ handler[g].pc = "start" /\ handler'[g].pc \in {"send", "publish"}
     \/ handler[g].pc = "publish" /\ handler'[g].pc = "forget" /\ PublishDone(g)
Starts(g) ==
  /\ handler[g].pc = "idle" /\ handler'[g].exec \in running[g]
  /\ \/ /\ handler'[g].pc = "untrack" /\ handler'[g].next = "idle"
        /\ \E x \in Execs : ReceiveError(g, x) /\ handler'[g].exec = x
     \/ /\ handler'[g].pc \in {"ack", handler'[g].next}
        /\ handler'[g].next \in {"start", "publish"}
HandlerMoves(g) == SameWork(g) \/ GoesIdle(g) \/ GoesOn(g) \/ Starts(g)

LEMMA ReceiveMoves ==
  ASSUME BaseType, NEW g \in Gpus, NEW x \in Execs, NEW calls \in SUBSET Calls,
         ReceiveError(g, x) \/ EndsInSilence(g, x) \/ ReceiveComplete(g, x, calls)
  PROVE  \A h \in Gpus : HandlerMoves(h)
<1>1. CASE ReceiveError(g, x)
  <2>1. /\ handler[g].pc = "idle" /\ x \in running[g]
        /\ handler'[g].exec = x /\ handler'[g].pc = "untrack" /\ handler'[g].next = "idle"
        /\ \A h \in Gpus : h # g => handler'[h] = handler[h]
    BY <1>1 DEF ReceiveError, BaseType
  <2> QED  BY <1>1, <2>1 DEF HandlerMoves, SameWork, Starts
<1>2. CASE ReceiveComplete(g, x, calls)
  <2>1. PICK next : next = IF calls = {} THEN "publish" ELSE "start"
    OBVIOUS
  <2>2. /\ handler[g].pc = "idle" /\ x \in running[g]
        /\ handler'[g].exec = x /\ handler'[g].pc \in {"ack", next} /\ handler'[g].next = next
        /\ \A h \in Gpus : h # g => handler'[h] = handler[h]
    BY <1>2, <2>1 DEF ReceiveComplete, BaseType
  <2> QED  BY <2>1, <2>2 DEF HandlerMoves, SameWork, Starts
<1>3. CASE EndsInSilence(g, x)
  BY <1>3 DEF EndsInSilence, HandlerMoves, SameWork
<1> QED
  BY <1>1, <1>2, <1>3

LEMMA LoopMoves ==
  ASSUME BaseInv, NEW g \in Gpus, HandlerStep(g)
  PROVE  \A h \in Gpus : HandlerMoves(h)
<1>0. BaseType
  BY DEF BaseInv
<1>1. ASSUME NEW pc \in HandlerPCs, HandlerGoes(g, pc),
             pc = "idle" => \/ handler[g].pc \in {"untrack", "send", "forget"}
                            \/ handler[g].pc = "ack" /\ handler[g].next = "idle",
             pc # "idle" => \/ handler[g].pc = "ack" /\ pc = handler[g].next
                            \/ handler[g].pc = "start" /\ pc \in {"send", "publish"}
                            \/ handler[g].pc = "publish" /\ pc = "forget" /\ PublishDone(g)
      PROVE  \A h \in Gpus : HandlerMoves(h)
  <2>1. \A h \in Gpus : h # g => handler'[h] = handler[h]
    BY <1>0, <1>1, GoesEffect
  <2>2. pc = "idle" => handler'[g] = IdleHandler
    BY <1>0, <1>1, GoesEffect
  <2>3. pc # "idle" => /\ handler'[g].pc = pc /\ handler'[g].exec = handler[g].exec
                       /\ handler'[g].next = handler[g].next
    BY <1>0, <1>1, GoesEffect
  <2>4. pc = "idle" => GoesIdle(g)
    BY <1>1, <2>2 DEF GoesIdle, IdleHandler
  <2>5. pc # "idle" => GoesOn(g)
    BY <1>1, <2>3 DEF GoesOn
  <2> QED  BY <2>1, <2>4, <2>5 DEF HandlerMoves, SameWork
<1>2. CASE UntrackJob(g)
  <2>1. PICK e : e = tracked[g][JobOf(handler[g].exec)]
    OBVIOUS
  <2>2. /\ \A h \in Gpus : h # g => handler'[h] = handler[h]
        /\ e = 0 => handler'[g] = IdleHandler
        /\ e # 0 => /\ handler'[g].pc = "ack" /\ handler'[g].exec = handler[g].exec
                    /\ handler'[g].next = handler[g].next
    BY <1>0, <1>2, <2>1, UntrackEffect
  <2>3. GoesIdle(g) \/ GoesOn(g)
    BY <1>2, <2>2 DEF UntrackJob, GoesIdle, GoesOn, IdleHandler
  <2> QED  BY <2>2, <2>3 DEF HandlerMoves, SameWork
<1>3. CASE AckJob(g)
  <2>1. PICK pc : pc = handler[g].next
    OBVIOUS
  <2>2. pc \in HandlerPCs /\ HandlerGoes(g, pc) /\ handler[g].pc = "ack"
    BY <1>0, <1>3, <2>1 DEF AckJob, BaseType, HandlerPCs
  <2> QED  BY <1>1, <2>1, <2>2
<1>4. CASE StartContinuation(g)
  <2>1. handler[g].pc = "start"
    BY <1>4 DEF StartContinuation
  <2>2. /\ handler'[g].pc = "send" /\ handler'[g].exec = handler[g].exec
        /\ handler'[g].next = handler[g].next
        /\ \A h \in Gpus : h # g => handler'[h] = handler[h]
    BY <1>0, <1>4 DEF StartContinuation, BaseType
  <2> QED  BY <2>1, <2>2 DEF HandlerMoves, SameWork, GoesOn
<1>5. CASE PassThrough(g)
  <2>1. handler[g].pc = "start" /\ HandlerGoes(g, "publish") /\ "publish" \in HandlerPCs
    BY <1>5 DEF PassThrough, HandlerPCs
  <2> QED  BY <1>1, <2>1
<1>6. CASE PublishDone(g)
  <2>1. handler[g].pc = "publish" /\ HandlerGoes(g, "forget") /\ "forget" \in HandlerPCs
    BY <1>6 DEF PublishDone, HandlerPCs
  <2> QED  BY <1>1, <1>6, <2>1
<1>7. CASE DeleteJobContext(g)
  <2>1. handler[g].pc = "forget" /\ HandlerGoes(g, "idle") /\ "idle" \in HandlerPCs
    BY <1>7 DEF DeleteJobContext, HandlerPCs
  <2> QED  BY <1>1, <2>1
<1>8. ASSUME NEW c \in Calls, SendToolJob(g, c) \/ SendToolJobFails(g, c)
      PROVE  \A h \in Gpus : HandlerMoves(h)
  <2>1. handler[g].pc = "send" /\ NextCall(g, c)
    BY <1>8 DEF SendToolJob, SendToolJobFails
  <2>2. /\ \A h \in Gpus : h # g => handler'[h] = handler[h]
        /\ \/ handler'[g] = IdleHandler
           \/ /\ handler'[g].pc = handler[g].pc /\ handler'[g].exec = handler[g].exec
              /\ handler'[g].entry = handler[g].entry /\ handler'[g].next = handler[g].next
    BY <1>0, <2>1 DEF NextCall, BaseType
  <2>3. GoesIdle(g) \/ SameWork(g)
    BY <2>1, <2>2 DEF GoesIdle, SameWork, IdleHandler
  <2> QED  BY <2>2, <2>3 DEF HandlerMoves, SameWork
<1> QED
  BY <1>2, <1>3, <1>4, <1>5, <1>6, <1>7, <1>8 DEF HandlerStep

LEMMA HandlersMove ==
  ASSUME BaseInv, Next
  PROVE  \A h \in Gpus : HandlerMoves(h)
<1>0. BaseType
  BY DEF BaseInv
<1>1. ASSUME UNCHANGED handler PROVE \A h \in Gpus : HandlerMoves(h)
  BY <1>1 DEF HandlerMoves, SameWork
<1>2. ASSUME NEW g \in Gpus, ReaderStep(g) PROVE UNCHANGED handler
  BY <1>2 DEF ReaderStep, ExpireStaleJobs, ReadPending, ReadNew, ReadTimeout, SaveJobContext,
              AssignJob, SendJob
<1>3. ASSUME NEW x \in Execs, NextRound(x) PROVE UNCHANGED handler
  BY <1>3 DEF NextRound, UpdateJobContext, Requeue, RequeueFails
<1>4. ASSUME NEW t \in Tools, ToolsStep(t) PROVE \A h \in Gpus : HandlerMoves(h)
  <2>1. CASE ToolsCleanup(t)
    BY <1>0, <2>1 DEF ToolsCleanup, BaseType, HandlerMoves, SameWork
  <2>2. CASE UNCHANGED handler
    BY <1>1, <2>2
  <2> QED  BY <1>4, <2>1, <2>2 DEF ToolsStep, ToolsConnect, ToolsBreak, ToolRecord, ToolResult,
                                   ToolResultLost
<1>5. ASSUME NEW j \in Jobs, Submit(j) PROVE UNCHANGED handler
  BY <1>5 DEF Submit
<1> QED
  BY <1>0, <1>1, <1>2, <1>3, <1>4, <1>5, LoopMoves, ReceiveMoves DEF Next, ToolsStep

\* Only StartContinuation opens a continuation.
LEMMA OpensBy ==
  ASSUME BaseInv, RoundInv, Next, NEW x \in Execs, conts[x].phase = "none", conts'[x].phase # "none"
  PROVE  \E g \in Gpus : StartContinuation(g) /\ handler[g].exec = x
<1>0. BaseType /\ CallsMissing
  BY DEF BaseInv, RoundInv
<1>1. ASSUME NEW found, NEW y \in Execs, NEW c \in Calls, Missing(y, c), RecordResult(found, y, c)
      PROVE  FALSE
  <2>1. x # y
    BY <1>1 DEF Missing
  <2> QED  BY <1>0, <1>1, <2>1, RecordFrame
<1>2. ASSUME UNCHANGED conts PROVE FALSE
  BY <1>2
<1>3. ASSUME NEW g \in Gpus, HandlerStep(g)
      PROVE  StartContinuation(g) /\ handler[g].exec = x
  <2>1. handler[g].pc # "idle" => handler[g].exec \in Execs
    BY <1>0 DEF BaseInv, BaseType, Existing, HandlerExists
  <2>2. CASE StartContinuation(g)
    <3>1. handler[g].exec # x => conts'[x] = conts[x]
      BY <1>0, <2>2 DEF StartContinuation, BaseType
    <3> QED  BY <2>2, <3>1
  <2>3. ASSUME NEW c \in Calls, SendToolJobFails(g, c) PROVE FALSE
    <3>1. PICK y \in Execs : y = handler[g].exec
      BY <2>1, <2>3 DEF SendToolJobFails
    <3>2. Missing(y, c) /\ RecordResult(pendingConts[JobOf(y)], y, c)
      BY <1>0, <2>3, <3>1 DEF SendToolJobFails, CallsMissing, OnItsWay, AtHandler
    <3> QED  BY <1>1, <3>2
  <2> QED  BY <1>2, <1>3, <2>2, <2>3 DEF HandlerStep, UntrackJob, AckJob, PassThrough, PublishDone,
                                         DeleteJobContext, SendToolJob, contVars
<1>4. ASSUME NEW y \in Execs, NextRound(y) PROVE FALSE
  <2>1. conts[y].phase \in {"save", "enqueue"} /\ (x # y => conts'[x] = conts[x])
    BY <1>0, <1>4 DEF NextRound, UpdateJobContext, Requeue, RequeueFails, BaseType
  <2> QED  BY <2>1
<1>5. ASSUME NEW t \in Tools, ToolsStep(t) PROVE FALSE
  <2>1. CASE ToolRecord(t)
    <3>1. PICK y, c : y = toolLoop[t].exec /\ c = toolLoop[t].call
      OBVIOUS
    <3>2. y \in Execs /\ c \in Calls
      BY <1>0, <2>1, <3>1 DEF ToolRecord, BaseInv, Existing, LoopExists, BaseType
    <3>3. Missing(y, c)
      BY <1>0, <3>1, <3>2 DEF CallsMissing, OnItsWay, AtLoop
    <3>4. RecordResult(toolLoop[t].found, y, c)
      BY <2>1, <3>1 DEF ToolRecord
    <3> QED  BY <1>1, <3>2, <3>3, <3>4
  <2> QED  BY <1>2, <1>5, <2>1 DEF ToolsStep, ToolsConnect, ToolsBreak, ToolsCleanup, ToolResult,
                                   ToolResultLost, contVars
<1>6. ASSUME NEW g \in Gpus, ReaderStep(g) PROVE FALSE
  <2>1. UNCHANGED conts
    BY <1>6 DEF ReaderStep, ExpireStaleJobs, ReadPending, ReadNew, ReadTimeout, SaveJobContext,
                AssignJob, SendJob, contVars
  <2> QED  BY <1>2, <2>1
<1>7. ASSUME NEW g \in Gpus, NEW y \in Execs, NEW calls \in SUBSET Calls,
             ReceiveError(g, y) \/ EndsInSilence(g, y) \/ ReceiveComplete(g, y, calls)
      PROVE  FALSE
  BY <1>2, <1>7 DEF ReceiveError, EndsInSilence, ReceiveComplete, contVars
<1>8. ASSUME NEW j \in Jobs, Submit(j) PROVE FALSE
  BY <1>2, <1>8 DEF Submit, contVars
<1> QED
  BY <1>3, <1>4, <1>5, <1>6, <1>7, <1>8 DEF Next, ToolsStep

\* What runs, completes or waits for results did so before, or ran.
LEMMA ActiveBefore ==
  ASSUME BaseInv, RoundInv, FreshInv, Next, NEW x \in Sent, Active(x)'
  PROVE  Active(x)
<1>0. x \in Execs /\ x # 0 /\ BaseType
  BY DEF BaseInv, BaseType, Sent, Execs
<1>1. CASE Runs(x)'
  BY <1>1, ExecMoves DEF Runs, Active
<1>2. CASE Completes(x)'
  <2>1. PICK g \in Gpus : /\ handler'[g].exec = x
                          /\ \/ handler'[g].pc \in {"start", "publish"}
                             \/ handler'[g].pc = "ack" /\ handler'[g].next # "idle"
    BY <1>2 DEF Completes
  <2>2. handler[g].pc = "untrack" => handler[g].next = "idle"
    BY DEF FreshInv, InOrder, OrderAt, FlightTracked, UntracksUnder
  <2>3. CASE SameWork(g)
    BY <2>1, <2>3 DEF SameWork, Completes, Active
  <2>4. CASE GoesIdle(g)
    BY <1>0, <2>1, <2>4 DEF GoesIdle
  <2>5. CASE GoesOn(g)
    BY <2>1, <2>2, <2>5 DEF GoesOn, Completes, Active
  <2>6. CASE Starts(g)
    BY <2>1, <2>6 DEF Starts, Runs, Active
  <2> QED  BY <2>3, <2>4, <2>5, <2>6, HandlersMove DEF HandlerMoves
<1>3. CASE (conts[x].phase \in {"open", "save", "enqueue"})'
  <2>1. CASE conts[x].phase = "none"
    <3>1. PICK g \in Gpus : StartContinuation(g) /\ handler[g].exec = x
      BY <1>0, <1>3, <2>1, OpensBy
    <3> QED  BY <3>1 DEF StartContinuation, Completes, Active
  <2>2. CASE conts[x].phase # "none"
    <3>1. Moves(x) /\ conts[x].phase \in Phases
      BY <1>0, RoundMoves DEF BaseType
    <3> QED  BY <1>3, <2>2, <3>1 DEF Moves, Phases, Active
  <2> QED  BY <2>1, <2>2
<1> QED
  BY <1>1, <1>2, <1>3 DEF Active

LEMMA UnsentBefore ==
  ASSUME BaseInv, BaseInv', Next, NEW e \in 1 .. added, Unsent(e)'
  PROVE  Unsent(e)
<1>1. Grows /\ \A d \in Readable : pel'[d] \in {pel[d], NoGpu}
  BY Growing, PelMoves
<1>2. /\ added \in Nat /\ delivered \in Nat /\ delivered' \in Nat
      /\ sends \in Nat /\ sends' \in Nat
  BY DEF BaseInv, BaseType
<1>3. e > delivered \/ pel[e] # NoGpu
  <2>1. e > delivered \/ e \in Readable
    BY <1>2 DEF Readable
  <2> QED  BY <1>1, <1>2, <2>1 DEF Unsent, Grows
<1>4. \A x \in Sent : x \in Sent' /\ sent'[x] = sent[x]
  BY <1>1, <1>2 DEF Grows, Sent
<1> QED
  BY <1>3, <1>4 DEF Unsent

\* An entry comes to life when it is added, and never again.
LEMMA LiveBefore ==
  ASSUME BaseInv, BaseInv', RoundInv, FreshInv, Next, NEW e \in 1 .. added, Live(e)'
  PROVE  Live(e)
<1>0. Grows /\ sends \in Nat
  BY Growing DEF BaseInv, BaseType
<1>1. CASE Unsent(e)'
  BY <1>1, UnsentBefore DEF Live
<1>2. ASSUME NEW x \in Sent', (sent[x] = e /\ Active(x))' PROVE Live(e)
  <2>1. CASE x \in Sent
    <3>1. Active(x)
      BY <1>2, <2>1, ActiveBefore
    <3> QED  BY <1>0, <1>2, <2>1, <3>1 DEF Live, Grows
  <2>2. CASE x \notin Sent
    <3>1. sends' # sends
      BY <2>2 DEF Sent
    <3>2. PICK g \in Gpus : /\ SendJob(g) /\ sends' = sends + 1
                            /\ sent'[sends'] = reader[g].entry
      BY <3>1, ExecMoves
    <3>3. x = sends'
      BY <1>0, <2>2, <3>2 DEF Sent
    <3>4. Unsent(e)
      BY <1>2, <3>2, <3>3 DEF SendJob, FreshInv, InOrder, OrderAt, FlightTracked, SendsUnsent
    <3> QED  BY <3>4 DEF Live
  <2> QED  BY <2>1, <2>2
<1> QED
  BY <1>1, <1>2 DEF Live

\* An execution and its entry are of one job.
LEMMA SentIs ==
  ASSUME BaseInv, NEW x \in Sent
  PROVE  /\ x \in Execs /\ x # 0 /\ sent[x] \in 1 .. added /\ sent[x] \in Entries
         /\ JobOf(x) \in Jobs /\ queue[sent[x]].job = JobOf(x)
<1>1. /\ added \in 0 .. MaxEntries /\ delivered \in 0 .. added /\ sends \in 0 .. MaxSends
      /\ QueueExists /\ SentExists
  BY DEF BaseInv, BaseType, Existing
<1>2. x \in Execs /\ x # 0
  BY <1>1 DEF Sent, Execs
<1>3. sent[x] \in 1 .. added /\ sent[x] \in Entries
  BY <1>1 DEF SentExists, Readable, Entries
<1> QED
  BY <1>1, <1>2, <1>3 DEF JobOf, QueueExists

LEMMA OneOfJob ==
  ASSUME BaseInv, FreshInv, NEW x \in Sent, Active(x), NEW e \in 1 .. added, Live(e),
         queue[e].job = JobOf(x)
  PROVE  e = sent[x]
<1>1. Live(sent[x])
  BY DEF Live
<1> QED
  BY <1>1, SentIs DEF FreshInv, Alone, OneLive

LEMMA OnceKept ==
  ASSUME BaseInv, BaseInv', FreshInv, Next
  PROVE  SentOnce'
<1>0. Grows /\ sends \in Nat /\ SentOnce
  BY Growing DEF BaseInv, BaseType, FreshInv, Alone
<1>1. CASE sends' = sends /\ sent' = sent
  BY <1>0, <1>1 DEF SentOnce, Sent
<1>2. ASSUME NEW g \in Gpus, SendJob(g), sends' = sends + 1, sent'[sends'] = reader[g].entry
      PROVE  SentOnce'
  <2>1. \A x \in Sent : sent[x] # reader[g].entry
    BY <1>2 DEF SendJob, FreshInv, InOrder, OrderAt, FlightTracked, SendsUnsent, Unsent
  <2>2. \A x \in Sent' : x = sends' \/ (x \in Sent /\ sent'[x] = sent[x])
    BY <1>0, <1>2 DEF Sent, Grows
  <2> QED  BY <1>0, <1>2, <2>1, <2>2 DEF SentOnce
<1> QED
  BY <1>1, <1>2, ExecMoves

LEMMA RequeueDies ==
  ASSUME BaseInv, RoundInv, FreshInv, NEW x \in Sent, Requeue(x)
  PROVE  Active(x) /\ ~Active(x)'
<1>0. x \in Execs /\ BaseType /\ ExecAlone
  BY SentIs DEF BaseInv, RoundInv
<1>1. conts[x].phase = "enqueue" /\ conts'[x].phase = "over" /\ UNCHANGED <<running, handler>>
  BY <1>0 DEF Requeue, BaseType, execVars
<1>2. ~Runs(x)'
  BY <1>0, <1>1 DEF Runs, ExecAlone
<1>3. ~Completes(x)'
  <2>1. \A g \in Gpus : handler[g].exec = x => handler[g].pc \notin {"ack", "start", "publish"}
    BY <1>0, <1>1 DEF ExecAlone, Early, FreshInv, Alone, PublishAlone
  <2> QED  BY <1>1, <2>1 DEF Completes
<1> QED
  BY <1>1, <1>2, <1>3 DEF Active

LEMMA ErrorDies ==
  ASSUME BaseInv, RoundInv, NEW g \in Gpus, NEW x \in Execs, ReceiveError(g, x)
  PROVE  Active(x) /\ ~Active(x)'
<1>0. BaseType /\ ExecAlone
  BY DEF BaseInv, RoundInv
<1>1. /\ x \in running[g] /\ conts' = conts /\ running' = [running EXCEPT ![g] = @ \ {x}]
      /\ handler'[g].pc = "untrack" /\ \A h \in Gpus : h # g => handler'[h] = handler[h]
  BY <1>0 DEF ReceiveError, contVars, BaseType
<1>2. conts[x].phase = "none" /\ \A h \in Gpus : handler[h].exec # x /\ (x \in running[h] => h = g)
  BY <1>0, <1>1 DEF ExecAlone
<1>3. ~Runs(x)'
  BY <1>0, <1>1, <1>2 DEF Runs, BaseType
<1>4. ~Completes(x)'
  BY <1>1, <1>2 DEF Completes
<1> QED
  BY <1>1, <1>2, <1>3, <1>4 DEF Active, Runs

LEMMA PublishDies ==
  ASSUME BaseInv, RoundInv, FreshInv, NEW g \in Gpus, PublishDone(g)
  PROVE  /\ handler[g].exec \in Sent /\ handler'[g].exec = handler[g].exec
         /\ \A x \in Sent : x = handler[g].exec => Active(x) /\ ~Active(x)'
<1>0. BaseType /\ ExecAlone
  BY DEF BaseInv, RoundInv
<1>1. PICK x : x = handler[g].exec
  OBVIOUS
<1>2. handler[g].pc = "publish" /\ x \in Sent /\ conts[x].phase = "none"
  BY <1>1 DEF PublishDone, BaseInv, Existing, HandlerExists, FreshInv, Alone, PublishAlone
<1>3. x \in Execs
  BY <1>2, SentIs
<1>4. /\ UNCHANGED <<conts, running>> /\ handler'[g].pc = "forget" /\ handler'[g].exec = x
      /\ \A h \in Gpus : h # g => handler'[h] = handler[h]
  BY <1>0, <1>1, GoesEffect DEF PublishDone, contVars, execVars, HandlerPCs
<1>5. ~Runs(x)'
  BY <1>0, <1>1, <1>3, <1>4 DEF Runs, ExecAlone
<1>6. ~Completes(x)'
  BY <1>0, <1>1, <1>3, <1>4 DEF Completes, ExecAlone
<1>7. Active(x)
  BY <1>1, <1>2 DEF Active, Completes
<1> QED
  BY <1>1, <1>2, <1>4, <1>5, <1>6, <1>7 DEF Active

\* When the one active execution of a job dies, its entry does ...
LEMMA EntryDies ==
  ASSUME BaseInv, BaseInv', RoundInv, FreshInv, Next, NEW x \in Sent, Active(x), ~Active(x)'
  PROVE  \A e \in 1 .. added : queue[e].job = JobOf(x) => ~Live(e)'
<1> SUFFICES ASSUME NEW e \in 1 .. added, queue[e].job = JobOf(x), Live(e)'
             PROVE  FALSE
  OBVIOUS
<1>1. e = sent[x]
  BY LiveBefore, OneOfJob
<1>2. SentOnce' /\ x \in Sent' /\ sent'[x] = e
  BY <1>1, OnceKept, Growing, JobsKept DEF Grows, BaseInv
<1>3. ~Unsent(e)'
  BY <1>2 DEF Unsent
<1>4. PICK y \in Sent' : (sent[y] = e /\ Active(y))'
  BY <1>3 DEF Live
<1>5. y = x
  BY <1>2, <1>4 DEF SentOnce
<1> QED
  BY <1>4, <1>5

\* ... and the job is at no place, unless the next entry follows.
LEMMA DiesEmpty ==
  ASSUME BaseInv, BaseInv', RoundInv, FreshInv, Next, NEW x \in Sent, Active(x), ~Active(x)',
         added' = added, queue' = queue, NEW j, j = JobOf(x)
  PROVE  Empty(j)'
BY EntryDies DEF Empty

\* A job without a live entry gets none.
LEMMA EmptyKept ==
  ASSUME BaseInv, BaseInv', RoundInv, FreshInv, Next, NEW j \in Jobs, Empty(j),
         \E e \in 1 .. added : queue[e].job = j
  PROVE  Empty(j)' /\ \E e \in 1 .. added' : queue'[e].job = j
<1>0. Grows /\ added \in Nat /\ added' \in Nat
  BY Growing DEF BaseInv, BaseType
<1>1. \A e \in 1 .. added : e \in 1 .. added' /\ queue'[e].job = queue[e].job /\ (Live(e)' => Live(e))
  BY <1>0, LiveBefore DEF Grows
<1>2. CASE added' = added
  BY <1>1, <1>2 DEF Empty
<1>3. ASSUME added' = added + 1, queue'[added'].job # j PROVE Empty(j)'
  <2>1. \A e \in 1 .. added' : e = added' \/ e \in 1 .. added
    BY <1>0, <1>3
  <2> QED  BY <1>1, <1>3, <2>1 DEF Empty
<1>4. ASSUME NEW i \in Jobs, Submit(i), added' = added + 1, queue'[added'].job = i PROVE Empty(j)'
  <2>1. i # j
    BY <1>4 DEF Submit
  <2> QED  BY <1>3, <1>4, <2>1
<1>5. ASSUME NEW x \in Execs, Requeue(x), added' = added + 1, queue'[added'].job = JobOf(x)
      PROVE  Empty(j)'
  <2>1. x \in Sent
    BY <1>5 DEF Requeue, BaseInv, Existing, ContsExist
  <2>2. Live(sent[x])
    BY <1>5, <2>1 DEF Live, Active, Requeue
  <2>3. JobOf(x) # j
    BY <2>1, <2>2, SentIs DEF Empty
  <2> QED  BY <1>3, <1>5, <2>3
<1> QED
  BY <1>1, <1>2, <1>4, <1>5, NewEntries

\* A job comes to life in one place.
LEMMA OneLiveKept ==
  ASSUME BaseInv, BaseInv', RoundInv, FreshInv, Next
  PROVE  OneLive'
<1>0. Grows /\ added \in Nat /\ added' \in Nat /\ OneLive
  BY Growing DEF BaseInv, BaseType, FreshInv, Alone
<1>1. \A e \in 1 .. added : queue'[e].job = queue[e].job /\ (Live(e)' => Live(e))
  BY <1>0, LiveBefore DEF Grows
<1>2. CASE added' = added
  BY <1>0, <1>1, <1>2 DEF OneLive
<1>3. ASSUME added' = added + 1,
             \A e \in 1 .. added : queue[e].job = queue'[added'].job => ~Live(e)'
      PROVE  OneLive'
  <2>1. \A e \in 1 .. added' : e = added' \/ e \in 1 .. added
    BY <1>0, <1>3
  <2> QED  BY <1>0, <1>1, <1>3, <2>1 DEF OneLive
<1>4. ASSUME NEW i \in Jobs, Submit(i), added' = added + 1, queue'[added'].job = i PROVE OneLive'
  BY <1>3, <1>4 DEF Submit
<1>5. ASSUME NEW x \in Execs, Requeue(x), added' = added + 1, queue'[added'].job = JobOf(x)
      PROVE  OneLive'
  <2>1. x \in Sent
    BY <1>5 DEF Requeue, BaseInv, Existing, ContsExist
  <2>2. \A e \in 1 .. added : queue[e].job = JobOf(x) => ~Live(e)'
    BY <1>5, <2>1, RequeueDies, EntryDies
  <2> QED  BY <1>3, <1>5, <2>2
<1> QED
  BY <1>2, <1>4, <1>5, NewEntries

\* Only PublishDone ends a conversation well.
LEMMA DoneBy ==
  ASSUME BaseInv, Next, NEW j \in Jobs, answered'[j] = "done", answered[j] # "done"
  PROVE  \E g \in Gpus : PublishDone(g) /\ JobOf(handler[g].exec) = j
<1>0. BaseType
  BY DEF BaseInv
<1>1. ASSUME UNCHANGED answered PROVE FALSE
  BY <1>1
<1>2. ASSUME NEW i, Publish(i, "error") PROVE FALSE
  <2>1. answered'[j] \in {answered[j], "error"}
    BY <1>0, <1>2 DEF Publish, BaseType
  <2> QED  BY <2>1
<1>3. ASSUME NEW g \in Gpus, ReaderStep(g) PROVE FALSE
  <2>1. CASE ExpireStaleJobs(g)
    <3>1. answered'[j] \in {answered[j], "timeout"}
      BY <2>1 DEF ExpireStaleJobs
    <3> QED  BY <3>1
  <2> QED  BY <1>1, <1>3, <2>1 DEF ReaderStep, ReadPending, ReadNew, ReadTimeout, SaveJobContext,
                                   AssignJob, SendJob
<1>4. ASSUME NEW g \in Gpus, HandlerStep(g) PROVE PublishDone(g) /\ JobOf(handler[g].exec) = j
  <2>1. CASE PublishDone(g)
    <3>1. JobOf(handler[g].exec) # j => answered'[j] = answered[j]
      BY <1>0, <2>1 DEF PublishDone, Publish, BaseType
    <3> QED  BY <2>1, <3>1
  <2> QED  BY <1>1, <1>4, <2>1 DEF HandlerStep, UntrackJob, AckJob, StartContinuation, PassThrough,
                                   DeleteJobContext, SendToolJob, SendToolJobFails
<1>5. ASSUME NEW g \in Gpus, NEW x \in Execs, NEW calls \in SUBSET Calls,
             ReceiveError(g, x) \/ EndsInSilence(g, x) \/ ReceiveComplete(g, x, calls)
      PROVE  FALSE
  BY <1>1, <1>2, <1>5 DEF ReceiveError, EndsInSilence, ReceiveComplete
<1>6. ASSUME NEW x \in Execs, NextRound(x) PROVE FALSE
  BY <1>1, <1>2, <1>6 DEF NextRound, UpdateJobContext, Requeue, RequeueFails
<1>7. ASSUME NEW t \in Tools, ToolsStep(t) PROVE FALSE
  BY <1>1, <1>7 DEF ToolsStep, ToolsConnect, ToolsBreak, ToolsCleanup, ToolRecord, ToolResult,
                    ToolResultLost
<1>8. ASSUME NEW i \in Jobs, Submit(i) PROVE FALSE
  BY <1>1, <1>8 DEF Submit
<1> QED
  BY <1>3, <1>4, <1>5, <1>6, <1>7, <1>8 DEF Next, ToolsStep

\* A published conversation is over.
LEMMA PublishEmpties ==
  ASSUME BaseInv, BaseInv', RoundInv, FreshInv, Next, NEW g \in Gpus, PublishDone(g),
         NEW j, j = JobOf(handler[g].exec)
  PROVE  Empty(j)' /\ \E e \in 1 .. added' : queue'[e].job = j
<1>1. PICK x \in Sent : x = handler[g].exec /\ Active(x) /\ ~Active(x)'
  BY PublishDies
<1>2. added' = added /\ queue' = queue
  BY DEF PublishDone, queueVars
<1> QED
  BY <1>1, <1>2, DiesEmpty, SentIs

LEMMA DoneKept ==
  ASSUME BaseInv, BaseInv', RoundInv, FreshInv, Next
  PROVE  DoneIsOver'
<1> SUFFICES ASSUME NEW j \in Jobs, answered'[j] = "done"
             PROVE  Empty(j)' /\ \E e \in 1 .. added' : queue'[e].job = j
  BY DEF DoneIsOver
<1>1. CASE answered[j] = "done"
  BY <1>1, EmptyKept DEF FreshInv, Alone, DoneIsOver
<1>2. CASE answered[j] # "done"
  BY <1>2, DoneBy, PublishEmpties
<1> QED
  BY <1>1, <1>2

\* A message loop ends a job with PublishDone or ReceiveError.
LEMMA EndsBy ==
  ASSUME BaseInv, FreshInv, Next, NEW g \in Gpus, Ends(g)'
  PROVE  \/ Ends(g) /\ handler'[g].exec = handler[g].exec
         \/ PublishDone(g)
         \/ \E x \in Execs : ReceiveError(g, x) /\ handler'[g].exec = x
<1>0. BaseType
  BY DEF BaseInv
<1>1. CASE SameWork(g)
  BY <1>1 DEF SameWork, Ends
<1>2. CASE GoesIdle(g)
  BY <1>2 DEF GoesIdle, Ends
<1>3. CASE GoesOn(g)
  <2>1. CASE handler[g].pc = "untrack"
    BY <1>3, <2>1 DEF GoesOn, Ends
  <2>2. CASE handler[g].pc # "untrack"
    <3>1. handler[g].pc = "ack" => handler[g].next \in {"idle", "start", "publish"}
      BY <1>0 DEF BaseType
    <3> QED  BY <1>3, <2>2, <3>1 DEF GoesOn, Ends
  <2> QED  BY <2>1, <2>2
<1>4. CASE Starts(g)
  BY <1>4 DEF Starts, Ends
<1> QED
  BY <1>1, <1>2, <1>3, <1>4, HandlersMove DEF HandlerMoves

LEMMA EndsKept ==
  ASSUME BaseInv, BaseInv', RoundInv, FreshInv, Next
  PROVE  EndsEmpty'
<1> SUFFICES ASSUME NEW g \in Gpus, Ends(g)' PROVE Empty(JobOf(handler[g].exec))'
  BY DEF EndsEmpty
<1>0. Grows
  BY Growing
<1>1. CASE Ends(g) /\ handler'[g].exec = handler[g].exec
  <2>1. PICK x : x = handler[g].exec
    OBVIOUS
  <2>2. x \in Sent
    BY <1>1, <2>1 DEF Ends, BaseInv, Existing, HandlerExists
  <2>3. PICK j \in Jobs : j = JobOf(x) /\ j = JobOf(x)'
    BY <1>0, <2>2, JobsKept DEF BaseInv
  <2>4. Empty(j) /\ \E e \in 1 .. added : queue[e].job = j
    BY <1>1, <2>1, <2>2, <2>3, SentIs DEF FreshInv, Alone, EndsEmpty
  <2>5. Empty(j)'
    BY <2>4, EmptyKept
  <2> QED  BY <1>1, <2>1, <2>3, <2>5 DEF JobOf, Empty
<1>2. CASE PublishDone(g)
  <2>1. PICK x \in Sent : x = handler[g].exec /\ handler'[g].exec = x
    BY <1>2, PublishDies
  <2>2. PICK j \in Jobs : j = JobOf(x) /\ j = JobOf(x)'
    BY <1>0, <2>1, JobsKept DEF BaseInv
  <2>3. Empty(j)'
    BY <1>2, <2>1, <2>2, PublishEmpties
  <2> QED  BY <2>1, <2>2, <2>3 DEF JobOf, Empty
<1>3. ASSUME NEW x \in Execs, ReceiveError(g, x), handler'[g].exec = x
      PROVE  Empty(JobOf(handler[g].exec))'
  <2>1. x \in Sent
    BY <1>3 DEF ReceiveError, BaseInv, Existing, RunningExists
  <2>2. PICK j \in Jobs : j = JobOf(x) /\ j = JobOf(x)'
    BY <1>0, <2>1, JobsKept DEF BaseInv
  <2>3. added' = added /\ queue' = queue
    BY <1>3 DEF ReceiveError, queueVars
  <2>4. Empty(j)'
    BY <1>3, <2>1, <2>2, <2>3, ErrorDies, DiesEmpty
  <2> QED  BY <1>3, <2>2, <2>4 DEF JobOf, Empty
<1> QED
  BY <1>1, <1>2, <1>3, EndsBy

\* What is about to be published has no continuation.
LEMMA PublishKept ==
  ASSUME BaseInv, BaseInv', RoundInv, FreshInv, Next
  PROVE  PublishAlone'
<1> SUFFICES ASSUME NEW g \in Gpus, handler'[g].pc = "publish",
                    NEW x, x = handler'[g].exec
             PROVE  conts'[x].phase = "none"
  BY DEF PublishAlone
<1>0. BaseType /\ ExecAlone /\ PublishAlone
  BY DEF BaseInv, RoundInv, FreshInv, Alone
<1>1. /\ x \in Execs /\ conts[x].phase = "none"
      /\ \A h \in Gpus : handler[h].exec = x => h = g
  <2>1. CASE SameWork(g)
    <3>1. x = handler[g].exec /\ handler[g].pc = "publish" /\ handler'[g].pc = handler[g].pc
      BY <2>1 DEF SameWork
    <3>2. x \in Execs
      BY <3>1, SentIs DEF BaseInv, Existing, HandlerExists
    <3> QED  BY <1>0, <3>1, <3>2 DEF ExecAlone, PublishAlone
  <2>2. CASE GoesIdle(g)
    BY <2>2 DEF GoesIdle
  <2>3. CASE GoesOn(g)
    <3>1. x = handler[g].exec /\ handler[g].pc \in {"ack", "start"}
      BY <1>0, <2>3 DEF GoesOn, BaseType
    <3>2. x \in Execs
      BY <3>1, SentIs DEF BaseInv, Existing, HandlerExists
    <3> QED  BY <1>0, <2>3, <3>1, <3>2 DEF ExecAlone, Early
  <2>4. CASE Starts(g)
    BY <1>0, <2>4 DEF Starts, ExecAlone, BaseType
  <2> QED  BY <2>1, <2>2, <2>3, <2>4, HandlersMove DEF HandlerMoves
<1>2. ~StartContinuation(g)
  BY <1>0, SendsEffect
<1> QED
  BY <1>1, <1>2, OpensBy

LEMMA AloneKept ==
  ASSUME BaseInv, BaseInv', RoundInv, FreshInv, Next
  PROVE  Alone'
BY OnceKept, OneLiveKept, DoneKept, EndsKept, PublishKept DEF Alone

-----------------------------------------------------------------------------
(* What a reader and a message loop hold is in order.                      *)

\* What a connection holds exists and keeps its job.
LEMMA HeldKept ==
  ASSUME BaseInv, BaseInv', Next, NEW g \in Gpus
  PROVE  /\ \A x \in Sent : /\ x \in Sent' /\ sent'[x] = sent[x] /\ sent[x] \in Readable
                            /\ JobOf(x)' = JobOf(x) /\ JobOf(x) \in Jobs
                            /\ HistoryOf(x)' = HistoryOf(x)
                            /\ queue[sent[x]].job = JobOf(x)
         /\ \A e \in Readable : /\ queue'[e] = queue[e] /\ queue[e].job \in Jobs
                                /\ e \in Entries /\ e # 0
         /\ \A e \in Entries : pel[e] = g => e \in Readable
         /\ running[g] \subseteq Sent
         /\ handler[g].pc # "idle" => handler[g].exec \in Sent
         /\ handler[g].pc = "ack" =>
              handler[g].entry \in Readable /\ queue[handler[g].entry].job = JobOf(handler[g].exec)
<1>1. Grows /\ BaseType /\ BaseType' /\ added \in 0 .. MaxEntries /\ delivered \in 0 .. added
  BY Growing DEF BaseInv, BaseType
<1>2. \A x \in Sent : /\ x \in Sent' /\ sent'[x] = sent[x] /\ sent[x] \in Readable
                      /\ JobOf(x)' = JobOf(x) /\ JobOf(x) \in Jobs
                      /\ HistoryOf(x)' = HistoryOf(x)
  BY <1>1, JobsKept DEF Grows
<1>3. \A e \in Readable : queue'[e] = queue[e] /\ e \in 1 .. added
  BY <1>1, JobsKept
<1>4. \A e \in Readable : queue[e].job \in Jobs /\ e \in Entries /\ e # 0
  <2>1. \A e \in Readable : e \in Entries /\ e # 0
    BY <1>1 DEF Readable, Entries
  <2> QED  BY <1>3, <2>1 DEF BaseInv, Existing, QueueExists
<1>5. \A e \in Entries : pel[e] = g => e \in Readable
  <2>1. \A e \in Entries : e <= delivered => e \in Readable
    BY <1>1 DEF Entries, Readable
  <2> QED  BY <2>1 DEF BaseInv, Existing, PelExists
<1>6. /\ running[g] \subseteq Sent
      /\ handler[g].pc # "idle" => handler[g].exec \in Sent
      /\ handler[g].pc = "ack" =>
           handler[g].entry \in Readable /\ queue[handler[g].entry].job = JobOf(handler[g].exec)
  BY DEF BaseInv, Existing, RunningExists, HandlerExists
<1> QED
  BY <1>2, <1>3, <1>4, <1>5, <1>6 DEF JobOf

\* EmptyKept, as the steps of a connection need it.
StaysEmpty == \A e \in Readable : Empty(queue[e].job) => Empty(queue[e].job)'

LEMMA EmptyStays ==
  ASSUME BaseInv, BaseInv', RoundInv, FreshInv, Next
  PROVE  StaysEmpty
<1> SUFFICES ASSUME NEW e \in Readable, Empty(queue[e].job) PROVE Empty(queue[e].job)'
  BY DEF StaysEmpty
<1>1. Grows /\ e \in 1 .. added
  BY Growing DEF BaseInv, BaseType, Readable
<1>2. PICK j \in Jobs : j = queue[e].job
  BY <1>1 DEF BaseInv, Existing, QueueExists
<1>3. queue'[e].job = j
  BY <1>1, <1>2 DEF Grows
<1>4. Empty(j)'
  BY <1>1, <1>2, EmptyKept
<1> QED
  BY <1>3, <1>4 DEF Empty

\* A step that leaves a connection's work alone.
LEMMA OrderFrame ==
  ASSUME BaseInv, BaseInv', StaysEmpty, Next, NEW g \in Gpus, OrderAt(g),
         tracked'[g] = tracked[g], reader'[g] = reader[g], running'[g] = running[g],
         handler[g].pc \in {"untrack", "ack"} \/ handler'[g].pc \in {"untrack", "ack"} => SameWork(g),
         \A e \in Entries : pel'[e] = g <=> pel[e] = g,
         \A x \in Sent' : x \in Sent \/ pel[sent'[x]] # g
  PROVE  OrderAt(g)'
<1>0. BaseType
  BY DEF BaseInv
<1>1. \A x \in Sent : /\ x \in Sent' /\ sent'[x] = sent[x] /\ sent[x] \in Readable
                      /\ JobOf(x)' = JobOf(x) /\ JobOf(x) \in Jobs
  BY HeldKept
<1>2. /\ \A e \in Readable : queue'[e] = queue[e] /\ queue[e].job \in Jobs /\ e \in Entries
      /\ \A e \in Entries : pel[e] = g => e \in Readable
  BY HeldKept
<1>3. /\ running[g] \subseteq Sent
      /\ handler[g].pc # "idle" => handler[g].exec \in Sent
      /\ handler[g].pc = "ack" => handler[g].entry \in Readable
  BY HeldKept
<1>4. \A e \in Entries : pel[e] = g /\ Unsent(e) => Unsent(e)'
  BY <1>1 DEF Unsent
<1>5. BatchPending(g)'
  BY DEF OrderAt, BatchPending, InBatch
<1>6. TrackedPending(g)'
  BY <1>0 DEF OrderAt, TrackedPending, BaseType
<1>7. PendingAccounted(g)'
  <2> SUFFICES ASSUME NEW e \in Entries, pel'[e] = g PROVE Accounted(g, e)'
    BY DEF PendingAccounted
  <2>1. Accounted(g, e) /\ pel[e] = g /\ queue'[e] = queue[e]
    BY <1>2 DEF OrderAt, PendingAccounted
  <2>2. CASE Unsent(e)
    BY <1>4, <2>1, <2>2 DEF Accounted, StaysEmpty
  <2>3. ASSUME NEW x \in running[g], sent[x] = e /\ tracked[g][queue[e].job] = e PROVE Accounted(g, e)'
    BY <1>1, <1>3, <2>1, <2>3 DEF Accounted, StaysEmpty
  <2>4. CASE handler[g].pc = "ack" /\ handler[g].entry = e
    BY <2>4 DEF Accounted, StaysEmpty, SameWork
  <2>5. CASE Empty(queue[e].job) /\ tracked[g][queue[e].job] = e
    BY <1>2, <2>1, <2>5 DEF Accounted, StaysEmpty
  <2> QED  BY <2>1, <2>2, <2>3, <2>4, <2>5 DEF Accounted, StaysEmpty
<1>8. RunsUnder(g)'
  BY <1>1, <1>3 DEF OrderAt, FlightTracked, RunsUnder
<1>9. UntracksUnder(g)'
  <2> SUFFICES ASSUME handler'[g].pc = "untrack" PROVE UntracksUnder(g)'
    BY DEF UntracksUnder
  <2>1. PICK x \in Sent : x = handler[g].exec /\ x = handler'[g].exec
    BY <1>3 DEF SameWork
  <2>2. tracked[g][JobOf(x)] \in {0, sent[x]} /\ ~InBatch(g, sent[x]) /\ handler[g].next = "idle"
    BY <2>1 DEF OrderAt, FlightTracked, UntracksUnder, SameWork
  <2>3. JobOf(handler[g].exec)' = JobOf(x)
    BY <1>1, <2>1 DEF JobOf
  <2> QED  BY <1>1, <2>1, <2>2, <2>3 DEF UntracksUnder, InBatch, SameWork
<1>10. AcksOwn(g)'
  <2> SUFFICES ASSUME handler'[g].pc = "ack" PROVE AcksOwn(g)'
    BY DEF AcksOwn
  <2>1. PICK x \in Sent : x = handler[g].exec /\ x = handler'[g].exec
    BY <1>3 DEF SameWork
  <2>2. handler'[g].entry = sent[x] /\ tracked[g][JobOf(x)] = 0 /\ pel[sent[x]] = g /\ ~InBatch(g, sent[x])
    BY <2>1 DEF OrderAt, FlightTracked, AcksOwn, SameWork
  <2>3. JobOf(handler[g].exec)' = JobOf(x)
    BY <1>1, <2>1 DEF JobOf
  <2> QED  BY <1>1, <1>2, <2>1, <2>2, <2>3 DEF AcksOwn, InBatch
<1>11. SendsUnsent(g)'
  <2> SUFFICES ASSUME reader[g].pc = "send" PROVE SendsUnsent(g)'
    BY DEF SendsUnsent
  <2>1. PICK e \in Readable : e = reader[g].entry
    BY DEF BaseInv, Existing, ReaderExists
  <2>2. pel[e] = g /\ Unsent(e) /\ tracked[g][queue[e].job] = e
    BY <1>2, <2>1 DEF OrderAt, BatchPending, InBatch, FlightTracked, SendsUnsent
  <2> QED  BY <1>2, <1>4, <2>1, <2>2 DEF SendsUnsent
<1> QED
  BY <1>5, <1>6, <1>7, <1>8, <1>9, <1>10, <1>11 DEF OrderAt, FlightTracked

LEMMA OrderQuiet ==
  ASSUME BaseInv, BaseInv', StaysEmpty, Next, InOrder, UNCHANGED <<tracked, reader, running, pel, sends, sent>>,
         \A h \in Gpus : handler[h].pc \in {"untrack", "ack"} \/ handler'[h].pc \in {"untrack", "ack"}
                           => SameWork(h)
  PROVE  InOrder'
<1>1. \A x \in Sent' : x \in Sent
  BY DEF Sent
<1>2. ASSUME NEW h \in Gpus PROVE OrderAt(h)'
  BY <1>1, OrderFrame DEF InOrder
<1> QED
  BY <1>2 DEF InOrder

\* A connection that is not the one that acts, when only that one's change.
LEMMA OrderOthers ==
  ASSUME BaseInv, BaseInv', StaysEmpty, Next, InOrder, NEW g \in Gpus,
         \A h \in Gpus : h # g => /\ tracked'[h] = tracked[h] /\ reader'[h] = reader[h]
                                  /\ running'[h] = running[h] /\ handler'[h] = handler[h],
         \A e \in Entries : pel'[e] = pel[e] \/ (pel[e] \in {g, NoGpu} /\ pel'[e] \in {g, NoGpu}),
         \A x \in Sent' : x \in Sent \/ pel[sent'[x]] = g
  PROVE  \A h \in Gpus : h # g => OrderAt(h)'
<1> SUFFICES ASSUME NEW h \in Gpus, h # g PROVE OrderAt(h)'
  OBVIOUS
<1>1. OrderAt(h) /\ SameWork(h)
  BY DEF InOrder, SameWork
<1>2. \A e \in Entries : pel'[e] = h <=> pel[e] = h
  OBVIOUS
<1> QED
  BY <1>1, <1>2, OrderFrame

\* The reader goes on with what it has, or reads.
LEMMA OrderReads ==
  ASSUME BaseInv, BaseInv', StaysEmpty, Next, NEW g \in Gpus, OrderAt(g),
         UNCHANGED <<tracked, running, handler, sends, sent>>,
         reader'[g].pc # "send", BatchPending(g)',
         \A e \in Entries : pel[e] = g => pel'[e] = g,
         \A e \in Entries : pel'[e] = g /\ pel[e] # g => Unsent(e)',
         handler[g].pc \in {"untrack", "ack"} => \A e \in Readable : InBatch(g, e)' => InBatch(g, e)
  PROVE  OrderAt(g)'
<1>0. BaseType
  BY DEF BaseInv
<1>1. \A x \in Sent : /\ x \in Sent' /\ sent'[x] = sent[x] /\ sent[x] \in Readable
                      /\ JobOf(x)' = JobOf(x) /\ JobOf(x) \in Jobs
  BY HeldKept
<1>2. /\ \A e \in Readable : queue'[e] = queue[e] /\ queue[e].job \in Jobs /\ e \in Entries
      /\ \A e \in Entries : pel[e] = g => e \in Readable
  BY HeldKept
<1>3. /\ running[g] \subseteq Sent
      /\ handler[g].pc # "idle" => handler[g].exec \in Sent
      /\ handler[g].pc = "ack" => handler[g].entry \in Readable
  BY HeldKept
<1>4. \A e \in Entries : pel[e] = g /\ Unsent(e) => Unsent(e)'
  BY DEF Unsent, Sent
<1>5. TrackedPending(g)'
  BY <1>0 DEF OrderAt, TrackedPending, BaseType
<1>6. PendingAccounted(g)'
  <2> SUFFICES ASSUME NEW e \in Entries, pel'[e] = g, pel[e] = g PROVE Accounted(g, e)'
    BY DEF PendingAccounted, Accounted, StaysEmpty
  <2>1. Accounted(g, e) /\ e \in Readable /\ queue'[e] = queue[e]
    BY <1>2 DEF OrderAt, PendingAccounted
  <2> QED  BY <1>4, <2>1 DEF Accounted, StaysEmpty
<1>7. RunsUnder(g)'
  BY <1>1, <1>3 DEF OrderAt, FlightTracked, RunsUnder
<1>8. UntracksUnder(g)'
  <2> SUFFICES ASSUME handler[g].pc = "untrack" PROVE UntracksUnder(g)'
    BY DEF UntracksUnder
  <2>1. PICK x \in Sent : x = handler[g].exec
    BY <1>3
  <2>2. JobOf(handler[g].exec)' = JobOf(x)
    BY <1>1, <2>1 DEF JobOf
  <2>3. InBatch(g, sent[handler[g].exec])' => InBatch(g, sent[x])
    BY <1>1, <2>1 DEF InBatch
  <2> QED  BY <1>1, <2>1, <2>2, <2>3 DEF UntracksUnder, OrderAt, FlightTracked
<1>9. AcksOwn(g)'
  <2> SUFFICES ASSUME handler[g].pc = "ack" PROVE AcksOwn(g)'
    BY DEF AcksOwn
  <2>1. PICK x \in Sent : x = handler[g].exec
    BY <1>3
  <2>2. JobOf(handler[g].exec)' = JobOf(x)
    BY <1>1, <2>1 DEF JobOf
  <2>3. PICK e \in Readable : e = handler[g].entry
    BY <1>3
  <2>4. InBatch(g, handler[g].entry)' => InBatch(g, e)
    BY <2>3 DEF InBatch
  <2> QED  BY <1>1, <1>2, <2>1, <2>2, <2>3, <2>4 DEF AcksOwn, OrderAt, FlightTracked
<1>10. SendsUnsent(g)'
  BY DEF SendsUnsent
<1> QED
  BY <1>5, <1>6, <1>7, <1>8, <1>9, <1>10 DEF OrderAt, FlightTracked

\* An entry of the batch whose job has a free slot was never sent.
LEMMA BatchUnsent ==
  ASSUME BaseInv, FreshInv, NEW g \in Gpus, NEW e \in Entries, e # 0, InBatch(g, e),
         tracked[g][queue[e].job] = 0
  PROVE  Unsent(e) /\ pel[e] = g
<1>1. pel[e] = g
  BY DEF FreshInv, InOrder, OrderAt, BatchPending
<1>2. Accounted(g, e)
  BY <1>1 DEF FreshInv, InOrder, OrderAt, PendingAccounted
<1>3. ~(handler[g].pc = "ack" /\ handler[g].entry = e)
  BY DEF FreshInv, InOrder, OrderAt, FlightTracked, AcksOwn
<1> QED
  BY <1>1, <1>2, <1>3 DEF Accounted

LEMMA OrderPending ==
  ASSUME BaseInv, BaseInv', StaysEmpty, Next, FreshBatches, NEW g \in Gpus, OrderAt(g), ReadPending(g)
  PROVE  OrderAt(g)'
<1>1. /\ UNCHANGED <<tracked, running, handler, sends, sent, pel>>
      /\ handler[g].pc \notin {"untrack", "ack"}
  BY DEF ReadPending, queueVars, execVars
<1>2. PICK batch : batch = {e \in Entries : pel[e] = g}
  OBVIOUS
<1>3. /\ reader'[g].pc \in {"block", "save"} /\ reader'[g].todo = batch /\ reader'[g].entry = 0
      /\ reader'[g].pc = "block" => batch = {}
  BY <1>2 DEF ReadPending, ReaderAt, BaseInv, BaseType
<1>4. BatchPending(g)'
  BY <1>1, <1>2, <1>3 DEF BatchPending, InBatch, Entries
<1> QED
  BY <1>1, <1>3, <1>4, OrderReads

LEMMA OrderNew ==
  ASSUME BaseInv, BaseInv', StaysEmpty, Next, NEW g \in Gpus, OrderAt(g), ReadNew(g)
  PROVE  OrderAt(g)'
<1>0. BaseType /\ delivered \in Nat /\ SentExists
  BY DEF BaseInv, BaseType, Existing
<1>1. PICK n : n = delivered + 1
  OBVIOUS
<1>2. n \in Entries /\ n \notin Readable /\ n # 0
  <2>1. delivered < added /\ added \in 0 .. MaxEntries
    BY DEF ReadNew, BaseInv, BaseType
  <2> QED  BY <1>0, <1>1, <2>1 DEF Entries, Readable
<1>3. /\ UNCHANGED <<tracked, running, handler, sends, sent>>
      /\ pel'[n] = g /\ \A e \in Entries : e # n => pel'[e] = pel[e]
      /\ reader'[g].pc = "save" /\ reader'[g].todo = {n} /\ reader'[g].entry = 0
  BY <1>0, <1>1, <1>2 DEF ReadNew, ReaderAt, BaseType, execVars
<1>4. BatchPending(g)'
  BY <1>3 DEF BatchPending, InBatch, Entries
<1>5. Unsent(n)'
  BY <1>0, <1>2, <1>3 DEF Unsent, SentExists, Sent
<1>6. \A e \in Readable : ~InBatch(g, e)'
  BY <1>0, <1>2, <1>3 DEF InBatch, Readable
<1> QED
  BY <1>3, <1>4, <1>5, <1>6, OrderReads

\* NextEntry drops the entry in hand.
LEMMA NextEntryEffect ==
  ASSUME BaseType, NEW g \in Gpus, NextEntry(g)
  PROVE  /\ reader'[g].pc \in {"top", "save"} /\ (reader'[g].pc = "top" => reader'[g].todo = {})
         /\ reader'[g].todo = reader[g].todo /\ reader'[g].entry = 0
         /\ \A h \in Gpus : h # g => reader'[h] = reader[h]
BY DEF NextEntry, ReaderAt, BaseType

LEMMA OrderOn ==
  ASSUME BaseInv, BaseInv', StaysEmpty, Next, NEW g \in Gpus, OrderAt(g),
         ReadTimeout(g) \/ SaveJobContext(g) \/ (AssignJob(g) /\ UNCHANGED tracked /\ NextEntry(g))
  PROVE  OrderAt(g)'
<1>0. BaseType
  BY DEF BaseInv
<1>1. UNCHANGED <<tracked, running, handler, sends, sent, pel>>
  BY DEF ReadTimeout, SaveJobContext, AssignJob, queueVars, execVars
<1>2. /\ reader'[g].pc \in {"top", "save", "assign"}
      /\ reader'[g].pc = "top" => reader'[g].todo = {}
      /\ reader'[g].pc # "assign" => reader'[g].entry = 0
      /\ \A e \in Entries : InBatch(g, e)' => InBatch(g, e)
  <2>1. CASE ReadTimeout(g)
    BY <1>0, <2>1 DEF ReadTimeout, ReaderAt, BaseType, InBatch, Entries
  <2>2. CASE SaveJobContext(g)
    BY <1>0, <2>2 DEF SaveJobContext, ReaderAt, BaseType, InBatch, IsFirst
  <2>3. CASE NextEntry(g)
    BY <1>0, <2>3, NextEntryEffect DEF InBatch, Entries
  <2> QED  BY <2>1, <2>2, <2>3
<1>3. BatchPending(g)'
  BY <1>1, <1>2 DEF OrderAt, BatchPending
<1>4. Readable \subseteq Entries
  BY HeldKept
<1> QED
  BY <1>1, <1>2, <1>3, <1>4, OrderReads

\* assignJob takes a slot for an entry that was never sent: whatever of its job
\* is still at work would have another live entry.
LEMMA OrderAssign ==
  ASSUME BaseInv, BaseInv', StaysEmpty, FreshInv, Next, NEW g \in Gpus, AssignJob(g), reader'[g].pc = "send"
  PROVE  OrderAt(g)'
<1>0. BaseType /\ OrderAt(g)
  BY DEF BaseInv, FreshInv, InOrder
<1>1. PICK e \in Readable : e = reader[g].entry
  BY DEF AssignJob, BaseInv, Existing, ReaderExists
<1>2. e \in Entries /\ e # 0 /\ e \in 1 .. added /\ queue'[e] = queue[e]
  BY <1>1, HeldKept, Growing, JobsKept DEF BaseInv
<1>3. PICK j \in Jobs : j = queue[e].job
  BY <1>1, HeldKept
<1>4. /\ reader[g].pc = "assign" /\ tracked[g][j] = 0
      /\ tracked' = [tracked EXCEPT ![g][j] = e]
      /\ ReaderAt(g, "send", reader[g].todo, e)
      /\ UNCHANGED <<queueVars, answered, execVars, handler, contVars, toolVars>>
  <2>1. ~NextEntry(g)
    BY <1>0, NextEntryEffect
  <2> QED  BY <1>1, <1>3, <2>1 DEF AssignJob
<1>5. /\ reader'[g].todo = reader[g].todo /\ reader'[g].entry = e
      /\ tracked'[g][j] = e /\ \A i \in Jobs : i # j => tracked'[g][i] = tracked[g][i]
      /\ UNCHANGED <<pel, delivered, running, sends, sent, handler>>
  BY <1>0, <1>3, <1>4 DEF ReaderAt, BaseType, queueVars, execVars
<1>6. Unsent(e) /\ pel[e] = g /\ Unsent(e)'
  <2>1. InBatch(g, e)
    BY <1>1 DEF InBatch
  <2>2. Unsent(e) /\ pel[e] = g
    BY <1>2, <1>3, <1>4, <2>1, BatchUnsent
  <2> QED  BY <1>5, <2>2 DEF Unsent, Sent
<1>7. \A x \in Sent : Active(x) => JobOf(x) # j
  <2>1. Live(e)
    BY <1>6 DEF Live
  <2> QED  BY <1>2, <1>3, <1>6, <2>1, OneOfJob DEF Unsent
<1>8. /\ \A x \in Sent : /\ x \in Sent' /\ sent'[x] = sent[x] /\ sent[x] \in Readable
                         /\ JobOf(x)' = JobOf(x) /\ JobOf(x) \in Jobs
      /\ \A f \in Readable : queue'[f] = queue[f] /\ queue[f].job \in Jobs /\ f \in Entries
      /\ \A f \in Entries : pel[f] = g => f \in Readable
  BY HeldKept
<1>9. /\ running[g] \subseteq Sent
      /\ handler[g].pc # "idle" => handler[g].exec \in Sent
  BY HeldKept
<1>10. \A f \in Entries : InBatch(g, f)' <=> InBatch(g, f)
  BY <1>1, <1>5 DEF InBatch
<1>11. BatchPending(g)'
  BY <1>0, <1>4, <1>5, <1>10 DEF OrderAt, BatchPending, ReaderAt, BaseType
<1>12. TrackedPending(g)'
  BY <1>0, <1>5, <1>6 DEF OrderAt, TrackedPending
<1>13. PendingAccounted(g)'
  <2> SUFFICES ASSUME NEW f \in Entries, pel[f] = g PROVE Accounted(g, f)'
    BY <1>5 DEF PendingAccounted
  <2>1. Accounted(g, f) /\ queue'[f] = queue[f] /\ f \in Readable /\ f # 0
    BY <1>0, <1>8, HeldKept DEF OrderAt, PendingAccounted
  <2>2. tracked[g][queue[f].job] = f => tracked'[g][queue[f].job] = f
    BY <1>4, <1>5, <1>8, <2>1
  <2>3. Unsent(f) => Unsent(f)'
    BY <1>5 DEF Unsent, Sent
  <2> QED  BY <1>5, <2>1, <2>2, <2>3 DEF Accounted, StaysEmpty
<1>14. RunsUnder(g)'
  <2>1. \A x \in running[g] : JobOf(x) # j
    BY <1>7, <1>9 DEF Active, Runs
  <2> QED  BY <1>0, <1>5, <1>8, <1>9, <2>1 DEF OrderAt, FlightTracked, RunsUnder
<1>15. UntracksUnder(g)'
  <2> SUFFICES ASSUME handler[g].pc = "untrack" PROVE UntracksUnder(g)'
    BY <1>5 DEF UntracksUnder
  <2>1. PICK x \in Sent : x = handler[g].exec
    BY <1>9
  <2>2. JobOf(x) # j
    <3>1. Empty(JobOf(x)) /\ Live(e)
      BY <1>6, <2>1 DEF FreshInv, Alone, EndsEmpty, Ends, Live
    <3> QED  BY <1>2, <1>3, <3>1 DEF Empty
  <2>3. JobOf(handler[g].exec)' = JobOf(x)
    BY <1>5, <1>8, <2>1 DEF JobOf
  <2>4. InBatch(g, sent[handler[g].exec])' => InBatch(g, sent[x])
    BY <1>5, <1>8, <1>10, <2>1 DEF InBatch
  <2> QED  BY <1>0, <1>5, <1>8, <2>1, <2>2, <2>3, <2>4 DEF UntracksUnder, OrderAt, FlightTracked
<1>16. AcksOwn(g)'
  <2> SUFFICES ASSUME handler[g].pc = "ack" PROVE AcksOwn(g)'
    BY <1>5 DEF AcksOwn
  <2>1. PICK x \in Sent : x = handler[g].exec
    BY <1>9
  <2>2. JobOf(x) # j
    <3>1. CASE handler[g].next = "idle"
      <4>1. Empty(JobOf(x)) /\ Live(e)
        BY <1>6, <2>1, <3>1 DEF FreshInv, Alone, EndsEmpty, Ends, Live
      <4> QED  BY <1>2, <1>3, <4>1 DEF Empty
    <3>2. CASE handler[g].next # "idle"
      BY <1>7, <2>1, <3>2 DEF Active, Completes
    <3> QED  BY <3>1, <3>2
  <2>3. JobOf(handler[g].exec)' = JobOf(x)
    BY <1>5, <1>8, <2>1 DEF JobOf
  <2>4. PICK f \in Readable : f = handler[g].entry
    BY HeldKept
  <2>5. InBatch(g, handler[g].entry)' => InBatch(g, f)
    BY <1>5, <1>8, <1>10, <2>4 DEF InBatch
  <2> QED  BY <1>0, <1>5, <1>8, <2>1, <2>2, <2>3, <2>4, <2>5 DEF AcksOwn, OrderAt, FlightTracked
<1>17. SendsUnsent(g)'
  BY <1>2, <1>3, <1>5, <1>6 DEF SendsUnsent
<1> QED
  BY <1>11, <1>12, <1>13, <1>14, <1>15, <1>16, <1>17 DEF OrderAt, FlightTracked

LEMMA OrderSend ==
  ASSUME BaseInv, BaseInv', StaysEmpty, FreshInv, Next, NEW g \in Gpus, SendJob(g)
  PROVE  /\ OrderAt(g)'
         /\ \A x \in Sent' : x \in Sent \/ pel[sent'[x]] = g
<1>0. BaseType /\ OrderAt(g)
  BY DEF BaseInv, FreshInv, InOrder
<1>1. PICK e \in Readable : e = reader[g].entry
  BY DEF SendJob, BaseInv, Existing, ReaderExists
<1>2. PICK n : n = sends + 1
  OBVIOUS
<1>3. n \in Execs /\ n \in Sent' /\ \A x \in Sent' : x \in Sent \/ x = n
  <2>1. sends \in Nat /\ sends < MaxSends /\ sends' = n
    BY <1>0, <1>2 DEF SendJob, BaseType
  <2> QED  BY <1>2, <2>1 DEF Execs, Sent
<1>4. /\ sent'[n] = e /\ running'[g] = running[g] \cup {n}
      /\ UNCHANGED <<pel, delivered, tracked, handler>>
      /\ reader[g].pc = "send"
  BY <1>0, <1>1, <1>2, <1>3 DEF SendJob, BaseType, queueVars
<1>5. /\ reader'[g].pc \in {"top", "save"} /\ (reader'[g].pc = "top" => reader'[g].todo = {})
      /\ reader'[g].todo = reader[g].todo /\ reader'[g].entry = 0
  BY <1>0, NextEntryEffect DEF SendJob
<1>6. /\ \A x \in Sent : /\ x \in Sent' /\ sent'[x] = sent[x] /\ sent[x] \in Readable
                         /\ JobOf(x)' = JobOf(x) /\ JobOf(x) \in Jobs
      /\ \A f \in Readable : /\ queue'[f] = queue[f] /\ queue[f].job \in Jobs
                             /\ f \in Entries /\ f # 0
      /\ \A f \in Entries : pel[f] = g => f \in Readable
  BY HeldKept
<1>7. /\ running[g] \subseteq Sent
      /\ handler[g].pc # "idle" => handler[g].exec \in Sent
      /\ handler[g].pc = "ack" => handler[g].entry \in Readable
  BY HeldKept
<1>8. Unsent(e) /\ tracked[g][queue[e].job] = e /\ pel[e] = g
  BY <1>0, <1>1, <1>4, <1>6 DEF OrderAt, FlightTracked, SendsUnsent, BatchPending, InBatch
<1>9. \A f \in Entries : InBatch(g, f)' => InBatch(g, f)
  BY <1>5 DEF InBatch, Entries
<1>10. BatchPending(g)'
  BY <1>0, <1>4, <1>5, <1>9 DEF OrderAt, BatchPending
<1>11. TrackedPending(g)'
  BY <1>0, <1>4 DEF OrderAt, TrackedPending
<1>12. PendingAccounted(g)'
  <2> SUFFICES ASSUME NEW f \in Entries, pel[f] = g PROVE Accounted(g, f)'
    BY <1>4 DEF PendingAccounted
  <2>1. Accounted(g, f) /\ queue'[f] = queue[f] /\ f \in Readable
    BY <1>0, <1>6 DEF OrderAt, PendingAccounted
  <2>2. CASE f = e
    BY <1>1, <1>4, <1>8, <2>1, <2>2 DEF Accounted, StaysEmpty
  <2>3. CASE f # e
    <3>1. Unsent(f) => Unsent(f)'
      BY <1>3, <1>4, <1>6, <2>3 DEF Unsent
    <3>2. \A x \in running[g] : x \in running'[g] /\ sent'[x] = sent[x]
      BY <1>4, <1>6, <1>7
    <3> QED  BY <1>4, <1>6, <1>7, <2>1, <3>1, <3>2 DEF Accounted, StaysEmpty
  <2> QED  BY <2>2, <2>3
<1>13. RunsUnder(g)'
  <2> SUFFICES ASSUME NEW x \in running'[g] PROVE (tracked[g][JobOf(x)] \in {0, sent[x]})'
    BY DEF RunsUnder
  <2>1. CASE x = n
    BY <1>1, <1>4, <1>6, <1>8, <2>1 DEF JobOf
  <2>2. CASE x \in running[g]
    BY <1>0, <1>4, <1>6, <1>7, <2>2 DEF OrderAt, FlightTracked, RunsUnder
  <2> QED  BY <1>4, <2>1, <2>2
<1>14. UntracksUnder(g)'
  <2> SUFFICES ASSUME handler[g].pc = "untrack" PROVE UntracksUnder(g)'
    BY <1>4 DEF UntracksUnder
  <2>1. PICK x \in Sent : x = handler[g].exec
    BY <1>7
  <2>2. JobOf(handler[g].exec)' = JobOf(x)
    BY <1>4, <1>6, <2>1 DEF JobOf
  <2>3. InBatch(g, sent[handler[g].exec])' => InBatch(g, sent[x])
    BY <1>4, <1>6, <1>9, <2>1 DEF InBatch
  <2> QED  BY <1>0, <1>4, <1>6, <2>1, <2>2, <2>3 DEF UntracksUnder, OrderAt, FlightTracked
<1>15. AcksOwn(g)'
  <2> SUFFICES ASSUME handler[g].pc = "ack" PROVE AcksOwn(g)'
    BY <1>4 DEF AcksOwn
  <2>1. PICK x \in Sent : x = handler[g].exec
    BY <1>7
  <2>2. JobOf(handler[g].exec)' = JobOf(x)
    BY <1>4, <1>6, <2>1 DEF JobOf
  <2>3. PICK f \in Readable : f = handler[g].entry
    BY <1>7
  <2>4. InBatch(g, handler[g].entry)' => InBatch(g, f)
    BY <1>4, <1>6, <1>9, <2>3 DEF InBatch
  <2> QED  BY <1>0, <1>4, <1>6, <2>1, <2>2, <2>3, <2>4 DEF AcksOwn, OrderAt, FlightTracked
<1>16. SendsUnsent(g)'
  BY <1>5 DEF SendsUnsent
<1>17. \A x \in Sent' : x \in Sent \/ pel[sent'[x]] = g
  BY <1>3, <1>4, <1>8
<1> QED
  BY <1>10, <1>11, <1>12, <1>13, <1>14, <1>15, <1>16, <1>17 DEF OrderAt, FlightTracked

\* expireStaleJobs frees slot and entry together.
LEMMA OrderExpire ==
  ASSUME BaseInv, BaseInv', StaysEmpty, FreshInv, Next, NEW g \in Gpus, ExpireStaleJobs(g)
  PROVE  /\ OrderAt(g)'
         /\ \A e \in Entries : pel'[e] = pel[e] \/ (pel[e] = g /\ pel'[e] = NoGpu)
<1>0. BaseType /\ OrderAt(g)
  BY DEF BaseInv, FreshInv, InOrder
<1>1. PICK stale \in SUBSET {j \in SlowJobs : tracked[g][j] # 0} :
        /\ pel' = [e \in Entries |-> IF \E j \in stale : tracked[g][j] = e THEN NoGpu ELSE pel[e]]
        /\ tracked' = [tracked EXCEPT ![g] = [j \in Jobs |-> IF j \in stale THEN 0 ELSE @[j]]]
  BY DEF ExpireStaleJobs
<1>2. stale \subseteq Jobs
  BY <1>1, SlowAssumption
<1>3. /\ reader'[g].pc = "pending" /\ reader'[g].todo = {} /\ reader'[g].entry = 0
      /\ UNCHANGED <<delivered, sends, sent, running, handler>>
  BY <1>0 DEF ExpireStaleJobs, ReaderAt, BaseType, execVars
<1>4. \A j \in Jobs : tracked'[g][j] = IF j \in stale THEN 0 ELSE tracked[g][j]
  BY <1>0, <1>1 DEF BaseType
<1>5. \A e \in Entries : pel'[e] = g => pel[e] = g /\ \A j \in stale : tracked[g][j] # e
  BY <1>1
<1>6. \A j \in Jobs : tracked[g][j] # 0 => tracked[g][j] \in Entries /\ queue[tracked[g][j]].job = j
  BY <1>0 DEF BaseInv, BaseType, Existing, TrackedExists
<1>7. \A e \in Entries : pel'[e] = pel[e] \/ (pel[e] = g /\ pel'[e] = NoGpu)
  BY <1>0, <1>1, <1>2 DEF OrderAt, TrackedPending
<1>8. /\ \A x \in Sent : /\ x \in Sent' /\ sent'[x] = sent[x] /\ sent[x] \in Readable
                         /\ JobOf(x)' = JobOf(x) /\ JobOf(x) \in Jobs
      /\ \A f \in Readable : /\ queue'[f] = queue[f] /\ queue[f].job \in Jobs
                             /\ f \in Entries /\ f # 0
      /\ \A f \in Entries : pel[f] = g => f \in Readable
  BY HeldKept
<1>9. /\ running[g] \subseteq Sent
      /\ handler[g].pc # "idle" => handler[g].exec \in Sent
      /\ handler[g].pc = "ack" =>
           handler[g].entry \in Readable /\ queue[handler[g].entry].job = JobOf(handler[g].exec)
  BY HeldKept
<1>10. BatchPending(g)'
  BY <1>3 DEF BatchPending, InBatch, Entries
<1>11. TrackedPending(g)'
  <2> SUFFICES ASSUME NEW j \in Jobs, tracked'[g][j] # 0 PROVE pel'[tracked'[g][j]] = g
    BY DEF TrackedPending
  <2>1. j \notin stale /\ tracked'[g][j] = tracked[g][j] /\ tracked[g][j] # 0
    BY <1>4
  <2>2. \A i \in stale : tracked[g][i] # tracked[g][j]
    BY <1>2, <1>6, <2>1
  <2> QED  BY <1>0, <1>1, <1>6, <2>1, <2>2 DEF OrderAt, TrackedPending
<1>12. PendingAccounted(g)'
  <2> SUFFICES ASSUME NEW f \in Entries, pel'[f] = g PROVE Accounted(g, f)'
    BY DEF PendingAccounted
  <2>1. /\ pel[f] = g /\ Accounted(g, f) /\ f \in Readable
        /\ queue'[f] = queue[f] /\ queue[f].job \in Jobs
    BY <1>0, <1>5, <1>8 DEF OrderAt, PendingAccounted
  <2>2. Unsent(f) => Unsent(f)'
    BY <1>3 DEF Unsent, Sent
  <2>3. tracked[g][queue[f].job] = f => tracked'[g][queue[f].job] = f
    BY <1>4, <1>5, <2>1
  <2> QED  BY <1>3, <2>1, <2>2, <2>3 DEF Accounted, StaysEmpty
<1>13. RunsUnder(g)'
  BY <1>0, <1>3, <1>4, <1>8, <1>9 DEF OrderAt, FlightTracked, RunsUnder
<1>14. UntracksUnder(g)'
  <2> SUFFICES ASSUME handler[g].pc = "untrack" PROVE UntracksUnder(g)'
    BY <1>3 DEF UntracksUnder
  <2>1. PICK x \in Sent : x = handler[g].exec
    BY <1>9
  <2>2. JobOf(handler[g].exec)' = JobOf(x)
    BY <1>3, <1>8, <2>1 DEF JobOf
  <2>3. ~InBatch(g, sent[handler[g].exec])'
    BY <1>3, <1>8, <2>1 DEF InBatch
  <2> QED  BY <1>0, <1>3, <1>4, <1>8, <2>1, <2>2, <2>3 DEF UntracksUnder, OrderAt, FlightTracked
<1>15. AcksOwn(g)'
  <2> SUFFICES ASSUME handler[g].pc = "ack" PROVE AcksOwn(g)'
    BY <1>3 DEF AcksOwn
  <2>1. PICK x \in Sent : x = handler[g].exec
    BY <1>9
  <2>2. JobOf(handler[g].exec)' = JobOf(x)
    BY <1>3, <1>8, <2>1 DEF JobOf
  <2>3. PICK f \in Readable : f = handler[g].entry
    BY <1>9
  <2>4. ~InBatch(g, handler[g].entry)'
    BY <1>3, <1>8, <2>3 DEF InBatch
  <2>5. f = sent[x] /\ tracked[g][JobOf(x)] = 0 /\ pel[f] = g
    BY <1>0, <2>1, <2>3 DEF AcksOwn, OrderAt, FlightTracked
  <2>6. \A j \in stale : tracked[g][j] # f
    BY <1>2, <1>6, <1>8, <1>9, <2>1, <2>3, <2>5
  <2>7. pel'[f] = g
    BY <1>1, <1>8, <2>5, <2>6
  <2> QED  BY <1>3, <1>4, <1>8, <2>1, <2>2, <2>3, <2>4, <2>5, <2>7 DEF AcksOwn
<1>16. SendsUnsent(g)'
  BY <1>3 DEF SendsUnsent
<1> QED
  BY <1>7, <1>10, <1>11, <1>12, <1>13, <1>14, <1>15, <1>16 DEF OrderAt, FlightTracked

\* A completion takes its job's slot along: no other execution of the connection
\* and no entry about to be sent is of the same job.
LEMMA OrderComplete ==
  ASSUME BaseInv, BaseInv', StaysEmpty, FreshInv, FreshBatches, Next, NEW g \in Gpus, NEW x \in Execs,
         NEW calls \in SUBSET Calls, ReceiveComplete(g, x, calls)
  PROVE  OrderAt(g)'
<1>0. BaseType /\ OrderAt(g)
  BY DEF BaseInv, FreshInv, InOrder
<1>1. x \in Sent /\ x \in running[g] /\ ~InBatch(g, sent[x]) /\ handler[g].pc = "idle"
  BY DEF ReceiveComplete, BaseInv, Existing, RunningExists
<1>2. /\ \A y \in Sent : /\ y \in Sent' /\ sent'[y] = sent[y] /\ sent[y] \in Readable
                         /\ JobOf(y)' = JobOf(y) /\ JobOf(y) \in Jobs
                         /\ queue[sent[y]].job = JobOf(y)
      /\ \A f \in Readable : /\ queue'[f] = queue[f] /\ queue[f].job \in Jobs
                             /\ f \in Entries /\ f # 0
      /\ \A f \in Entries : pel[f] = g => f \in Readable
      /\ running[g] \subseteq Sent
  BY HeldKept
<1>3. PICK j \in Jobs : j = JobOf(x)
  BY <1>1, <1>2
<1>4. PICK entry : entry = tracked[g][j]
  OBVIOUS
<1>5. /\ running'[g] = running[g] \ {x}
      /\ tracked'[g][j] = 0 /\ \A i \in Jobs : i # j => tracked'[g][i] = tracked[g][i]
      /\ UNCHANGED <<pel, delivered, reader, sends, sent>>
  BY <1>0, <1>3 DEF ReceiveComplete, BaseType, queueVars
<1>6. /\ handler'[g].exec = x /\ handler'[g].entry = entry
      /\ handler'[g].pc \in {"ack", "start", "publish"}
      /\ (handler'[g].pc = "ack" <=> entry # 0)
  <2>1. PICK next : next = IF calls = {} THEN "publish" ELSE "start"
    OBVIOUS
  <2>2. handler'[g] = [pc |-> IF entry = 0 THEN next ELSE "ack", exec |-> x, entry |-> entry,
                       calls |-> calls, next |-> next, tool |-> NoTool]
    BY <1>0, <1>3, <1>4, <2>1 DEF ReceiveComplete, BaseType
  <2> QED  BY <2>1, <2>2
<1>7. entry \in {0, sent[x]}
  BY <1>0, <1>1, <1>3, <1>4 DEF OrderAt, FlightTracked, RunsUnder
<1>8. Active(x) /\ \A f \in 1 .. added : queue[f].job = j /\ Live(f) => f = sent[x]
  <2>1. Active(x)
    BY <1>1 DEF Active, Runs
  <2> QED  BY <1>1, <1>3, <2>1, OneOfJob
<1>9. BatchPending(g)'
  BY <1>0, <1>5 DEF OrderAt, BatchPending, InBatch
<1>10. TrackedPending(g)'
  BY <1>0, <1>5 DEF OrderAt, TrackedPending
<1>11. \A f \in Entries : Unsent(f) => Unsent(f)'
  BY <1>5 DEF Unsent, Sent
<1>12. PendingAccounted(g)'
  <2> SUFFICES ASSUME NEW f \in Entries, pel[f] = g PROVE Accounted(g, f)'
    BY <1>5 DEF PendingAccounted
  <2>1. Accounted(g, f) /\ f \in Readable
    BY <1>0, <1>2 DEF OrderAt, PendingAccounted
  <2>2. CASE Unsent(f)
    BY <1>11, <2>2 DEF Accounted, StaysEmpty
  <2>3. ASSUME NEW y \in running[g], sent[y] = f, tracked[g][queue[f].job] = f PROVE Accounted(g, f)'
    <3>1. CASE queue[f].job = j
      BY <1>2, <1>4, <1>6, <2>1, <2>3, <3>1 DEF Accounted, StaysEmpty
    <3>2. CASE queue[f].job # j
      <4>1. y # x /\ y \in Sent
        BY <1>2, <1>3, <2>3, <3>2
      <4>2. y \in running'[g] /\ sent'[y] = f /\ queue'[f] = queue[f]
        BY <1>2, <1>5, <2>1, <2>3, <4>1
      <4>3. tracked'[g][queue[f].job] = f
        BY <1>2, <1>5, <2>1, <2>3, <3>2
      <4> QED  BY <4>2, <4>3 DEF Accounted, StaysEmpty
    <3> QED  BY <3>1, <3>2
  <2>4. CASE Empty(queue[f].job) /\ tracked[g][queue[f].job] = f
    <3>1. queue[f].job # j
      BY <1>1, <1>3, <1>8, <2>4, SentIs DEF Empty, Live
    <3> QED  BY <1>2, <1>5, <2>1, <2>4, <3>1 DEF Accounted, StaysEmpty
  <2> QED  BY <1>1, <2>1, <2>2, <2>3, <2>4 DEF Accounted
<1>13. RunsUnder(g)'
  BY <1>0, <1>2, <1>5 DEF OrderAt, FlightTracked, RunsUnder
<1>14. UntracksUnder(g)'
  BY <1>6 DEF UntracksUnder
<1>15. AcksOwn(g)'
  <2> SUFFICES ASSUME entry # 0 PROVE AcksOwn(g)'
    BY <1>6 DEF AcksOwn
  <2>1. entry = sent[x] /\ pel[entry] = g
    BY <1>0, <1>3, <1>4, <1>7 DEF OrderAt, TrackedPending
  <2>2. JobOf(handler[g].exec)' = j
    BY <1>1, <1>2, <1>3, <1>6 DEF JobOf
  <2>3. ~InBatch(g, handler[g].entry)'
    BY <1>1, <1>5, <1>6, <2>1 DEF InBatch
  <2> QED  BY <1>5, <1>6, <2>1, <2>2, <2>3 DEF AcksOwn
<1>16. SendsUnsent(g)'
  <2> SUFFICES ASSUME reader[g].pc = "send" PROVE SendsUnsent(g)'
    BY <1>5 DEF SendsUnsent
  <2>1. PICK e \in Readable : e = reader[g].entry
    BY DEF BaseInv, Existing, ReaderExists
  <2>2. Unsent(e) /\ tracked[g][queue[e].job] = e
    BY <1>0, <2>1 DEF OrderAt, FlightTracked, SendsUnsent
  <2>3. queue[e].job # j
    <3>1. e \in 1 .. added /\ e # sent[x] /\ Live(e)
      BY <1>1, <2>1, <2>2, JobsKept, Growing DEF Unsent, Live, BaseInv
    <3> QED  BY <1>8, <3>1
  <2> QED  BY <1>2, <1>5, <1>11, <2>1, <2>2, <2>3 DEF SendsUnsent
<1> QED
  BY <1>9, <1>10, <1>12, <1>13, <1>14, <1>15, <1>16 DEF OrderAt, FlightTracked

LEMMA OrderError ==
  ASSUME BaseInv, BaseInv', StaysEmpty, RoundInv, FreshInv, FreshBatches, Next, NEW g \in Gpus, NEW x \in Execs,
         ReceiveError(g, x)
  PROVE  OrderAt(g)'
<1>0. BaseType /\ OrderAt(g)
  BY DEF BaseInv, FreshInv, InOrder
<1>1. x \in Sent /\ x \in running[g] /\ ~InBatch(g, sent[x]) /\ handler[g].pc = "idle"
  BY DEF ReceiveError, BaseInv, Existing, RunningExists
<1>2. /\ \A y \in Sent : /\ y \in Sent' /\ sent'[y] = sent[y] /\ sent[y] \in Readable
                         /\ JobOf(y)' = JobOf(y) /\ JobOf(y) \in Jobs
                         /\ queue[sent[y]].job = JobOf(y)
      /\ \A f \in Entries : pel[f] = g => f \in Readable
      /\ running[g] \subseteq Sent
  BY HeldKept
<1>3. /\ running'[g] = running[g] \ {x}
      /\ UNCHANGED <<added, queue, pel, delivered, reader, sends, sent, tracked>>
      /\ handler'[g].exec = x /\ handler'[g].pc = "untrack" /\ handler'[g].next = "idle"
  BY <1>0 DEF ReceiveError, BaseType, queueVars
<1>4. BatchPending(g)' /\ TrackedPending(g)' /\ SendsUnsent(g)'
  <2>1. \A f : Unsent(f)' <=> Unsent(f)
    BY <1>3 DEF Unsent, Sent
  <2> QED  BY <1>0, <1>3, <2>1 DEF OrderAt, BatchPending, InBatch, TrackedPending, FlightTracked, SendsUnsent
<1>5. PendingAccounted(g)'
  <2> SUFFICES ASSUME NEW f \in Entries, pel[f] = g PROVE Accounted(g, f)'
    BY <1>3 DEF PendingAccounted
  <2>1. Accounted(g, f) /\ (Unsent(f) => Unsent(f)')
    BY <1>0, <1>3 DEF OrderAt, PendingAccounted, Unsent, Sent
  <2>2. ASSUME NEW y \in running[g], sent[y] = f, tracked[g][queue[f].job] = f PROVE Accounted(g, f)'
    <3>1. CASE y = x
      <4>1. Empty(queue[f].job)'
        BY <1>1, <1>2, <1>3, <2>2, <3>1, ErrorDies, DiesEmpty DEF Empty
      <4> QED  BY <1>3, <2>2, <4>1 DEF Accounted
    <3>2. CASE y # x
      BY <1>3, <2>2, <3>2 DEF Accounted
    <3> QED  BY <3>1, <3>2
  <2>3. f \in Readable
    BY <1>2
  <2> QED  BY <1>1, <1>3, <2>1, <2>2, <2>3 DEF Accounted, StaysEmpty
<1>6. RunsUnder(g)'
  BY <1>0, <1>2, <1>3 DEF OrderAt, FlightTracked, RunsUnder
<1>7. UntracksUnder(g)'
  <2>1. JobOf(handler[g].exec)' = JobOf(x) /\ tracked[g][JobOf(x)] \in {0, sent[x]}
    BY <1>0, <1>1, <1>2, <1>3 DEF JobOf, OrderAt, FlightTracked, RunsUnder
  <2>2. ~InBatch(g, sent[handler[g].exec])'
    BY <1>1, <1>3 DEF InBatch
  <2> QED  BY <1>3, <2>1, <2>2 DEF UntracksUnder
<1>8. AcksOwn(g)'
  BY <1>3 DEF AcksOwn
<1> QED
  BY <1>4, <1>5, <1>6, <1>7, <1>8 DEF OrderAt, FlightTracked

LEMMA SilenceDies ==
  ASSUME BaseInv, RoundInv, NEW g \in Gpus, NEW x \in Execs, EndsInSilence(g, x)
  PROVE  Active(x) /\ ~Active(x)'
<1>0. BaseType /\ ExecAlone
  BY DEF BaseInv, RoundInv
<1>1. /\ x \in running[g] /\ UNCHANGED <<conts, handler>>
      /\ running' = [running EXCEPT ![g] = @ \ {x}]
  BY DEF EndsInSilence, contVars
<1>2. conts[x].phase = "none" /\ \A h \in Gpus : handler[h].exec # x /\ (x \in running[h] => h = g)
  BY <1>0, <1>1 DEF ExecAlone
<1>3. ~Runs(x)'
  BY <1>0, <1>1, <1>2 DEF Runs, BaseType
<1>4. ~Completes(x)'
  BY <1>1, <1>2 DEF Completes
<1> QED
  BY <1>1, <1>2, <1>3, <1>4 DEF Active, Runs

\* The worker is silent: only the books still hold the job.
LEMMA OrderSilence ==
  ASSUME BaseInv, BaseInv', StaysEmpty, RoundInv, FreshInv, Next, NEW g \in Gpus, NEW x \in Execs,
         EndsInSilence(g, x)
  PROVE  OrderAt(g)'
<1>0. BaseType /\ OrderAt(g)
  BY DEF BaseInv, FreshInv, InOrder
<1>1. x \in Sent /\ x \in running[g]
  BY DEF EndsInSilence, BaseInv, Existing, RunningExists
<1>2. /\ \A y \in Sent : queue[sent[y]].job = JobOf(y)
      /\ \A f \in Entries : pel[f] = g => f \in Readable
      /\ running[g] \subseteq Sent
  BY HeldKept
<1>3. /\ running'[g] = running[g] \ {x}
      /\ UNCHANGED <<added, queue, pel, delivered, reader, sends, sent, tracked, handler>>
  BY <1>0 DEF EndsInSilence, BaseType, queueVars
<1>4. BatchPending(g)' /\ TrackedPending(g)' /\ SendsUnsent(g)'
  <2>1. \A f : Unsent(f)' <=> Unsent(f)
    BY <1>3 DEF Unsent, Sent
  <2> QED  BY <1>0, <1>3, <2>1 DEF OrderAt, BatchPending, InBatch, TrackedPending, FlightTracked,
                                   SendsUnsent
<1>5. PendingAccounted(g)'
  <2> SUFFICES ASSUME NEW f \in Entries, pel[f] = g PROVE Accounted(g, f)'
    BY <1>3 DEF PendingAccounted
  <2>1. Accounted(g, f) /\ f \in Readable /\ (Unsent(f) => Unsent(f)')
    BY <1>0, <1>2, <1>3 DEF OrderAt, PendingAccounted, Unsent, Sent
  <2>2. ASSUME NEW y \in running[g], sent[y] = f, tracked[g][queue[f].job] = f PROVE Accounted(g, f)'
    <3>1. CASE y = x
      <4>1. Empty(queue[f].job)'
        BY <1>1, <1>2, <1>3, <2>2, <3>1, SilenceDies, DiesEmpty DEF Empty
      <4> QED  BY <1>3, <2>2, <4>1 DEF Accounted
    <3>2. CASE y # x
      BY <1>3, <2>2, <3>2 DEF Accounted
    <3> QED  BY <3>1, <3>2
  <2> QED  BY <1>3, <2>1, <2>2 DEF Accounted, StaysEmpty
<1>6. RunsUnder(g)' /\ UntracksUnder(g)' /\ AcksOwn(g)'
  BY <1>0, <1>3 DEF OrderAt, FlightTracked, RunsUnder, UntracksUnder, AcksOwn, JobOf, InBatch
<1> QED
  BY <1>4, <1>5, <1>6 DEF OrderAt, FlightTracked

LEMMA OrderUntrack ==
  ASSUME BaseInv, BaseInv', StaysEmpty, FreshInv, Next, NEW g \in Gpus, UntrackJob(g)
  PROVE  OrderAt(g)'
<1>0. BaseType /\ OrderAt(g) /\ handler[g].pc = "untrack"
  BY DEF BaseInv, FreshInv, InOrder, UntrackJob
<1>1. PICK x \in Sent : x = handler[g].exec
  BY <1>0, HeldKept
<1>2. /\ \A y \in Sent : /\ y \in Sent' /\ sent'[y] = sent[y] /\ sent[y] \in Readable
                         /\ JobOf(y)' = JobOf(y) /\ JobOf(y) \in Jobs
                         /\ queue[sent[y]].job = JobOf(y)
      /\ \A f \in Readable : queue[f].job \in Jobs
      /\ \A f \in Entries : pel[f] = g => f \in Readable /\ f # 0
      /\ running[g] \subseteq Sent
  BY HeldKept
<1>3. PICK j \in Jobs : j = JobOf(x)
  BY <1>2
<1>4. PICK entry : entry = tracked[g][j]
  OBVIOUS
<1>5. /\ tracked'[g][j] = 0 /\ \A i \in Jobs : i # j => tracked'[g][i] = tracked[g][i]
      /\ UNCHANGED <<queue, pel, delivered, reader, sends, sent, running>>
  BY <1>0, <1>1, <1>3 DEF UntrackJob, BaseType, queueVars, execVars
<1>6. /\ entry = 0 => handler'[g].pc = "idle"
      /\ entry # 0 => handler'[g].pc = "ack" /\ handler'[g].entry = entry /\ handler'[g].exec = x
  BY <1>0, <1>1, <1>3, <1>4, UntrackEffect DEF IdleHandler
<1>7. entry \in {0, sent[x]} /\ ~InBatch(g, sent[x])
  BY <1>0, <1>1, <1>3, <1>4 DEF OrderAt, FlightTracked, UntracksUnder
<1>8. \A f : Unsent(f)' <=> Unsent(f)
  BY <1>5 DEF Unsent, Sent
<1>9. BatchPending(g)' /\ TrackedPending(g)'
  BY <1>0, <1>5 DEF OrderAt, BatchPending, InBatch, TrackedPending
<1>10. PendingAccounted(g)'
  <2> SUFFICES ASSUME NEW f \in Entries, pel[f] = g PROVE Accounted(g, f)'
    BY <1>5 DEF PendingAccounted
  <2>1. Accounted(g, f) /\ f \in Readable /\ f # 0
    BY <1>0, <1>2 DEF OrderAt, PendingAccounted
  <2>2. CASE tracked[g][queue[f].job] = f /\ queue[f].job = j
    BY <1>4, <1>6, <2>1, <2>2 DEF Accounted, StaysEmpty
  <2>3. ASSUME NEW y \in running[g], sent[y] = f, tracked[g][queue[f].job] = f, queue[f].job # j
        PROVE  Accounted(g, f)'
    BY <1>2, <1>5, <2>1, <2>3 DEF Accounted, StaysEmpty
  <2>4. ASSUME Empty(queue[f].job), tracked[g][queue[f].job] = f, queue[f].job # j
        PROVE  Accounted(g, f)'
    BY <1>2, <1>5, <2>1, <2>4 DEF Accounted, StaysEmpty
  <2> QED  BY <1>0, <1>8, <2>1, <2>2, <2>3, <2>4 DEF Accounted, StaysEmpty
<1>11. RunsUnder(g)'
  BY <1>0, <1>2, <1>5 DEF OrderAt, FlightTracked, RunsUnder
<1>12. UntracksUnder(g)'
  BY <1>6 DEF UntracksUnder
<1>13. AcksOwn(g)'
  <2> SUFFICES ASSUME entry # 0 PROVE AcksOwn(g)'
    BY <1>6 DEF AcksOwn
  <2>1. entry = sent[x] /\ pel[entry] = g
    BY <1>0, <1>3, <1>4, <1>7 DEF OrderAt, TrackedPending
  <2>2. JobOf(handler[g].exec)' = j
    BY <1>1, <1>2, <1>3, <1>6 DEF JobOf
  <2>3. ~InBatch(g, handler[g].entry)'
    BY <1>5, <1>6, <1>7, <2>1 DEF InBatch
  <2> QED  BY <1>5, <1>6, <2>1, <2>2, <2>3 DEF AcksOwn
<1>14. SendsUnsent(g)'
  <2> SUFFICES ASSUME reader[g].pc = "send" PROVE SendsUnsent(g)'
    BY <1>5 DEF SendsUnsent
  <2>1. PICK e \in Readable : e = reader[g].entry
    BY DEF BaseInv, Existing, ReaderExists
  <2>2. Unsent(e) /\ tracked[g][queue[e].job] = e
    BY <1>0, <2>1 DEF OrderAt, FlightTracked, SendsUnsent
  <2>3. queue[e].job # j
    <3>1. e \in 1 .. added /\ Live(e)
      BY <2>1, <2>2, JobsKept, Growing DEF Live, BaseInv
    <3>2. Empty(j)
      BY <1>0, <1>1, <1>3 DEF FreshInv, Alone, EndsEmpty, Ends
    <3> QED  BY <3>1, <3>2 DEF Empty
  <2> QED  BY <1>2, <1>5, <1>8, <2>1, <2>2, <2>3 DEF SendsUnsent
<1> QED
  BY <1>9, <1>10, <1>11, <1>12, <1>13, <1>14 DEF OrderAt, FlightTracked

LEMMA OrderAck ==
  ASSUME BaseInv, BaseInv', StaysEmpty, FreshInv, Next, NEW g \in Gpus, AckJob(g)
  PROVE  /\ OrderAt(g)'
         /\ \A e \in Entries : pel'[e] = pel[e] \/ (pel[e] = g /\ pel'[e] = NoGpu)
<1>0. BaseType /\ OrderAt(g) /\ handler[g].pc = "ack"
  BY DEF BaseInv, FreshInv, InOrder, AckJob
<1>1. PICK x \in Sent : x = handler[g].exec
  BY <1>0, HeldKept
<1>2. PICK f \in Readable : f = handler[g].entry
  BY <1>0, HeldKept
<1>3. /\ \A y \in Sent : sent[y] \in Readable /\ JobOf(y) \in Jobs /\ queue[sent[y]].job = JobOf(y)
      /\ \A d \in Readable : queue[d].job \in Jobs /\ d \in Entries /\ d # 0
      /\ \A d \in Entries : pel[d] = g => d \in Readable
      /\ running[g] \subseteq Sent
  BY HeldKept
<1>4. f = sent[x] /\ tracked[g][JobOf(x)] = 0 /\ pel[f] = g /\ ~InBatch(g, f)
  BY <1>0, <1>1, <1>2 DEF OrderAt, FlightTracked, AcksOwn
<1>5. /\ pel'[f] = NoGpu /\ \A e \in Entries : e # f => pel'[e] = pel[e]
      /\ UNCHANGED <<queue, delivered, reader, sends, sent, running, tracked>>
  BY <1>0, <1>2, <1>3 DEF AckJob, BaseType, execVars
<1>6. handler'[g].pc \notin {"untrack", "ack"}
  <2>1. PICK pc \in {"idle", "start", "publish"} : pc = handler[g].next
    BY <1>0 DEF BaseType
  <2>2. HandlerGoes(g, pc) /\ pc \in HandlerPCs
    BY <2>1 DEF AckJob, HandlerPCs
  <2> QED  BY <1>0, <2>1, <2>2, GoesEffect DEF IdleHandler
<1>7. \A d \in Entries : pel[d] = g /\ d # f => (Unsent(d) => Unsent(d)')
  BY <1>5 DEF Unsent, Sent
<1>8. BatchPending(g)'
  BY <1>0, <1>4, <1>5 DEF OrderAt, BatchPending, InBatch
<1>9. TrackedPending(g)'
  <2> SUFFICES ASSUME NEW j \in Jobs, tracked[g][j] # 0 PROVE pel'[tracked[g][j]] = g
    BY <1>5 DEF TrackedPending
  <2>1. PICK d \in Entries : d = tracked[g][j] /\ queue[d].job = j /\ pel[d] = g
    BY <1>0 DEF OrderAt, TrackedPending, BaseInv, BaseType, Existing, TrackedExists
  <2>2. d # f
    BY <1>3, <1>4, <2>1
  <2> QED  BY <1>5, <2>1, <2>2
<1>10. PendingAccounted(g)'
  <2> SUFFICES ASSUME NEW e \in Entries, pel'[e] = g PROVE Accounted(g, e)'
    BY DEF PendingAccounted
  <2>1. e # f /\ pel[e] = g
    BY <1>5
  <2>2. Accounted(g, e)
    BY <1>0, <2>1 DEF OrderAt, PendingAccounted
  <2> QED  BY <1>0, <1>2, <1>3, <1>5, <1>7, <2>1, <2>2 DEF Accounted, StaysEmpty
<1>11. RunsUnder(g)'
  BY <1>0, <1>5 DEF OrderAt, FlightTracked, RunsUnder, JobOf
<1>12. UntracksUnder(g)' /\ AcksOwn(g)'
  BY <1>6 DEF UntracksUnder, AcksOwn
<1>13. SendsUnsent(g)'
  <2> SUFFICES ASSUME reader[g].pc = "send" PROVE SendsUnsent(g)'
    BY <1>5 DEF SendsUnsent
  <2>1. PICK e \in Readable : e = reader[g].entry
    BY DEF BaseInv, Existing, ReaderExists
  <2>2. Unsent(e) /\ tracked[g][queue[e].job] = e /\ InBatch(g, e)
    BY <1>0, <2>1 DEF OrderAt, FlightTracked, SendsUnsent, InBatch
  <2>3. pel[e] = g /\ e # f
    BY <1>0, <1>3, <1>4, <2>1, <2>2 DEF OrderAt, BatchPending
  <2> QED  BY <1>3, <1>5, <1>7, <2>1, <2>2, <2>3 DEF SendsUnsent
<1>14. \A e \in Entries : pel'[e] = pel[e] \/ (pel[e] = g /\ pel'[e] = NoGpu)
  BY <1>4, <1>5
<1> QED
  BY <1>8, <1>9, <1>10, <1>11, <1>12, <1>13, <1>14 DEF OrderAt, FlightTracked

LEMMA OrderReader ==
  ASSUME BaseInv, BaseInv', StaysEmpty, FreshInv, FreshBatches, Next, NEW g \in Gpus, ReaderStep(g)
  PROVE  InOrder'
<1>0. BaseType /\ BaseType' /\ InOrder /\ OrderAt(g)
  BY DEF BaseInv, FreshInv, InOrder
<1>1. \A h \in Gpus : h # g => /\ tracked'[h] = tracked[h] /\ reader'[h] = reader[h]
                               /\ running'[h] = running[h] /\ handler'[h] = handler[h]
  <2>1. handler' = handler
    BY DEF ReaderStep, ExpireStaleJobs, ReadPending, ReadNew, ReadTimeout, SaveJobContext,
           AssignJob, SendJob
  <2>2. \A h \in Gpus : h # g => reader'[h] = reader[h]
    BY <1>0 DEF ReaderStep, ExpireStaleJobs, ReadPending, ReadNew, ReadTimeout, SaveJobContext,
                AssignJob, SendJob, ReaderAt, NextEntry, BaseType
  <2>3. \A h \in Gpus : h # g => tracked'[h] = tracked[h]
    BY <1>0 DEF ReaderStep, ExpireStaleJobs, ReadPending, ReadNew, ReadTimeout, SaveJobContext,
                AssignJob, SendJob, BaseType
  <2>4. \A h \in Gpus : h # g => running'[h] = running[h]
    BY <1>0 DEF ReaderStep, ExpireStaleJobs, ReadPending, ReadNew, ReadTimeout, SaveJobContext,
                AssignJob, SendJob, BaseType, execVars
  <2> QED  BY <2>1, <2>2, <2>3, <2>4
<1>2. /\ OrderAt(g)'
      /\ \A e \in Entries : pel'[e] = pel[e] \/ (pel[e] \in {g, NoGpu} /\ pel'[e] \in {g, NoGpu})
      /\ \A x \in Sent' : x \in Sent \/ pel[sent'[x]] = g
  <2>1. CASE SendJob(g)
    BY <2>1, OrderSend DEF SendJob, queueVars
  <2>2. CASE ~SendJob(g)
    <3>1. sends' = sends
      BY <2>2 DEF ReaderStep, ExpireStaleJobs, ReadPending, ReadNew, ReadTimeout, SaveJobContext,
                  AssignJob, execVars
    <3>2. CASE ExpireStaleJobs(g)
      BY <3>1, <3>2, OrderExpire DEF Sent
    <3>3. CASE ReadNew(g)
      <4>1. \A e \in Entries : pel'[e] = pel[e] \/ (e = delivered + 1 /\ pel'[e] = g)
        BY <1>0, <3>3 DEF ReadNew, BaseType
      <4>2. \A e \in Entries : e = delivered + 1 => pel[e] = NoGpu
        <5>1. delivered \in Nat
          BY <1>0 DEF BaseType
        <5> QED  BY <5>1 DEF BaseInv, Existing, PelExists, Entries
      <4> QED  BY <1>0, <3>1, <3>3, <4>1, <4>2, OrderNew DEF Sent
    <3>4. CASE ReadPending(g)
      BY <1>0, <3>1, <3>4, OrderPending DEF ReadPending, queueVars, Sent
    <3>5. CASE ReadTimeout(g) \/ SaveJobContext(g)
      BY <1>0, <3>1, <3>5, OrderOn DEF ReadTimeout, SaveJobContext, queueVars, Sent
    <3>6. CASE AssignJob(g)
      <4>1. \/ reader'[g].pc = "send"
            \/ UNCHANGED tracked /\ NextEntry(g)
        BY <1>0, <3>6 DEF AssignJob, ReaderAt, BaseType
      <4>2. OrderAt(g)'
        BY <1>0, <3>6, <4>1, OrderAssign, OrderOn
      <4> QED  BY <3>1, <3>6, <4>2 DEF AssignJob, queueVars, Sent
    <3> QED  BY <2>2, <3>2, <3>3, <3>4, <3>5, <3>6 DEF ReaderStep
  <2> QED  BY <2>1, <2>2
<1>3. \A h \in Gpus : h # g => OrderAt(h)'
  BY <1>0, <1>1, <1>2, OrderOthers
<1> QED
  BY <1>2, <1>3 DEF InOrder

LEMMA OrderReceive ==
  ASSUME BaseInv, BaseInv', StaysEmpty, RoundInv, FreshInv, FreshBatches, Next, NEW g \in Gpus, NEW x \in Execs,
         NEW calls \in SUBSET Calls,
         ReceiveError(g, x) \/ EndsInSilence(g, x) \/ ReceiveComplete(g, x, calls)
  PROVE  InOrder'
<1>0. BaseType /\ InOrder
  BY DEF BaseInv, FreshInv
<1>1. \A h \in Gpus : h # g => /\ tracked'[h] = tracked[h] /\ reader'[h] = reader[h]
                               /\ running'[h] = running[h] /\ handler'[h] = handler[h]
  BY <1>0 DEF ReceiveError, EndsInSilence, ReceiveComplete, BaseType
<1>2. UNCHANGED <<pel, sends>>
  BY DEF ReceiveError, EndsInSilence, ReceiveComplete, queueVars
<1>3. \A h \in Gpus : h # g => OrderAt(h)'
  BY <1>0, <1>1, <1>2, OrderOthers DEF Sent
<1>4. OrderAt(g)'
  BY OrderComplete, OrderError, OrderSilence
<1> QED
  BY <1>3, <1>4 DEF InOrder

LEMMA OrderHandler ==
  ASSUME BaseInv, BaseInv', StaysEmpty, FreshInv, Next, NEW g \in Gpus, HandlerStep(g)
  PROVE  InOrder'
<1>0. BaseType /\ InOrder
  BY DEF BaseInv, FreshInv
<1>1. CASE UntrackJob(g) \/ AckJob(g)
  <2>1. UNCHANGED <<reader, running, sends>>
    BY <1>1 DEF UntrackJob, AckJob, execVars
  <2>2. \A h \in Gpus : h # g => tracked'[h] = tracked[h]
    BY <1>0, <1>1 DEF UntrackJob, AckJob, BaseType
  <2>3. \A h \in Gpus : h # g => handler'[h] = handler[h]
    BY <1>0, <1>1 DEF UntrackJob, AckJob, HandlerGoes, BaseType
  <2>4. /\ OrderAt(g)'
        /\ \A e \in Entries : pel'[e] = pel[e] \/ (pel[e] = g /\ pel'[e] = NoGpu)
    BY <1>1, OrderUntrack, OrderAck DEF UntrackJob, queueVars
  <2>5. \A h \in Gpus : h # g => OrderAt(h)'
    BY <1>0, <2>1, <2>2, <2>3, <2>4, OrderOthers DEF Sent
  <2> QED  BY <2>4, <2>5 DEF InOrder
<1>2. CASE ~UntrackJob(g) /\ ~AckJob(g)
  <2>1. UNCHANGED <<tracked, reader, running, pel, sends, sent>>
    BY <1>2 DEF HandlerStep, StartContinuation, PassThrough, PublishDone, DeleteJobContext,
                SendToolJob, SendToolJobFails, queueVars, execVars
  <2>2. handler[g].pc \in {"start", "publish", "forget", "send"}
    BY <1>2 DEF HandlerStep, StartContinuation, PassThrough, PublishDone, DeleteJobContext,
                SendToolJob, SendToolJobFails
  <2>3. \A h \in Gpus : h # g => handler'[h] = handler[h]
    BY <1>0, <1>2 DEF HandlerStep, StartContinuation, PassThrough, PublishDone, DeleteJobContext,
                      SendToolJob, SendToolJobFails, HandlerGoes, NextCall, BaseType
  <2>4. handler'[g].pc \notin {"untrack", "ack"}
    <3>1. HandlerMoves(g)
      BY HandlersMove
    <3> QED  BY <2>2, <3>1 DEF HandlerMoves, SameWork, GoesIdle, GoesOn, Starts
  <2>5. \A h \in Gpus : handler[h].pc \in {"untrack", "ack"} \/ handler'[h].pc \in {"untrack", "ack"}
                          => SameWork(h)
    BY <2>2, <2>3, <2>4 DEF SameWork
  <2> QED  BY <1>0, <2>1, <2>5, OrderQuiet
<1> QED
  BY <1>1, <1>2

LEMMA OrderKept ==
  ASSUME BaseInv, BaseInv', RoundInv, FreshInv, FreshBatches, Next
  PROVE  InOrder'
<1> StaysEmpty
  BY EmptyStays
<1>0. BaseType /\ InOrder
  BY DEF BaseInv, FreshInv
<1>1. ASSUME UNCHANGED <<tracked, reader, running, pel, sends, sent>>, \A h \in Gpus : SameWork(h)
      PROVE  InOrder'
  BY <1>0, <1>1, OrderQuiet
<1>2. ASSUME UNCHANGED handler PROVE \A h \in Gpus : SameWork(h)
  BY <1>2 DEF SameWork
<1>3. ASSUME NEW j \in Jobs, Submit(j) PROVE InOrder'
  BY <1>1, <1>2, <1>3 DEF Submit, AddEntry, execVars
<1>4. ASSUME NEW x \in Execs, NextRound(x) PROVE InOrder'
  BY <1>1, <1>2, <1>4 DEF NextRound, UpdateJobContext, Requeue, RequeueFails, AddEntry, queueVars,
                          execVars
<1>5. ASSUME NEW t \in Tools, ToolsStep(t) PROVE InOrder'
  <2>1. UNCHANGED <<tracked, reader, running, pel, sends, sent>>
    BY <1>5 DEF ToolsStep, ToolsConnect, ToolsBreak, ToolsCleanup, ToolRecord, ToolResult,
                ToolResultLost, queueVars, execVars
  <2>2. \A h \in Gpus : SameWork(h)
    <3>1. CASE ToolsCleanup(t)
      BY <1>0, <3>1 DEF ToolsCleanup, BaseType, SameWork
    <3>2. CASE UNCHANGED handler
      BY <1>2, <3>2
    <3> QED  BY <1>5, <3>1, <3>2 DEF ToolsStep, ToolsConnect, ToolsBreak, ToolRecord, ToolResult,
                                     ToolResultLost
  <2> QED  BY <1>1, <2>1, <2>2
<1> QED
  BY <1>3, <1>4, <1>5, OrderReader, OrderReceive, OrderHandler DEF Next, ToolsStep

-----------------------------------------------------------------------------
(* The saved context is that of the live entry.                            *)

\* Who writes the context of a job.
LEMMA ContextMoves ==
  ASSUME BaseInv, Next
  PROVE  \/ jobContexts' = jobContexts
         \/ \E g \in Gpus, e \in Readable :
              /\ SaveJobContext(g) /\ InBatch(g, e)
              /\ jobContexts' = [jobContexts EXCEPT ![queue[e].job] = queue[e].history]
         \/ \E g \in Gpus :
              /\ handler[g].pc = "forget"
              /\ jobContexts' = [jobContexts EXCEPT ![JobOf(handler[g].exec)] = NoContext]
         \/ \E x \in Sent :
              /\ conts[x].phase = "save"
              /\ jobContexts' = [jobContexts EXCEPT ![JobOf(x)] = NextHistory(x)]
<1> DEFINE Goal == \/ jobContexts' = jobContexts
                   \/ \E g \in Gpus, e \in Readable :
                        /\ SaveJobContext(g) /\ InBatch(g, e)
                        /\ jobContexts' = [jobContexts EXCEPT ![queue[e].job] = queue[e].history]
                   \/ \E g \in Gpus :
                        /\ handler[g].pc = "forget"
                        /\ jobContexts' = [jobContexts EXCEPT ![JobOf(handler[g].exec)] = NoContext]
                   \/ \E x \in Sent :
                        /\ conts[x].phase = "save"
                        /\ jobContexts' = [jobContexts EXCEPT ![JobOf(x)] = NextHistory(x)]
<1>1. ASSUME NEW g \in Gpus, ReaderStep(g) PROVE Goal
  <2>1. CASE SaveJobContext(g)
    <3>1. PICK e \in Entries :
            /\ e \in reader[g].todo
            /\ jobContexts' = [jobContexts EXCEPT ![queue[e].job] = queue[e].history]
      BY <2>1 DEF SaveJobContext, IsFirst
    <3>2. e \in Readable /\ InBatch(g, e)
      BY <3>1 DEF BaseInv, Existing, ReaderExists, InBatch
    <3> QED  BY <2>1, <3>1, <3>2
  <2>2. CASE jobContexts' = jobContexts
    BY <2>2
  <2> QED  BY <1>1, <2>1, <2>2 DEF ReaderStep, ExpireStaleJobs, ReadPending, ReadNew, ReadTimeout,
                                   AssignJob, SendJob, contVars
<1>2. ASSUME NEW g \in Gpus, HandlerStep(g) PROVE Goal
  <2>1. CASE DeleteJobContext(g)
    BY <2>1 DEF DeleteJobContext
  <2>2. CASE jobContexts' = jobContexts
    BY <2>2
  <2> QED  BY <1>2, <2>1, <2>2 DEF HandlerStep, UntrackJob, AckJob, StartContinuation, PassThrough,
                                   PublishDone, SendToolJob, SendToolJobFails, contVars
<1>3. ASSUME NEW g \in Gpus, NEW x \in Execs, NEW calls \in SUBSET Calls,
             ReceiveError(g, x) \/ EndsInSilence(g, x) \/ ReceiveComplete(g, x, calls)
      PROVE  Goal
  BY <1>3 DEF ReceiveError, EndsInSilence, ReceiveComplete, contVars
<1>4. ASSUME NEW x \in Execs, NextRound(x) PROVE Goal
  <2>1. CASE UpdateJobContext(x)
    <3>1. x \in Sent /\ conts[x].phase = "save"
      BY <2>1 DEF UpdateJobContext, BaseInv, Existing, ContsExist
    <3> QED  BY <2>1, <3>1 DEF UpdateJobContext
  <2>2. CASE jobContexts' = jobContexts
    BY <2>2
  <2> QED  BY <1>4, <2>1, <2>2 DEF NextRound, Requeue, RequeueFails
<1>5. ASSUME NEW t \in Tools, ToolsStep(t) PROVE Goal
  <2>1. jobContexts' = jobContexts
    BY <1>5 DEF ToolsStep, ToolsConnect, ToolsBreak, ToolsCleanup, ToolRecord, ToolResult,
                ToolResultLost, contVars
  <2> QED  BY <2>1
<1>6. ASSUME NEW j \in Jobs, Submit(j) PROVE Goal
  BY <1>6 DEF Submit, contVars
<1> QED
  BY <1>1, <1>2, <1>3, <1>4, <1>5, <1>6 DEF Next, ToolsStep

\* What the reader holds is to be sent or runs, or its job is at no place.
LEMMA BatchLives ==
  ASSUME BaseInv, FreshInv, NEW g \in Gpus, NEW e \in Entries, InBatch(g, e)
  PROVE  Live(e) \/ Empty(queue[e].job)
<1>1. Accounted(g, e)
  BY DEF FreshInv, InOrder, OrderAt, BatchPending, PendingAccounted
<1>2. ~(handler[g].pc = "ack" /\ handler[g].entry = e)
  BY DEF FreshInv, InOrder, OrderAt, FlightTracked, AcksOwn
<1>3. running[g] \subseteq Sent
  BY DEF BaseInv, Existing, RunningExists
<1> QED
  BY <1>1, <1>2, <1>3 DEF Accounted, Live, Active, Runs

\* The context of a live entry is written again by the goroutine of its own
\* round only, once all results are there.
LEMMA ContextKept ==
  ASSUME BaseInv, RoundInv, FreshInv, Next, NEW e \in 1 .. added, e \in Readable, Live(e),
         jobContexts[queue[e].job] = queue[e].history,
         \A x \in Sent : sent[x] = e => conts[x].phase # "save"
  PROVE  jobContexts'[queue[e].job] = queue[e].history
<1>0. BaseType /\ OneLive
  BY DEF BaseInv, FreshInv, Alone
<1>1. PICK j \in Jobs : j = queue[e].job
  BY DEF BaseInv, Existing, QueueExists
<1>2. ASSUME NEW g \in Gpus, NEW f \in Readable, InBatch(g, f),
             jobContexts' = [jobContexts EXCEPT ![queue[f].job] = queue[f].history]
      PROVE  jobContexts'[j] = queue[e].history
  <2>1. f \in Entries /\ f \in 1 .. added
    <3>1. added \in 0 .. MaxEntries /\ delivered \in 0 .. added
      BY <1>0 DEF BaseType
    <3> QED  BY <3>1 DEF Readable, Entries
  <2>2. Live(f) \/ Empty(queue[f].job)
    BY <1>2, <2>1, BatchLives
  <2>3. queue[f].job = j => f = e
    BY <1>0, <1>1, <2>1, <2>2 DEF OneLive, Empty
  <2> QED  BY <1>0, <1>1, <1>2, <2>3 DEF BaseType
<1>3. ASSUME NEW g \in Gpus, handler[g].pc = "forget",
             jobContexts' = [jobContexts EXCEPT ![JobOf(handler[g].exec)] = NoContext]
      PROVE  jobContexts'[j] = queue[e].history
  <2>1. Empty(JobOf(handler[g].exec))
    BY <1>3 DEF FreshInv, Alone, EndsEmpty, Ends
  <2>2. JobOf(handler[g].exec) # j
    BY <1>1, <2>1 DEF Empty
  <2> QED  BY <1>0, <1>1, <1>3, <2>2 DEF BaseType
<1>4. ASSUME NEW x \in Sent, conts[x].phase = "save",
             jobContexts' = [jobContexts EXCEPT ![JobOf(x)] = NextHistory(x)]
      PROVE  jobContexts'[j] = queue[e].history
  <2>1. JobOf(x) # j
    BY <1>1, <1>4, OneOfJob DEF Active
  <2> QED  BY <1>0, <1>1, <1>4, <2>1 DEF BaseType
<1> QED
  BY <1>1, <1>2, <1>3, <1>4, ContextMoves

\* ... of an execution that has no continuation yet.
LEMMA ExecContextKept ==
  ASSUME BaseInv, BaseInv', RoundInv, FreshInv, Next, NEW x \in Sent, Active(x),
         conts[x].phase = "none", jobContexts[JobOf(x)] = HistoryOf(x)
  PROVE  (jobContexts[JobOf(x)] = HistoryOf(x))'
<1>1. PICK e \in Readable : e = sent[x]
  BY SentIs DEF BaseInv, Existing, SentExists
<1>2. e \in 1 .. added /\ Live(e) /\ queue[e].job = JobOf(x) /\ queue[e].history = HistoryOf(x)
  BY <1>1, SentIs DEF Live, JobOf, HistoryOf
<1>3. \A y \in Sent : sent[y] = e => conts[y].phase # "save"
  BY <1>1 DEF FreshInv, Alone, SentOnce
<1>4. jobContexts'[queue[e].job] = queue[e].history
  BY <1>1, <1>2, <1>3, ContextKept
<1>5. JobOf(x)' = JobOf(x) /\ HistoryOf(x)' = HistoryOf(x)
  BY Growing, JobsKept DEF BaseInv
<1> QED
  BY <1>2, <1>4, <1>5

LEMMA RunsContextKept ==
  ASSUME BaseInv, BaseInv', RoundInv, FreshInv, Next, NEW g \in Gpus
  PROVE  RunsContext(g)'
<1> SUFFICES ASSUME NEW x \in running'[g] PROVE (jobContexts[JobOf(x)] = HistoryOf(x))'
  BY DEF RunsContext
<1>0. /\ BaseType /\ ExecAlone /\ RunsContext(g) /\ running[g] \subseteq Sent
      /\ x \in Sent' /\ sends \in Nat
  <2>1. BaseType /\ ExecAlone /\ RunsContext(g) /\ running[g] \subseteq Sent
    BY DEF BaseInv, RoundInv, Existing, RunningExists, FreshInv, Contexts, ContextsMatch
  <2>2. x \in Sent'
    BY DEF BaseInv, Existing, RunningExists
  <2>3. sends \in Nat
    BY DEF BaseInv, BaseType
  <2> QED  BY <2>1, <2>2, <2>3
<1>1. CASE x \in Sent
  <2>1. x \in running[g]
    BY <1>1, ExecMoves
  <2>2. Active(x) /\ conts[x].phase = "none" /\ jobContexts[JobOf(x)] = HistoryOf(x)
    BY <1>0, <1>1, <2>1, SentIs DEF Active, Runs, ExecAlone, RunsContext
  <2> QED  BY <1>1, <2>2, ExecContextKept
<1>2. CASE x \notin Sent
  <2>1. sends' # sends
    BY <1>0, <1>2 DEF Sent
  <2>2. PICK h \in Gpus : /\ SendJob(h) /\ sends' = sends + 1
                          /\ sent'[sends'] = reader[h].entry
    BY <2>1, ExecMoves
  <2>3. x = sends'
    BY <1>0, <1>2, <2>2 DEF Sent
  <2>4. PICK e : e = reader[h].entry
    OBVIOUS
  <2>5. jobContexts[queue[e].job] = queue[e].history
    BY <2>2, <2>4 DEF SendJob, FreshInv, Contexts, ContextsMatch, ReaderContext, InOrder, OrderAt,
                      FlightTracked, SendsUnsent
  <2>6. jobContexts' = jobContexts /\ queue' = queue
    BY <2>2 DEF SendJob, contVars, queueVars
  <2> QED  BY <2>2, <2>3, <2>4, <2>5, <2>6 DEF JobOf, HistoryOf
<1> QED
  BY <1>1, <1>2

LEMMA HandlerContextKept ==
  ASSUME BaseInv, BaseInv', RoundInv, FreshInv, Next, NEW g \in Gpus
  PROVE  HandlerContext(g)'
<1> SUFFICES ASSUME handler'[g].pc = "start" \/ (handler'[g].pc = "ack" /\ handler'[g].next = "start"),
                    NEW x, x = handler'[g].exec
             PROVE  (jobContexts[JobOf(x)] = HistoryOf(x))'
  BY DEF HandlerContext, JobOf, HistoryOf
<1>0. /\ BaseType /\ ExecAlone /\ RunsContext(g) /\ HandlerContext(g) /\ running[g] \subseteq Sent
      /\ handler[g].pc # "idle" => handler[g].exec \in Sent
      /\ handler[g].pc = "untrack" => handler[g].next = "idle"
  BY DEF BaseInv, RoundInv, Existing, RunningExists, HandlerExists, FreshInv, Contexts, ContextsMatch,
         InOrder, OrderAt, FlightTracked, UntracksUnder
<1>1. CASE Starts(g)
  <2>1. x \in running[g] /\ x \in Sent
    BY <1>0, <1>1 DEF Starts
  <2>2. Active(x) /\ conts[x].phase = "none" /\ jobContexts[JobOf(x)] = HistoryOf(x)
    BY <1>0, <2>1, SentIs DEF Active, Runs, ExecAlone, RunsContext
  <2> QED  BY <2>1, <2>2, ExecContextKept
<1>2. CASE ~Starts(g)
  <2>1. SameWork(g) \/ GoesIdle(g) \/ GoesOn(g)
    BY <1>2, HandlersMove DEF HandlerMoves
  <2>2. /\ handler[g].exec = x
        /\ handler[g].pc = "start" \/ (handler[g].pc = "ack" /\ handler[g].next = "start")
    BY <1>0, <2>1 DEF SameWork, GoesIdle, GoesOn
  <2>3. x \in Sent /\ x \in Execs
    BY <1>0, <2>2, SentIs
  <2>4. Active(x) /\ conts[x].phase = "none" /\ jobContexts[JobOf(x)] = HistoryOf(x)
    BY <1>0, <2>2, <2>3 DEF Active, Completes, Early, ExecAlone, HandlerContext
  <2> QED  BY <2>3, <2>4, ExecContextKept
<1> QED
  BY <1>1, <1>2

\* Where the entry in hand comes from.
LEMMA ReaderMoves ==
  ASSUME BaseInv, Next, NEW g \in Gpus, reader'[g].pc \in {"assign", "send"}
  PROVE  \/ reader[g].pc \in {"assign", "send"} /\ reader'[g].entry = reader[g].entry
         \/ SaveJobContext(g)
<1>0. BaseType
  BY DEF BaseInv
<1> DEFINE Goal == \/ reader[g].pc \in {"assign", "send"} /\ reader'[g].entry = reader[g].entry
                   \/ SaveJobContext(g)
<1>1. CASE reader'[g] = reader[g]
  BY <1>1
<1>2. ASSUME NEW h \in Gpus, ReaderStep(h) PROVE Goal
  <2>1. CASE h # g
    <3>1. reader'[g] = reader[g]
      BY <1>0, <1>2, <2>1 DEF ReaderStep, ExpireStaleJobs, ReadPending, ReadNew, ReadTimeout,
                              SaveJobContext, AssignJob, SendJob, ReaderAt, NextEntry, BaseType
    <3> QED  BY <1>1, <3>1
  <2>2. CASE h = g
    <3>1. CASE ExpireStaleJobs(g) \/ ReadPending(g) \/ ReadNew(g) \/ ReadTimeout(g)
      BY <1>0, <3>1 DEF ExpireStaleJobs, ReadPending, ReadNew, ReadTimeout, ReaderAt, BaseType
    <3>2. CASE AssignJob(g)
      <4>1. reader[g].pc = "assign" /\ ~NextEntry(g)
        BY <1>0, <3>2, NextEntryEffect DEF AssignJob
      <4>2. ReaderAt(g, "send", reader[g].todo, reader[g].entry)
        BY <3>2, <4>1 DEF AssignJob
      <4> QED  BY <1>0, <4>1, <4>2 DEF ReaderAt, BaseType
    <3>3. CASE SendJob(g)
      BY <1>0, <3>3, NextEntryEffect DEF SendJob
    <3> QED  BY <1>2, <2>2, <3>1, <3>2, <3>3 DEF ReaderStep
  <2> QED  BY <2>1, <2>2
<1>3. ASSUME NEW h \in Gpus, HandlerStep(h) PROVE UNCHANGED reader
  BY <1>3 DEF HandlerStep, UntrackJob, AckJob, StartContinuation, PassThrough, PublishDone,
              DeleteJobContext, SendToolJob, SendToolJobFails
<1>4. ASSUME NEW h \in Gpus, NEW x \in Execs, NEW calls \in SUBSET Calls,
             ReceiveError(h, x) \/ EndsInSilence(h, x) \/ ReceiveComplete(h, x, calls)
      PROVE  UNCHANGED reader
  BY <1>4 DEF ReceiveError, EndsInSilence, ReceiveComplete
<1>5. ASSUME NEW x \in Execs, NextRound(x) PROVE UNCHANGED reader
  BY <1>5 DEF NextRound, UpdateJobContext, Requeue, RequeueFails
<1>6. ASSUME NEW t \in Tools, ToolsStep(t) PROVE UNCHANGED reader
  BY <1>6 DEF ToolsStep, ToolsConnect, ToolsBreak, ToolsCleanup, ToolRecord, ToolResult, ToolResultLost
<1>7. ASSUME NEW j \in Jobs, Submit(j) PROVE UNCHANGED reader
  BY <1>7 DEF Submit
<1> QED
  BY <1>1, <1>2, <1>3, <1>4, <1>5, <1>6, <1>7 DEF Next, ToolsStep

LEMMA ReaderContextKept ==
  ASSUME BaseInv, BaseInv', RoundInv, FreshInv, Next, NEW g \in Gpus
  PROVE  ReaderContext(g)'
<1> SUFFICES ASSUME reader'[g].pc \in {"assign", "send"}, NEW e, e = reader'[g].entry, Unsent(e)'
             PROVE  (jobContexts[queue[e].job] = queue[e].history)'
  BY DEF ReaderContext, Unsent
<1>0. BaseType /\ ExecAlone /\ SentOnce
  BY DEF BaseInv, RoundInv, FreshInv, Alone
<1>1. CASE reader[g].pc \in {"assign", "send"} /\ reader'[g].entry = reader[g].entry
  <2>1. e = reader[g].entry /\ e \in Readable /\ InBatch(g, e)
    BY <1>1 DEF BaseInv, Existing, ReaderExists, InBatch
  <2>2. e \in Entries /\ e \in 1 .. added /\ queue'[e] = queue[e]
    BY <2>1, HeldKept, Growing, JobsKept DEF BaseInv
  <2>3. Unsent(e) /\ jobContexts[queue[e].job] = queue[e].history
    BY <1>1, <2>1, <2>2, UnsentBefore DEF FreshInv, Contexts, ContextsMatch, ReaderContext
  <2>4. jobContexts'[queue[e].job] = queue[e].history
    BY <2>1, <2>2, <2>3, ContextKept DEF Live, Unsent
  <2> QED  BY <2>2, <2>4
<1>2. CASE SaveJobContext(g)
  <2>1. PICK f \in Entries :
          /\ f \in reader[g].todo
          /\ jobContexts' = [jobContexts EXCEPT ![queue[f].job] = queue[f].history]
          /\ ReaderAt(g, "assign", reader[g].todo \ {f}, f)
    BY <1>2 DEF SaveJobContext, IsFirst
  <2>2. f = e /\ queue' = queue
    BY <1>0, <1>2, <2>1 DEF SaveJobContext, ReaderAt, BaseType, queueVars
  <2>3. queue[e].job \in Jobs
    BY <2>1, <2>2, HeldKept DEF BaseInv, Existing, ReaderExists
  <2> QED  BY <1>0, <2>1, <2>2, <2>3 DEF BaseType
<1> QED
  BY <1>1, <1>2, ReaderMoves

\* The goroutine of a round extends what the round was given.
LEMMA ContsMatchKept ==
  ASSUME BaseInv, BaseInv', RoundInv, FreshInv, Next
  PROVE  ContsMatch'
<1> SUFFICES ASSUME NEW x \in Execs, conts'[x].phase \in {"open", "save", "enqueue"}
             PROVE  (conts[x].history = HistoryOf(x))'
  BY DEF ContsMatch
<1>0. BaseType /\ ContsMatch
  BY DEF BaseInv, FreshInv, Contexts
<1>1. CASE conts[x].phase = "none"
  <2>1. PICK g \in Gpus : StartContinuation(g) /\ handler[g].exec = x
    BY <1>1, OpensBy
  <2>2. conts'[x].history = jobContexts[JobOf(x)]
    BY <1>0, <2>1 DEF StartContinuation, BaseType
  <2>3. jobContexts[JobOf(x)] = HistoryOf(x)
    BY <2>1 DEF StartContinuation, FreshInv, Contexts, ContextsMatch, HandlerContext
  <2>4. HistoryOf(x)' = HistoryOf(x)
    BY <2>1 DEF StartContinuation, HistoryOf, queueVars, execVars
  <2> QED  BY <2>2, <2>3, <2>4
<1>2. CASE conts[x].phase # "none"
  <2>1. conts[x].phase \in {"open", "save", "enqueue"} /\ conts'[x].history = conts[x].history
    BY <1>0, <1>2, RoundMoves DEF Moves
  <2>2. x \in Sent
    BY <1>2 DEF BaseInv, Existing, ContsExist
  <2>3. HistoryOf(x)' = HistoryOf(x)
    BY <2>2, Growing, JobsKept DEF BaseInv
  <2> QED  BY <1>0, <2>1, <2>3 DEF ContsMatch
<1> QED
  BY <1>1, <1>2

LEMMA HistoriesKept ==
  ASSUME BaseInv, BaseInv', FreshInv, Next
  PROVE  HistoriesMatch'
<1> SUFFICES ASSUME NEW e \in 1 .. added', queue'[e].history # <<>>
             PROVE  (\E x \in Sent : /\ JobOf(x) = queue[e].job
                                     /\ queue[e].history = Append(HistoryOf(x), x))'
  BY DEF HistoriesMatch
<1>0. /\ BaseType /\ BaseType' /\ Grows /\ HistoriesMatch
      /\ \A x \in Sent : x \in Sent' /\ JobOf(x)' = JobOf(x) /\ HistoryOf(x)' = HistoryOf(x)
  BY Growing, JobsKept DEF BaseInv, FreshInv, Contexts
<1>1. CASE e \in 1 .. added
  <2>1. queue'[e] = queue[e]
    BY <1>0, <1>1 DEF Grows
  <2> QED  BY <1>0, <1>1, <2>1 DEF HistoriesMatch
<1>2. CASE e \notin 1 .. added
  <2>1. added' # added
    BY <1>2
  <2>2. PICK x \in Execs : /\ Requeue(x) /\ added' = added + 1 /\ queue'[added'].job = JobOf(x)
                           /\ queue'[added'].history = Append(conts[x].history, x)
    <3>1. e = added' \/ added' # added + 1
      BY <1>0, <1>2 DEF BaseType
    <3> QED  BY <2>1, <3>1, NewEntries
  <2>3. e = added'
    BY <1>0, <1>2, <2>2 DEF BaseType
  <2>4. x \in Sent /\ conts[x].history = HistoryOf(x)
    BY <2>2 DEF Requeue, BaseInv, Existing, ContsExist, FreshInv, Contexts, ContsMatch
  <2> QED  BY <1>0, <2>2, <2>3, <2>4
<1> QED
  BY <1>1, <1>2

LEMMA ContextsKept ==
  ASSUME BaseInv, BaseInv', RoundInv, FreshInv, Next
  PROVE  Contexts'
BY RunsContextKept, HandlerContextKept, ReaderContextKept, ContsMatchKept, HistoriesKept
   DEF Contexts, ContextsMatch

LEMMA FreshInit ==
  ASSUME Init
  PROVE  FreshInv
<1>1. added = 0 /\ sends = 0 /\ BaseInv
  BY BaseInit DEF Init
<1>2. Alone
  BY <1>1 DEF Init, Alone, SentOnce, OneLive, DoneIsOver, EndsEmpty, Ends, PublishAlone, Sent,
              IdleHandler
<1>3. ASSUME NEW g \in Gpus PROVE OrderAt(g)
  BY <1>1, <1>3 DEF Init, OrderAt, BatchPending, InBatch, Entries, TrackedPending, PendingAccounted,
                    FlightTracked, RunsUnder, UntracksUnder, AcksOwn, SendsUnsent, IdleHandler
<1>4. Contexts
  BY <1>1 DEF Init, Contexts, ContextsMatch, RunsContext, HandlerContext, ReaderContext, ContsMatch,
              HistoriesMatch, NoCont, IdleHandler
<1> QED
  BY <1>2, <1>3, <1>4 DEF FreshInv, InOrder

LEMMA FreshStutters ==
  ASSUME UNCHANGED vars, FreshInv
  PROVE  FreshInv'
<1>1. UNCHANGED <<queueVars, answered, tracked, reader, execVars, handler, contVars>>
  BY DEF vars
<1>2. /\ UNCHANGED <<added, queue, delivered, pel, answered, tracked, reader, sends, sent, running>>
      /\ UNCHANGED <<handler, jobContexts, conts>>
  BY <1>1 DEF queueVars, execVars, contVars
<1>3. \A e : Live(e)' <=> Live(e)
  BY <1>2 DEF Live, Unsent, Active, Runs, Completes, Sent
<1>4. Alone'
  BY <1>2, <1>3 DEF FreshInv, Alone, SentOnce, OneLive, DoneIsOver, EndsEmpty, Ends, Empty,
                    PublishAlone, Sent, JobOf
<1>5. ASSUME NEW g \in Gpus PROVE OrderAt(g)'
  <2>1. \A e : (Unsent(e)' <=> Unsent(e)) /\ (InBatch(g, e)' <=> InBatch(g, e))
    BY <1>2 DEF Unsent, InBatch, Sent
  <2>2. OrderAt(g) /\ \A e : Empty(queue[e].job)' <=> Empty(queue[e].job)
    BY <1>2, <1>3 DEF FreshInv, InOrder, Empty
  <2>3. BatchPending(g)' /\ TrackedPending(g)' /\ PendingAccounted(g)'
    BY <1>2, <2>1, <2>2 DEF OrderAt, BatchPending, TrackedPending, PendingAccounted, Accounted
  <2>4. RunsUnder(g)' /\ SendsUnsent(g)'
    BY <1>2, <2>1, <2>2 DEF OrderAt, FlightTracked, RunsUnder, SendsUnsent, JobOf
  <2>5. UntracksUnder(g)' /\ AcksOwn(g)'
    BY <1>2, <2>1, <2>2 DEF OrderAt, FlightTracked, UntracksUnder, AcksOwn, JobOf, InBatch
  <2> QED  BY <2>3, <2>4, <2>5 DEF OrderAt, FlightTracked
<1>6. Contexts'
  BY <1>2 DEF FreshInv, Contexts, ContextsMatch, RunsContext, HandlerContext, ReaderContext, ContsMatch,
              HistoriesMatch, JobOf, HistoryOf, Unsent, Sent
<1> QED
  BY <1>4, <1>5, <1>6 DEF FreshInv, InOrder

LEMMA FreshKept ==
  ASSUME FreshBatches
  PROVE  Spec => [](BaseInv /\ RoundInv /\ FreshInv)
<1> DEFINE I == BaseInv /\ RoundInv /\ FreshInv
<1>1. Init => I
  BY BaseInit, RoundStart, FreshInit
<1>2. I /\ [Next]_vars => I'
  <2>1. CASE Next
    <3> SUFFICES ASSUME I PROVE I'
      BY <2>1
    <3>1. BaseInv' /\ RoundInv'
      BY <2>1, BaseStep, RoundStep
    <3>2. Alone' /\ InOrder' /\ Contexts'
      BY <2>1, <3>1, AloneKept, OrderKept, ContextsKept
    <3> QED  BY <3>1, <3>2 DEF FreshInv
  <2>2. CASE UNCHANGED vars
    BY <2>2, Stutters, FreshStutters
  <2> QED  BY <2>1, <2>2
<1> QED
  BY <1>1, <1>2, PTL DEF Spec

-----------------------------------------------------------------------------
LEMMA AtMostOne ==
  ASSUME NEW S, \A x, y \in S : x = y
  PROVE  Cardinality(S) \in {0, 1} /\ (S # {} => Cardinality(S) = 1) /\ (S = {} => Cardinality(S) = 0)
<1>1. CASE S = {}
  BY <1>1, FS_EmptySet
<1>2. CASE S # {}
  <2>1. PICK x : x \in S
    BY <1>2
  <2>2. S = {x}
    BY <2>1
  <2> QED  BY <1>2, <2>2, FS_Singleton
<1> QED
  BY <1>1, <1>2

\* The four places of the property are live, and exclude one another.
LEMMA Together ==
  ASSUME BaseInv, FreshInv, NEW j \in Jobs
  PROVE  /\ \A d, e \in Queued(j) : d = e
         /\ \A x, y \in ExecsOf(j) : Active(x) /\ Active(y) => x = y
         /\ \A e \in Queued(j), x \in ExecsOf(j) : ~Active(x)
<1>0. Sent = 1 .. sends
  BY DEF Sent
<1>1. ASSUME NEW e \in Queued(j) PROVE e \in 1 .. added /\ queue[e].job = j /\ Live(e) /\ Unsent(e)
  BY <1>0, <1>1 DEF Queued, Live, Unsent
<1>2. ASSUME NEW x \in ExecsOf(j) PROVE x \in Sent /\ JobOf(x) = j
  BY <1>0, <1>2 DEF ExecsOf
<1>3. \A d, e \in Queued(j) : d = e
  BY <1>1 DEF FreshInv, Alone, OneLive
<1>4. ASSUME NEW x \in ExecsOf(j), NEW y \in ExecsOf(j), Active(x), Active(y) PROVE x = y
  <2>1. Live(sent[y]) /\ sent[y] \in 1 .. added /\ queue[sent[y]].job = JobOf(x)
    BY <1>2, <1>4, SentIs DEF Live, JobOf
  <2>2. sent[y] = sent[x]
    BY <1>2, <1>4, <2>1, OneOfJob
  <2> QED  BY <1>2, <2>2 DEF FreshInv, Alone, SentOnce
<1>5. ASSUME NEW e \in Queued(j), NEW x \in ExecsOf(j), Active(x) PROVE FALSE
  <2>1. e = sent[x]
    BY <1>1, <1>2, <1>5, OneOfJob
  <2> QED  BY <1>1, <1>2, <2>1 DEF Unsent
<1> QED
  BY <1>3, <1>4, <1>5

LEMMA PlacesApart ==
  ASSUME BaseInv, RoundInv, FreshInv, NEW j \in Jobs
  PROVE  /\ \A x \in Running(j) : x \in ExecsOf(j) /\ Active(x) /\ x \notin Completing(j) \cup Calling(j)
         /\ \A x \in Completing(j) : x \in ExecsOf(j) /\ Active(x) /\ x \notin Calling(j)
         /\ \A x \in Calling(j) : x \in ExecsOf(j) /\ Active(x)
<1>0. Sent \subseteq Execs
  BY DEF BaseInv, BaseType, Sent, Execs
<1>1. ASSUME NEW x \in Running(j)
      PROVE  x \in ExecsOf(j) /\ Active(x) /\ x \notin Completing(j) \cup Calling(j)
  <2>1. x \in ExecsOf(j) /\ x \in Execs /\ \E g \in Gpus : x \in running[g]
    BY <1>0, <1>1 DEF Running, ExecsOf, Sent
  <2>2. conts[x].phase = "none" /\ \A h \in Gpus : handler[h].exec # x
    BY <2>1 DEF RoundInv, ExecAlone
  <2> QED  BY <2>1, <2>2 DEF Active, Runs, Completing, Calling
<1>2. ASSUME NEW x \in Completing(j)
      PROVE  x \in ExecsOf(j) /\ Active(x) /\ x \notin Calling(j)
  <2>1. PICK g \in Gpus : /\ handler[g].exec = x
                          /\ \/ handler[g].pc \in {"start", "publish"}
                             \/ handler[g].pc = "ack" /\ handler[g].next # "idle"
    BY <1>2 DEF Completing
  <2>2. x \in ExecsOf(j) /\ x \in Execs /\ Completes(x)
    BY <1>0, <1>2, <2>1 DEF Completing, ExecsOf, Sent, Completes
  <2>3. conts[x].phase = "none"
    <3>1. CASE handler[g].pc = "publish"
      BY <2>1, <3>1 DEF FreshInv, Alone, PublishAlone
    <3>2. CASE handler[g].pc # "publish"
      BY <2>1, <2>2, <3>2 DEF Early, RoundInv, ExecAlone
    <3> QED  BY <3>1, <3>2
  <2> QED  BY <2>2, <2>3 DEF Active, Calling
<1>3. ASSUME NEW x \in Calling(j) PROVE x \in ExecsOf(j) /\ Active(x)
  BY <1>3 DEF Calling, Active
<1> QED
  BY <1>1, <1>2, <1>3

LEMMA OnePlaceHolds ==
  ASSUME BaseInv, RoundInv, FreshInv, NEW j \in Jobs
  PROVE  OnePlace(j)
<1> DEFINE Q == Queued(j)
           R == Running(j)
           M == Completing(j)
           C == Calling(j)
<1>1. /\ \A x, y \in Q : x = y
      /\ \A x, y \in R : x = y
      /\ \A x, y \in M : x = y
      /\ \A x, y \in C : x = y
  BY Together, PlacesApart
<1>2. /\ Q # {} => R = {} /\ M = {} /\ C = {}
      /\ R # {} => M = {} /\ C = {}
      /\ M # {} => C = {}
  <2>1. ASSUME NEW x, NEW y, x \in R \cup M \cup C, y \in R \cup M \cup C PROVE x = y
    BY <2>1, Together, PlacesApart
  <2>2. Q # {} => R = {} /\ M = {} /\ C = {}
    BY Together, PlacesApart
  <2> QED  BY <2>1, <2>2, PlacesApart
<1>3. Cardinality(Q) + Cardinality(R) + Cardinality(M) + Cardinality(C) <= 1
  <2> HIDE DEF Q, R, M, C
  <2>1. /\ Cardinality(Q) \in {0, 1} /\ (Q = {} => Cardinality(Q) = 0)
        /\ Cardinality(R) \in {0, 1} /\ (R = {} => Cardinality(R) = 0)
        /\ Cardinality(M) \in {0, 1} /\ (M = {} => Cardinality(M) = 0)
        /\ Cardinality(C) \in {0, 1} /\ (C = {} => Cardinality(C) = 0)
    BY <1>1, AtMostOne
  <2> QED  BY <1>2, <2>1
<1>4. answered[j] = "done" => Q \cup R \cup C = {}
  <2> SUFFICES ASSUME answered[j] = "done" PROVE Q \cup R \cup C = {}
    OBVIOUS
  <2>1. \A e \in 1 .. added : queue[e].job = j => ~Live(e)
    BY DEF FreshInv, Alone, DoneIsOver, Empty
  <2>2. Q = {}
    BY <2>1 DEF Queued, Live, Unsent, Sent
  <2>3. ASSUME NEW x \in ExecsOf(j), Active(x) PROVE FALSE
    <3>1. x \in Sent /\ queue[sent[x]].job = j
      BY DEF ExecsOf, Sent, JobOf
    <3> QED  BY <2>1, <2>3, <3>1, SentIs DEF Live
  <2> QED  BY <2>2, <2>3, PlacesApart
<1> QED
  BY <1>3, <1>4 DEF OnePlace

\* With fresh batches a job is in the queue, on a worker, with the handler of its
\* result or with its tool calls, and in one of them only; once the caller has
\* its answer it is in none (toolshandler.go: recordToolResult starts
\* continueLLMRound once, with the last result, and that adds the one entry of the
\* next round).
THEOREM OneRoundInFlight == Spec => []OneRoundAtATime
<1>1. CASE FreshBatches
  <2>1. BaseInv /\ RoundInv /\ FreshInv => OneRoundAtATime
    BY OnePlaceHolds DEF OneRoundAtATime
  <2> QED  BY <1>1, <2>1, FreshKept, PTL
<1>2. CASE ~FreshBatches
  <2>1. OneRoundAtATime
    BY <1>2 DEF OneRoundAtATime
  <2> QED  BY <2>1, PTL
<1> QED
  BY <1>1, <1>2

\* With fresh batches the conversation of an entry is that of the execution it
\* continues followed by what that said: what the queue carries and what
\* jobContexts holds for the job belong to the same round (toolshandler.go:
\* SaveJobContext keeps what was sent, StartContinuation takes it, continueLLMRound
\* appends the round and queues it).
THEOREM ConversationsAreWhole == Spec => []HistoryMatches
<1>1. CASE FreshBatches
  <2>1. BaseInv /\ FreshInv => HistoryMatches
    <3> SUFFICES ASSUME BaseInv, FreshInv, NEW e \in 1 .. added, queue[e].history # <<>>
                 PROVE  LET x == LastOf(queue[e].history) IN
                          JobOf(x) = queue[e].job /\ queue[e].history = Append(HistoryOf(x), x)
      BY DEF HistoryMatches, Follows
    <3>1. PICK x \in Sent : /\ JobOf(x) = queue[e].job
                            /\ queue[e].history = Append(HistoryOf(x), x)
      BY DEF FreshInv, Contexts, HistoriesMatch
    <3>2. HistoryOf(x) \in Seq(Execs) /\ x \in Execs
      <4>1. sent[x] \in Entries
        BY SentIs DEF BaseInv, BaseType, Entries
      <4>2. x \in Execs
        BY DEF BaseInv, BaseType, Sent, Execs
      <4> QED  BY <4>1, <4>2 DEF HistoryOf, BaseInv, BaseType
    <3>3. LastOf(Append(HistoryOf(x), x)) = x
      BY <3>2, AppendProperties DEF LastOf
    <3> QED  BY <3>1, <3>3
  <2> QED  BY <1>1, <2>1, FreshKept, PTL
<1>2. CASE ~FreshBatches
  <2>1. HistoryMatches
    BY <1>2 DEF HistoryMatches
  <2> QED  BY <2>1, PTL
<1> QED
  BY <1>1, <1>2
=============================================================================
