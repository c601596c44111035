------------------------- MODULE ContinuationProofs -------------------------
(***************************************************************************)
(* Proofs about Continuation, for any number of jobs, workers, tools       *)
(* workers, rounds and executions, and whatever the timing of the readers. *)
(*                                                                         *)
(* The invariant has three layers: what exists (entries are submitted,     *)
(* executions sent), who holds a tool call (one process at a time, while   *)
(* its round is open), and what a worker runs (the entry it is tracked     *)
(* under, unless its caller is answered).                                  *)
(***************************************************************************)
EXTENDS Continuation, TLAPS, FiniteSetTheorems, SequenceTheorems

USE SlotsAssumption, BoundsAssumption, CallsAssumption

-----------------------------------------------------------------------------
(* What exists.                                                            *)

Readable == 1 .. delivered
Sent     == 1 .. sends

\* TypeOK, but for the bound of the countdown, which rests on the next layer.
BaseType ==
  /\ added \in 0 .. MaxEntries
  /\ queue \in [Entries -> [job : Jobs \cup {0}, history : Seq(Execs)]]
  /\ delivered \in 0 .. added
  /\ pel \in [Entries -> Gpus \cup {NoGpu}]
  /\ answered \in [Jobs -> {"none", "done", "error", "timeout"}]
  /\ tracked \in [Gpus -> [Jobs -> Entries \cup {0}]]
  /\ reader \in [Gpus -> [pc : ReaderPCs, todo : SUBSET Entries, entry : Entries \cup {0}]]
  /\ sends \in 0 .. MaxSends
  /\ sent \in [Execs -> Entries \cup {0}]
  /\ running \in [Gpus -> SUBSET Execs]
  /\ handler \in [Gpus -> [pc : HandlerPCs, exec : Execs \cup {0}, entry : Entries \cup {0},
                           calls : SUBSET Calls, next : {"idle", "start", "publish"},
                           tool : Tools \cup {NoTool}]]
  /\ jobContexts \in [Jobs -> Seq(Execs) \cup {NoContext}]
  /\ pendingConts \in [Jobs -> Execs \cup {0}]
  /\ conts \in [Execs -> [phase : Phases, history : Seq(Execs), calls : SUBSET Calls,
                          got : SUBSET Calls, remaining : Int]]
  /\ links \in [Tools -> {"off", "up", "broken"}]
  /\ toolJobs \in [Tools -> SUBSET (Execs \X Calls)]
  /\ toolLoop \in [Tools -> [exec : Execs \cup {0}, call : Calls \cup {0},
                             found : Execs \cup {0}]]

\* Nobody handles an entry before it is delivered or an execution before it is
\* sent, and an entry is handled under the job it was enqueued for.
QueueExists == \A e \in 1 .. added : queue[e].job \in Jobs
SentExists  == \A x \in Sent : sent[x] \in Readable
PelExists   == \A e \in Entries : pel[e] # NoGpu => e <= delivered
TrackedExists(g) ==
  \A j \in Jobs : tracked[g][j] # 0 =>
    tracked[g][j] <= delivered /\ queue[tracked[g][j]].job = j
ReaderExists(g) ==
  /\ reader[g].todo \subseteq Readable
  /\ reader[g].pc \in {"assign", "send"} => reader[g].entry \in Readable
RunningExists(g) == running[g] \subseteq Sent
HandlerExists(g) ==
  /\ handler[g].exec \in Sent \cup {0}
  /\ handler[g].pc # "idle" => handler[g].exec # 0
  /\ handler[g].pc = "ack" =>
       handler[g].entry \in Readable /\ queue[handler[g].entry].job = JobOf(handler[g].exec)
ContsExist == \A x \in Execs : conts[x].phase # "none" => x \in Sent
ToolJobsExist(t) == \A x \in Execs, c \in Calls : <<x, c>> \in toolJobs[t] => x \in Sent
LoopExists(t) ==
  toolLoop[t].exec # 0 => toolLoop[t].exec \in Sent /\ toolLoop[t].call \in Calls

Existing ==
  /\ QueueExists /\ SentExists /\ PelExists
  /\ \A g \in Gpus :
       TrackedExists(g) /\ ReaderExists(g) /\ RunningExists(g) /\ HandlerExists(g)
  /\ ContsExist
  /\ \A t \in Tools : ToolJobsExist(t) /\ LoopExists(t)

BaseInv == BaseType /\ Existing

-----------------------------------------------------------------------------
(* Who holds a tool call.                                                  *)

AtHandler(g, x, c) ==
  handler[g].pc = "send" /\ handler[g].exec = x /\ c \in handler[g].calls
AtWorker(t, x, c) == <<x, c>> \in toolJobs[t]
AtLoop(t, x, c)   == toolLoop[t].exec = x /\ toolLoop[t].call = c

\* The handler has not begun a continuation for the execution.
Early(g, x) == handler[g].pc \in {"untrack", "ack", "start"} /\ handler[g].exec = x

\* An execution is in one worker or in one handler.
ExecAlone ==
  \A x \in Execs, g \in Gpus :
    /\ x \in running[g] =>
         /\ conts[x].phase = "none"
         /\ \A h \in Gpus : (x \in running[h] => g = h) /\ handler[h].exec # x
    /\ Early(g, x) => conts[x].phase = "none"
    /\ handler[g].exec = x => \A h \in Gpus : handler[h].exec = x => g = h

\* A call on its way belongs to an open round that still misses its result.
Missing(x, c) == conts[x].phase = "open" /\ c \in conts[x].calls \ conts[x].got
OnItsWay(x, c) ==
  \/ \E g \in Gpus : AtHandler(g, x, c)
  \/ \E t \in Tools : AtWorker(t, x, c) \/ AtLoop(t, x, c)
CallsMissing == \A x \in Execs, c \in Calls : OnItsWay(x, c) => Missing(x, c)

\* A call is in one place.
CallAlone ==
  \A x \in Execs, c \in Calls, t \in Tools :
    /\ AtWorker(t, x, c) \/ AtLoop(t, x, c) => \A g \in Gpus : ~AtHandler(g, x, c)
    /\ AtWorker(t, x, c) => \A u \in Tools : ~AtLoop(u, x, c) /\ (AtWorker(u, x, c) => t = u)
    /\ AtLoop(t, x, c) => \A u \in Tools : AtLoop(u, x, c) => t = u

\* The countdown counts what is missing.
Countdown ==
  \A x \in Execs :
    /\ conts[x].got \subseteq conts[x].calls
    /\ conts[x].remaining = Cardinality(conts[x].calls \ conts[x].got)
    /\ conts[x].phase \in {"save", "enqueue", "over"} => conts[x].got = conts[x].calls

RoundInv == ExecAlone /\ CallsMissing /\ CallAlone /\ Countdown

-----------------------------------------------------------------------------
(* What a worker runs.                                                     *)

Waiting(j) == answered[j] = "none"

TrackInv ==
  \A g \in Gpus :
    /\ \A x \in running[g] : Waiting(JobOf(x)) =>
         /\ tracked[g][JobOf(x)] = sent[x]
         /\ \A y \in running[g] : JobOf(y) = JobOf(x) => y = x
    /\ reader[g].pc = "send" /\ Waiting(queue[reader[g].entry].job) =>
         /\ tracked[g][queue[reader[g].entry].job] = reader[g].entry
         /\ \A x \in running[g] : JobOf(x) # queue[reader[g].entry].job
    /\ handler[g].pc = "untrack" => ~Waiting(JobOf(handler[g].exec))
    /\ handler[g].pc = "ack" /\ Waiting(JobOf(handler[g].exec)) =>
         handler[g].entry = sent[handler[g].exec]

-----------------------------------------------------------------------------
(* Types, step by step.                                                    *)

HandlerType == [pc : HandlerPCs, exec : Execs \cup {0}, entry : Entries \cup {0},
                calls : SUBSET Calls, next : {"idle", "start", "publish"},
                tool : Tools \cup {NoTool}]

ContType == [phase : Phases, history : Seq(Execs), calls : SUBSET Calls,
             got : SUBSET Calls, remaining : Int]

LEMMA ReaderTypeKept ==
  ASSUME BaseType, NEW g \in Gpus, NEW pc \in ReaderPCs, NEW todo \in SUBSET Entries,
         NEW e \in Entries \cup {0}, ReaderAt(g, pc, todo, e)
  PROVE  reader' \in [Gpus -> [pc : ReaderPCs, todo : SUBSET Entries, entry : Entries \cup {0}]]
BY DEF BaseType, ReaderAt

LEMMA IdleType == IdleHandler \in HandlerType
BY DEF IdleHandler, HandlerType, HandlerPCs

LEMMA HandlerTypeKept ==
  ASSUME BaseType, NEW g \in Gpus, NEW pc \in HandlerPCs, HandlerGoes(g, pc)
  PROVE  handler' \in [Gpus -> HandlerType]
<1>1. handler \in [Gpus -> HandlerType]
  BY DEF BaseType, HandlerType
<1>2. [handler[g] EXCEPT !.pc = pc] \in HandlerType
  BY <1>1 DEF HandlerType
<1>3. CASE pc = "idle"
  <2>1. handler' = [handler EXCEPT ![g] = IdleHandler]
    BY <1>3 DEF HandlerGoes
  <2> QED  BY <1>1, <2>1, IdleType
<1>4. CASE pc # "idle"
  <2>1. handler' = [handler EXCEPT ![g] = [handler[g] EXCEPT !.pc = pc]]
    BY <1>4 DEF HandlerGoes
  <2> QED  BY <1>1, <1>2, <2>1
<1> QED
  BY <1>3, <1>4

LEMMA HandlerSends ==
  ASSUME BaseType, NEW g \in Gpus, NEW t \in Tools,
         handler' = [handler EXCEPT ![g].pc = "send", ![g].tool = t]
  PROVE  handler' \in [Gpus -> HandlerType]
<1> DEFINE h == [handler[g] EXCEPT !.pc = "send", !.tool = t]
<1>1. handler \in [Gpus -> HandlerType]
  BY DEF BaseType, HandlerType
<1>2. h \in HandlerType
  BY <1>1 DEF HandlerType, HandlerPCs
<1>3. handler' = [handler EXCEPT ![g] = h]
  BY <1>1 DEF HandlerType
<1> HIDE DEF h
<1> QED  BY <1>1, <1>2, <1>3

LEMMA PhaseTypeKept ==
  ASSUME BaseType, NEW x \in Execs, NEW phase \in Phases,
         conts' = [conts EXCEPT ![x].phase = phase]
  PROVE  conts' \in [Execs -> ContType]
<1> DEFINE new == [conts[x] EXCEPT !.phase = phase]
<1>1. conts \in [Execs -> ContType]
  BY DEF BaseType, ContType
<1>2. new \in ContType
  BY <1>1 DEF ContType
<1>3. conts' = [conts EXCEPT ![x] = new]
  BY <1>1 DEF ContType
<1> HIDE DEF new
<1> QED  BY <1>1, <1>2, <1>3

LEMMA NextCallType ==
  ASSUME BaseType, NEW g \in Gpus, NEW c, NextCall(g, c)
  PROVE  handler' \in [Gpus -> HandlerType]
<1>1. handler \in [Gpus -> HandlerType]
  BY DEF BaseType, HandlerType
<1>2. [handler[g] EXCEPT !.calls = handler[g].calls \ {c}] \in HandlerType
  BY <1>1 DEF HandlerType
<1>3. CASE handler[g].calls \ {c} = {}
  <2>1. handler' = [handler EXCEPT ![g] = IdleHandler]
    BY <1>3 DEF NextCall
  <2> QED  BY <1>1, <2>1, IdleType
<1>4. CASE handler[g].calls \ {c} # {}
  <2>1. handler' = [handler EXCEPT ![g] = [handler[g] EXCEPT !.calls = handler[g].calls \ {c}]]
    BY <1>4 DEF NextCall
  <2> QED  BY <1>1, <1>2, <2>1
<1> QED
  BY <1>3, <1>4

LEMMA BaseTypeReader ==
  ASSUME BaseInv, NEW g \in Gpus, ReaderStep(g)
  PROVE  BaseType'
<1> USE DEF BaseInv, BaseType, queueVars, execVars, contVars, toolVars
<1> DEFINE ReaderOK ==
      reader' \in [Gpus -> [pc : ReaderPCs, todo : SUBSET Entries, entry : Entries \cup {0}]]
<1>n. ASSUME NextEntry(g) PROVE ReaderOK
  <2>1. ReaderAt(g, "top", reader[g].todo, 0) \/ ReaderAt(g, "save", reader[g].todo, 0)
    <3>1. CASE reader[g].todo = {}
      BY <1>n, <3>1 DEF NextEntry
    <3>2. CASE reader[g].todo # {}
      BY <1>n, <3>2 DEF NextEntry
    <3> QED  BY <3>1, <3>2
  <2>2. reader[g].todo \in SUBSET Entries
    OBVIOUS
  <2> QED  BY <2>1, <2>2, ReaderTypeKept DEF ReaderPCs
<1>1. CASE ExpireStaleJobs(g)
  <2>1. ReaderOK
    BY <1>1, ReaderTypeKept DEF ExpireStaleJobs, ReaderPCs
  <2>2. PICK stale \in SUBSET Jobs :
       /\ pel' = [e \in Entries |-> IF \E j \in stale : tracked[g][j] = e THEN NoGpu ELSE pel[e]]
       /\ tracked' = [tracked EXCEPT ![g] = [j \in Jobs |-> IF j \in stale THEN 0 ELSE @[j]]]
       /\ answered' = [j \in Jobs |-> IF j \in stale /\ answered[j] = "none"
                                      THEN "timeout" ELSE answered[j]]
    BY <1>1, SlowAssumption DEF ExpireStaleJobs
  <2>3. tracked' \in [Gpus -> [Jobs -> Entries \cup {0}]]
    <3> DEFINE left == [j \in Jobs |-> IF j \in stale THEN 0 ELSE tracked[g][j]]
    <3>1. left \in [Jobs -> Entries \cup {0}]
      OBVIOUS
    <3>2. tracked' = [tracked EXCEPT ![g] = left]
      BY <2>2
    <3> HIDE DEF left
    <3> QED  BY <3>1, <3>2
  <2> QED  BY <1>1, <2>1, <2>2, <2>3 DEF ExpireStaleJobs
<1>2. CASE ReadPending(g)
  <2>1. PICK batch \in SUBSET Entries : batch = {e \in Entries : pel[e] = g}
    OBVIOUS
  <2>2. ReaderAt(g, "block", batch, 0) \/ ReaderAt(g, "save", batch, 0)
    BY <1>2, <2>1 DEF ReadPending
  <2>3. ReaderOK
    BY <2>2, ReaderTypeKept DEF ReaderPCs
  <2> QED  BY <1>2, <2>3 DEF ReadPending
<1>3. CASE ReadNew(g)
  <2>1. delivered + 1 \in Entries
    BY <1>3 DEF ReadNew, Entries
  <2>2. ReaderOK
    BY <1>3, <2>1, ReaderTypeKept DEF ReadNew, ReaderPCs
  <2> QED  BY <1>3, <2>1, <2>2 DEF ReadNew
<1>4. CASE ReadTimeout(g)
  <2>1. ReaderOK
    BY <1>4, ReaderTypeKept DEF ReadTimeout, ReaderPCs
  <2> QED  BY <1>4, <2>1 DEF ReadTimeout
<1>5. CASE SaveJobContext(g)
  <2>1. PICK e \in reader[g].todo :
          /\ jobContexts' = [jobContexts EXCEPT ![queue[e].job] = queue[e].history]
          /\ ReaderAt(g, "assign", reader[g].todo \ {e}, e)
    BY <1>5 DEF SaveJobContext, IsFirst
  <2>2. ReaderOK
    BY <2>1, ReaderTypeKept DEF ReaderPCs
  <2>3. jobContexts' \in [Jobs -> Seq(Execs) \cup {NoContext}]
    BY <2>1
  <2> QED  BY <1>5, <2>2, <2>3 DEF SaveJobContext
<1>6. CASE AssignJob(g)
  <2>1. ReaderOK /\ tracked' \in [Gpus -> [Jobs -> Entries \cup {0}]]
    <3>1. CASE NextEntry(g) /\ UNCHANGED tracked
      BY <1>n, <3>1
    <3>2. CASE /\ tracked' = [tracked EXCEPT ![g][queue[reader[g].entry].job] = reader[g].entry]
               /\ ReaderAt(g, "send", reader[g].todo, reader[g].entry)
      <4>1. ReaderOK
        BY <3>2, ReaderTypeKept DEF ReaderPCs
      <4> QED  BY <3>2, <4>1
    <3> QED  BY <1>6, <3>1, <3>2 DEF AssignJob
  <2> QED  BY <1>6, <2>1 DEF AssignJob
<1>7. CASE SendJob(g)
  <2>1. ReaderOK
    BY <1>7, <1>n DEF SendJob
  <2>2. sends + 1 \in Execs
    BY <1>7 DEF SendJob, Execs
  <2>3. sent' \in [Execs -> Entries \cup {0}] /\ running' \in [Gpus -> SUBSET Execs]
    <3>1. sent' = [sent EXCEPT ![sends + 1] = reader[g].entry]
      BY <1>7 DEF SendJob
    <3>2. running' = [running EXCEPT ![g] = running[g] \cup {sends + 1}]
      BY <1>7 DEF SendJob
    <3>3. running[g] \cup {sends + 1} \in SUBSET Execs
      BY <2>2
    <3> QED  BY <3>1, <3>2, <3>3
  <2>4. sends' \in 0 .. MaxSends
    BY <1>7 DEF SendJob
  <2> QED  BY <1>7, <2>1, <2>3, <2>4 DEF SendJob
<1> QED
  BY <1>1, <1>2, <1>3, <1>4, <1>5, <1>6, <1>7 DEF ReaderStep

\* What recordToolResult makes of the continuation it finds.
Recorded(x, c) ==
  [phase     |-> IF conts[x].remaining = 1 THEN "save" ELSE conts[x].phase,
   history   |-> conts[x].history,
   calls     |-> conts[x].calls,
   got       |-> conts[x].got \cup {c},
   remaining |-> conts[x].remaining - 1]

LEMMA RecordEffect ==
  ASSUME BaseType, NEW x \in Execs, NEW c \in Calls, RecordResult(x, x, c)
  PROVE  /\ Recorded(x, c) \in ContType
         /\ conts' = [conts EXCEPT ![x] = Recorded(x, c)]
<1>1. conts \in [Execs -> ContType]
  BY DEF BaseType, ContType
<1>2. Recorded(x, c) \in ContType
  BY <1>1 DEF Recorded, ContType, Phases
<1>3. conts' = [conts EXCEPT ![x].got = conts[x].got \cup {c},
                             ![x].remaining = conts[x].remaining - 1,
                             ![x].phase = IF conts[x].remaining = 1 THEN "save" ELSE conts[x].phase]
  BY DEF RecordResult
<1>4. conts'[x] = Recorded(x, c) /\ \A y \in Execs : y # x => conts'[y] = conts[y]
  BY <1>1, <1>3 DEF Recorded, ContType
<1>5. DOMAIN conts' = Execs /\ conts' = [y \in DOMAIN conts' |-> conts'[y]]
  BY <1>1, <1>3
<1> HIDE DEF Recorded
<1> QED
  BY <1>1, <1>2, <1>4, <1>5

LEMMA RecordTypeKept ==
  ASSUME BaseType, NEW found, NEW x \in Execs, NEW c \in Calls, RecordResult(found, x, c),
         JobOf(x) \in Jobs
  PROVE  conts' \in [Execs -> ContType] /\ pendingConts' \in [Jobs -> Execs \cup {0}]
<1>1. conts \in [Execs -> ContType] /\ pendingConts \in [Jobs -> Execs \cup {0}]
  BY DEF BaseType, ContType
<1>2. CASE found # x
  BY <1>1, <1>2 DEF RecordResult
<1>3. CASE found = x
  <2>1. pendingConts' \in [Jobs -> Execs \cup {0}]
    <3>1. CASE conts[x].remaining = 1
      BY <1>1, <1>3, <3>1 DEF RecordResult
    <3>2. CASE conts[x].remaining # 1
      BY <1>1, <1>3, <3>2 DEF RecordResult
    <3> QED  BY <3>1, <3>2
  <2>2. conts' \in [Execs -> ContType]
    BY <1>1, <1>3, RecordEffect
  <2> QED  BY <2>1, <2>2
<1> QED
  BY <1>2, <1>3

LEMMA BaseTypeReceive ==
  ASSUME BaseInv, NEW g \in Gpus, NEW x \in Execs, NEW calls \in SUBSET Calls,
         ReceiveError(g, x) \/ EndsInSilence(g, x) \/ ReceiveComplete(g, x, calls)
  PROVE  BaseType'
<1> USE DEF BaseInv, BaseType, queueVars, execVars, contVars, toolVars
<1>1. JobOf(x) \in Jobs
  BY DEF Existing, QueueExists, SentExists, RunningExists, JobOf, ReceiveError, EndsInSilence, ReceiveComplete, Sent, Readable, Entries
<1>2. running' \in [Gpus -> SUBSET Execs]
  <2>1. running' = [running EXCEPT ![g] = running[g] \ {x}]
    BY DEF ReceiveError, EndsInSilence, ReceiveComplete
  <2> QED  BY <2>1
<1>3. tracked' \in [Gpus -> [Jobs -> Entries \cup {0}]]
  <2>1. tracked' = tracked \/ tracked' = [tracked EXCEPT ![g][JobOf(x)] = 0]
    BY DEF ReceiveError, EndsInSilence, ReceiveComplete
  <2>2. [tracked[g] EXCEPT ![JobOf(x)] = 0] \in [Jobs -> Entries \cup {0}]
    BY <1>1
  <2> QED  BY <2>1, <2>2
<1>4. answered' \in [Jobs -> {"none", "done", "error", "timeout"}]
  BY <1>1 DEF ReceiveError, EndsInSilence, ReceiveComplete, Publish
<1>5. handler' \in [Gpus -> HandlerType]
  <2>1. PICK h \in HandlerType : handler' = [handler EXCEPT ![g] = h]
    BY <1>1 DEF ReceiveError, EndsInSilence, ReceiveComplete, HandlerType, HandlerPCs
  <2> QED  BY <2>1 DEF HandlerType
<1> QED
  BY <1>2, <1>3, <1>4, <1>5 DEF ReceiveError, EndsInSilence, ReceiveComplete, HandlerType

LEMMA BaseTypeHandler ==
  ASSUME BaseInv, NEW g \in Gpus, HandlerStep(g)
  PROVE  BaseType'
<1> USE DEF BaseInv, BaseType, queueVars, execVars, contVars, toolVars
<1> DEFINE x == handler[g].exec
<1>1. handler[g].pc # "idle" => x \in Execs /\ JobOf(x) \in Jobs
  BY SMTT(30) DEF Existing, QueueExists, SentExists, HandlerExists, JobOf, Sent, Readable, Entries, Execs
<1>2. CASE UntrackJob(g)
  <2>1. tracked' \in [Gpus -> [Jobs -> Entries \cup {0}]]
    BY <1>1, <1>2 DEF UntrackJob
  <2>2. PICK h \in HandlerType : handler' = [handler EXCEPT ![g] = h]
    <3>1. CASE tracked[g][JobOf(x)] = 0
      BY <1>2, <3>1, IdleType DEF UntrackJob
    <3>2. CASE tracked[g][JobOf(x)] # 0
      <4> DEFINE h == [handler[g] EXCEPT !.pc = "ack", !.entry = tracked[g][JobOf(x)]]
      <4>1. h \in HandlerType
        <5>1. handler[g] \in HandlerType /\ tracked[g][JobOf(x)] \in Entries \cup {0}
          BY <1>1, <1>2 DEF UntrackJob, HandlerType
        <5> QED  BY <5>1 DEF HandlerType, HandlerPCs
      <4>2. handler' = [handler EXCEPT ![g] = h]
        BY <1>2, <3>2 DEF UntrackJob
      <4> QED  BY <4>1, <4>2
    <3> QED  BY <3>1, <3>2
  <2>3. handler' \in [Gpus -> HandlerType]
    BY <2>2 DEF HandlerType
  <2> QED  BY <1>2, <2>1, <2>3 DEF UntrackJob, HandlerType
<1>3. CASE AckJob(g)
  <2>1. handler[g].next \in HandlerPCs
    BY DEF HandlerPCs
  <2>2. handler' \in [Gpus -> HandlerType]
    BY <1>3, <2>1, HandlerTypeKept DEF AckJob
  <2> QED  BY <1>3, <2>2 DEF AckJob, HandlerType
<1>4. CASE StartContinuation(g)
  <2> DEFINE new == [phase |-> "open", history |-> jobContexts[JobOf(x)],
                     calls |-> handler[g].calls, got |-> {},
                     remaining |-> Cardinality(handler[g].calls)]
  <2>1. PICK t \in Tools : handler' = [handler EXCEPT ![g].pc = "send", ![g].tool = t]
    BY <1>4 DEF StartContinuation, Registered
  <2>2. handler' \in [Gpus -> HandlerType]
    BY <2>1, HandlerSends
  <2>3. Cardinality(handler[g].calls) \in Int
    BY FS_Subset, FS_CardinalityType
  <2>4. jobContexts[JobOf(x)] \in Seq(Execs)
    BY <1>1, <1>4 DEF StartContinuation
  <2>5. new \in [phase : Phases, history : Seq(Execs), calls : SUBSET Calls,
                  got : SUBSET Calls, remaining : Int]
    BY <2>3, <2>4 DEF Phases
  <2>6. conts' = [conts EXCEPT ![x] = new] /\ pendingConts' = [pendingConts EXCEPT ![JobOf(x)] = x]
    BY <1>4 DEF StartContinuation
  <2> HIDE DEF new
  <2>7. conts' \in [Execs -> [phase : Phases, history : Seq(Execs), calls : SUBSET Calls,
                                 got : SUBSET Calls, remaining : Int]]
    BY <2>5, <2>6
  <2>8. pendingConts' \in [Jobs -> Execs \cup {0}]
    BY <1>1, <1>4, <2>6 DEF StartContinuation
  <2> QED  BY <1>4, <2>2, <2>7, <2>8 DEF StartContinuation, HandlerType
<1>5. CASE PassThrough(g)
  <2>1. handler' \in [Gpus -> HandlerType]
    BY <1>5, HandlerTypeKept DEF PassThrough, HandlerPCs
  <2> QED  BY <1>5, <2>1 DEF PassThrough, HandlerType
<1>6. CASE PublishDone(g)
  <2>1. handler' \in [Gpus -> HandlerType]
    BY <1>6, HandlerTypeKept DEF PublishDone, HandlerPCs
  <2> QED  BY <1>1, <1>6, <2>1 DEF PublishDone, Publish, HandlerType
<1>7. CASE DeleteJobContext(g)
  <2>1. handler' \in [Gpus -> HandlerType]
    BY <1>7, HandlerTypeKept DEF DeleteJobContext, HandlerPCs
  <2> QED  BY <1>1, <1>7, <2>1 DEF DeleteJobContext, HandlerType
<1>8. ASSUME NEW c \in Calls, SendToolJob(g, c) PROVE BaseType'
  <2>1. handler' \in [Gpus -> HandlerType]
    BY <1>8, NextCallType DEF SendToolJob
  <2>2. toolJobs' \in [Tools -> SUBSET (Execs \X Calls)]
    <3>1. CASE IsDead(handler[g].tool)
      BY <1>8, <3>1 DEF SendToolJob
    <3>2. CASE ~IsDead(handler[g].tool)
      <4>1. handler[g].tool \in Tools
        BY <3>2 DEF IsDead
      <4>2. <<x, c>> \in Execs \X Calls
        BY <1>1, <1>8 DEF SendToolJob
      <4>3. toolJobs' = [toolJobs EXCEPT ![handler[g].tool] = toolJobs[handler[g].tool] \cup {<<x, c>>}]
        BY <1>8, <3>2 DEF SendToolJob
      <4> QED  BY <4>1, <4>2, <4>3
    <3> QED  BY <3>1, <3>2
  <2> QED  BY <1>8, <2>1, <2>2 DEF SendToolJob, HandlerType
<1>9. ASSUME NEW c \in Calls, SendToolJobFails(g, c) PROVE BaseType'
  <2>1. handler' \in [Gpus -> HandlerType]
    BY <1>9, NextCallType DEF SendToolJobFails
  <2>2. RecordResult(pendingConts[JobOf(x)], x, c)
    BY <1>9 DEF SendToolJobFails
  <2> QED  BY <1>1, <1>9, <2>1, <2>2, RecordTypeKept DEF SendToolJobFails, HandlerType, ContType
<1> QED
  BY <1>2, <1>3, <1>4, <1>5, <1>6, <1>7, <1>8, <1>9 DEF HandlerStep

LEMMA BaseTypeRound ==
  ASSUME BaseInv, NEW x \in Execs, NextRound(x)
  PROVE  BaseType'
<1> USE DEF BaseInv, BaseType, queueVars, execVars, contVars, toolVars
<1>1. JobOf(x) \in Jobs
  <2>1. conts[x].phase # "none"
    BY DEF NextRound, UpdateJobContext, Requeue, RequeueFails
  <2>2. sent[x] \in 1 .. added
    BY <2>1 DEF Existing, SentExists, ContsExist, Readable
  <2> QED  BY <2>2 DEF Existing, QueueExists, JobOf
<1> DEFINE Conts(phase) == conts' = [conts EXCEPT ![x].phase = phase]
<1>c. ASSUME NEW phase \in Phases, Conts(phase)
      PROVE  conts' \in [Execs -> [phase : Phases, history : Seq(Execs), calls : SUBSET Calls,
                                    got : SUBSET Calls, remaining : Int]]
  BY <1>c, PhaseTypeKept DEF ContType
<1>2. NextHistory(x) \in Seq(Execs)
  BY AppendProperties DEF NextHistory
<1>3. CASE UpdateJobContext(x)
  <2>1. jobContexts' \in [Jobs -> Seq(Execs) \cup {NoContext}]
    BY <1>1, <1>2, <1>3 DEF UpdateJobContext
  <2>2. Conts("enqueue")
    BY <1>3 DEF UpdateJobContext
  <2> QED  BY <1>3, <1>c, <2>1, <2>2 DEF UpdateJobContext, Phases
<1>4. CASE Requeue(x)
  <2>1. added + 1 \in Entries /\ added' = added + 1
    BY <1>4 DEF Requeue, AddEntry, Entries
  <2>2. queue' = [queue EXCEPT ![added + 1] = [job |-> JobOf(x), history |-> NextHistory(x)]]
    BY <1>4 DEF Requeue, AddEntry
  <2>3. queue' \in [Entries -> [job : Jobs \cup {0}, history : Seq(Execs)]]
    BY <1>1, <1>2, <2>1, <2>2
  <2>4. added' \in 0 .. MaxEntries /\ delivered' \in 0 .. added'
    BY <1>4, <2>1 DEF Requeue, AddEntry
  <2>5. Conts("over")
    BY <1>4 DEF Requeue
  <2> QED  BY <1>4, <1>c, <2>3, <2>4, <2>5 DEF Requeue, AddEntry, Phases
<1>5. CASE RequeueFails(x)
  <2>1. answered' \in [Jobs -> {"none", "done", "error", "timeout"}]
    BY <1>1, <1>5 DEF RequeueFails, Publish
  <2>2. Conts("over")
    BY <1>5 DEF RequeueFails
  <2> QED  BY <1>5, <1>c, <2>1, <2>2 DEF RequeueFails, Phases
<1> QED
  BY <1>3, <1>4, <1>5 DEF NextRound

LEMMA BaseTypeSubmit ==
  ASSUME BaseInv, NEW j \in Jobs, Submit(j)
  PROVE  BaseType'
<1> USE DEF BaseInv, BaseType, queueVars, execVars, contVars, toolVars
<1>1. added + 1 \in Entries /\ added' = added + 1
  BY DEF Submit, AddEntry, Entries
<1>2. queue' = [queue EXCEPT ![added + 1] = [job |-> j, history |-> <<>>]]
  BY DEF Submit, AddEntry
<1>3. <<>> \in Seq(Execs)
  OBVIOUS
<1>4. queue' \in [Entries -> [job : Jobs \cup {0}, history : Seq(Execs)]]
  BY <1>1, <1>2, <1>3
<1>5. added' \in 0 .. MaxEntries /\ delivered' \in 0 .. added'
  BY <1>1 DEF Submit, AddEntry
<1> QED
  BY <1>4, <1>5 DEF Submit, AddEntry

ToolsStep(t) ==
  \/ ToolsConnect(t) \/ ToolsBreak(t) \/ ToolsCleanup(t) \/ ToolRecord(t)
  \/ \E x \in Execs, c \in Calls : ToolResult(t, x, c) \/ ToolResultLost(t, x, c)

LEMMA BaseTypeTools ==
  ASSUME BaseInv, NEW t \in Tools, ToolsStep(t)
  PROVE  BaseType'
<1> USE DEF BaseInv, BaseType, queueVars, execVars, contVars, toolVars
<1> DEFINE LoopType == [exec : Execs \cup {0}, call : Calls \cup {0}, found : Execs \cup {0}]
<1>1. CASE ToolsConnect(t)
  BY <1>1 DEF ToolsConnect
<1>2. CASE ToolsBreak(t)
  <2>1. toolJobs' \in [Tools -> SUBSET (Execs \X Calls)]
    BY <1>2 DEF ToolsBreak
  <2> QED  BY <1>2, <2>1 DEF ToolsBreak
<1>3. CASE ToolsCleanup(t)
  <2>1. ASSUME NEW g \in Gpus
        PROVE  [handler[g] EXCEPT !.tool = IF handler[g].tool = t THEN NoTool ELSE @] \in HandlerType
    <3>1. handler[g] \in HandlerType
      BY DEF HandlerType
    <3>2. CASE handler[g].tool = t
      BY <3>1, <3>2 DEF HandlerType
    <3>3. CASE handler[g].tool # t
      BY <3>1, <3>3 DEF HandlerType
    <3> QED  BY <3>2, <3>3
  <2>2. handler' \in [Gpus -> HandlerType]
    BY <1>3, <2>1 DEF ToolsCleanup
  <2> QED  BY <1>3, <2>2 DEF ToolsCleanup, HandlerType
<1>4. CASE ToolRecord(t)
  <2> DEFINE x == toolLoop[t].exec
  <2>1. x \in Execs /\ toolLoop[t].call \in Calls /\ JobOf(x) \in Jobs
    BY <1>4 DEF ToolRecord, Existing, QueueExists, SentExists, LoopExists, JobOf, Sent, Readable, Entries
  <2>2. RecordResult(toolLoop[t].found, x, toolLoop[t].call)
    BY <1>4 DEF ToolRecord
  <2>3. toolLoop' \in [Tools -> LoopType]
    BY <1>4 DEF ToolRecord, IdleLoop
  <2> QED  BY <1>4, <2>1, <2>2, <2>3, RecordTypeKept DEF ToolRecord, ContType
<1>5. ASSUME NEW x \in Execs, NEW c \in Calls, ToolResult(t, x, c) PROVE BaseType'
  <2>1. JobOf(x) \in Jobs
    BY <1>5 DEF ToolResult, Existing, QueueExists, SentExists, ToolJobsExist, JobOf, Sent, Readable, Entries
  <2>2. toolLoop' \in [Tools -> LoopType]
    BY <1>5, <2>1 DEF ToolResult
  <2>3. toolJobs' \in [Tools -> SUBSET (Execs \X Calls)]
    BY <1>5 DEF ToolResult
  <2> QED  BY <1>5, <2>2, <2>3 DEF ToolResult
<1>6. ASSUME NEW x \in Execs, NEW c \in Calls, ToolResultLost(t, x, c) PROVE BaseType'
  <2>1. toolJobs' \in [Tools -> SUBSET (Execs \X Calls)]
    BY <1>6 DEF ToolResultLost
  <2> QED  BY <1>6, <2>1 DEF ToolResultLost
<1> QED
  BY <1>1, <1>2, <1>3, <1>4, <1>5, <1>6 DEF ToolsStep

-----------------------------------------------------------------------------
(* What exists stays, and only what exists is handled.                     *)

Grows ==
  /\ added <= added' /\ delivered <= delivered' /\ sends <= sends'
  /\ \A e \in 1 .. added : queue'[e] = queue[e]
  /\ \A x \in Sent : sent'[x] = sent[x]

LEMMA Growing ==
  ASSUME BaseInv, Next
  PROVE  Grows
<1> USE DEF BaseInv, BaseType, Grows, Sent, queueVars, execVars, contVars, toolVars
<1>1. ASSUME NEW j \in Jobs, Submit(j) PROVE Grows
  BY <1>1 DEF Submit, AddEntry, Entries
<1>2. ASSUME NEW g \in Gpus, ReaderStep(g) PROVE Grows
  <2>1. CASE SendJob(g)
    BY <2>1 DEF SendJob, Execs
  <2>2. CASE ReadNew(g)
    BY <2>2 DEF ReadNew
  <2>3. CASE ~SendJob(g) /\ ~ReadNew(g)
    BY <1>2, <2>3 DEF ReaderStep, ExpireStaleJobs, ReadPending, ReadTimeout, SaveJobContext, AssignJob
  <2> QED  BY <2>1, <2>2, <2>3
<1>3. ASSUME NEW g \in Gpus, HandlerStep(g) PROVE Grows
  BY <1>3 DEF HandlerStep, UntrackJob, AckJob, StartContinuation, PassThrough, PublishDone,
              DeleteJobContext, SendToolJob, SendToolJobFails
<1>4. ASSUME NEW g \in Gpus, NEW x \in Execs, NEW calls \in SUBSET Calls,
             ReceiveError(g, x) \/ EndsInSilence(g, x) \/ ReceiveComplete(g, x, calls)
      PROVE  Grows
  BY <1>4 DEF ReceiveError, EndsInSilence, ReceiveComplete
<1>5. ASSUME NEW x \in Execs, NextRound(x) PROVE Grows
  <2>1. CASE Requeue(x)
    BY <2>1 DEF Requeue, AddEntry, Entries
  <2>2. CASE ~Requeue(x)
    BY <1>5, <2>2 DEF NextRound, UpdateJobContext, RequeueFails
  <2> QED  BY <2>1, <2>2
<1>6. ASSUME NEW t \in Tools, ToolsStep(t) PROVE Grows
  <2>1. UNCHANGED <<queueVars, execVars>>
    BY <1>6 DEF ToolsStep, ToolsConnect, ToolsBreak, ToolsCleanup, ToolRecord, ToolResult, ToolResultLost
  <2> QED  BY <2>1
<1> QED
  BY <1>1, <1>2, <1>3, <1>4, <1>5, <1>6 DEF Next, ToolsStep

LEMMA JobsKept ==
  ASSUME BaseInv, BaseType', Grows
  PROVE  /\ Readable \subseteq Readable' /\ Sent \subseteq Sent'
         /\ \A e \in Readable : queue'[e] = queue[e] /\ e \in 1 .. added
         /\ \A x \in Sent : JobOf(x)' = JobOf(x) /\ HistoryOf(x)' = HistoryOf(x)
                            /\ x \in Execs /\ sent[x] \in Readable /\ JobOf(x) \in Jobs
<1>1. /\ added \in Nat /\ delivered \in 0 .. added /\ sends \in 0 .. MaxSends
      /\ added' \in Nat /\ delivered' \in 0 .. added' /\ sends' \in 0 .. MaxSends
      /\ QueueExists /\ SentExists
  BY DEF BaseInv, BaseType, Existing
<1>2. Readable \subseteq Readable' /\ Sent \subseteq Sent'
  BY <1>1 DEF Grows, Readable, Sent
<1>3. \A e \in Readable : queue'[e] = queue[e] /\ e \in 1 .. added
  BY <1>1 DEF Grows, Readable
<1>4. \A x \in Sent : sent'[x] = sent[x] /\ sent[x] \in Readable /\ x \in Execs
  BY <1>1 DEF Grows, SentExists, Sent, Execs
<1>5. ASSUME NEW x \in Sent
      PROVE  JobOf(x)' = JobOf(x) /\ HistoryOf(x)' = HistoryOf(x) /\ JobOf(x) \in Jobs
  BY <1>1, <1>3, <1>4 DEF JobOf, HistoryOf, QueueExists
<1> QED
  BY <1>2, <1>3, <1>4, <1>5

\* A part a step leaves alone stays true of what exists.
LEMMA ExistingFrame ==
  ASSUME BaseInv, BaseType', Grows
  PROVE  /\ added' = added => QueueExists'
         /\ sends' = sends => SentExists'
         /\ pel' = pel => PelExists'
         /\ \A g \in Gpus :
              /\ tracked'[g] = tracked[g] => TrackedExists(g)'
              /\ reader'[g] = reader[g] => ReaderExists(g)'
              /\ running'[g] \subseteq running[g] => RunningExists(g)'
              /\ handler'[g] = handler[g] => HandlerExists(g)'
         /\ conts' = conts => ContsExist'
         /\ \A t \in Tools :
              /\ toolJobs'[t] \subseteq toolJobs[t] => ToolJobsExist(t)'
              /\ toolLoop'[t] = toolLoop[t] => LoopExists(t)'
<1> USE JobsKept DEF BaseInv, Existing
<1>1. /\ added' = added => QueueExists'
      /\ sends' = sends => SentExists'
      /\ pel' = pel => PelExists'
  <2>1. added' = added => QueueExists'
    BY DEF QueueExists, Grows
  <2>2. sends' = sends => SentExists'
    BY DEF SentExists, Grows, Sent
  <2>3. pel' = pel => PelExists'
    BY DEF BaseType, PelExists, Grows, Entries
  <2> QED  BY <2>1, <2>2, <2>3
<1>2. ASSUME NEW g \in Gpus, tracked'[g] = tracked[g] PROVE TrackedExists(g)'
  BY <1>2 DEF BaseType, TrackedExists, Grows, Readable, Entries
<1>3. ASSUME NEW g \in Gpus, reader'[g] = reader[g] PROVE ReaderExists(g)'
  BY <1>3 DEF ReaderExists
<1>4. ASSUME NEW g \in Gpus, running'[g] \subseteq running[g] PROVE RunningExists(g)'
  BY <1>4 DEF RunningExists
<1>5. ASSUME NEW g \in Gpus, handler'[g] = handler[g] PROVE HandlerExists(g)'
  BY <1>5 DEF HandlerExists, JobOf
<1>6. conts' = conts => ContsExist'
  BY DEF ContsExist
<1>7. ASSUME NEW t \in Tools, toolJobs'[t] \subseteq toolJobs[t] PROVE ToolJobsExist(t)'
  BY <1>7 DEF ToolJobsExist
<1>8. ASSUME NEW t \in Tools, toolLoop'[t] = toolLoop[t] PROVE LoopExists(t)'
  BY <1>8 DEF LoopExists
<1> QED
  BY <1>1, <1>2, <1>3, <1>4, <1>5, <1>6, <1>7, <1>8

LEMMA ExistingSubmit ==
  ASSUME BaseInv, BaseType', Grows, NEW j \in Jobs, Submit(j)
  PROVE  Existing'
<1>1. QueueExists'
  <2>1. added' = added + 1 /\ added' \in Entries /\ queue'[added'].job = j
    BY DEF Submit, AddEntry, BaseInv, BaseType, Entries
  <2>2. \A e \in 1 .. added' : e = added' \/ (e \in 1 .. added /\ queue'[e] = queue[e])
    BY <2>1, SMTT(30) DEF Grows, BaseInv, BaseType
  <2> QED  BY <2>1, <2>2 DEF BaseInv, Existing, QueueExists
<1> QED
  BY <1>1, ExistingFrame DEF Existing, Submit, AddEntry, execVars, contVars, toolVars

LEMMA ExistingRound ==
  ASSUME BaseInv, BaseType', Grows, NEW x \in Execs, NextRound(x)
  PROVE  Existing'
<1>1. x \in Sent
  BY DEF NextRound, UpdateJobContext, Requeue, RequeueFails, BaseInv, Existing, ContsExist
<1>2. ContsExist'
  <2>1. sends' = sends /\ \A y \in Execs : y # x => conts'[y] = conts[y]
    BY DEF NextRound, UpdateJobContext, Requeue, RequeueFails, BaseInv, BaseType, execVars
  <2> QED  BY <1>1, <2>1 DEF ContsExist, Sent, BaseInv, Existing
<1>3. QueueExists'
  <2>1. CASE Requeue(x)
    <3>1. JobOf(x) \in Jobs
      BY <1>1, JobsKept
    <3> QED  BY <2>1, <3>1, SMTT(30) DEF Requeue, AddEntry, BaseInv, BaseType, Existing, QueueExists, Entries
  <2>2. CASE ~Requeue(x)
    BY <2>2, ExistingFrame DEF NextRound, UpdateJobContext, RequeueFails, queueVars
  <2> QED  BY <2>1, <2>2
<1>4. UNCHANGED <<pel, tracked, reader, execVars, handler, toolVars>>
  BY DEF NextRound, UpdateJobContext, Requeue, RequeueFails, AddEntry, queueVars
<1> QED
  BY <1>2, <1>3, <1>4, ExistingFrame DEF Existing, execVars, toolVars

LEMMA ExistingReader ==
  ASSUME BaseInv, BaseType', Grows, NEW g \in Gpus, ReaderStep(g)
  PROVE  Existing'
<1> USE DEF BaseInv, queueVars, execVars, contVars, toolVars
<1>1. UNCHANGED <<added, handler, conts, toolJobs, toolLoop>>
  BY DEF ReaderStep, ExpireStaleJobs, ReadPending, ReadNew, ReadTimeout, SaveJobContext,
         AssignJob, SendJob
<1>2. \A h \in Gpus : h # g => /\ tracked'[h] = tracked[h] /\ reader'[h] = reader[h]
                               /\ running'[h] = running[h]
  BY DEF ReaderStep, ExpireStaleJobs, ReadPending, ReadNew, ReadTimeout, SaveJobContext,
         AssignJob, SendJob, NextEntry, ReaderAt, BaseType
<1>3. SUFFICES SentExists' /\ PelExists' /\ TrackedExists(g)' /\ ReaderExists(g)' /\ RunningExists(g)'
  BY <1>1, <1>2, ExistingFrame DEF Existing
<1> DEFINE Goes(todo, e) ==
      /\ reader'[g].todo = todo
      /\ reader'[g].pc \in {"assign", "send"} => reader'[g].entry = e
<1>a. ASSUME NEW pc, NEW todo, NEW e, ReaderAt(g, pc, todo, e) PROVE Goes(todo, e)
  BY <1>a DEF ReaderAt, BaseType
<1>b. ASSUME NextEntry(g) PROVE ReaderExists(g)'
  <2>1. reader'[g].todo = reader[g].todo /\ reader'[g].pc \in {"top", "save"}
    BY <1>b DEF NextEntry, ReaderAt, BaseType
  <2> QED  BY <2>1, JobsKept DEF ReaderExists, Existing
<1>4. CASE ExpireStaleJobs(g)
  <2>1. ReaderExists(g)'
    <3>1. Goes({}, 0) /\ reader'[g].pc = "pending"
      BY <1>4 DEF ExpireStaleJobs, ReaderAt, BaseType
    <3> QED  BY <3>1 DEF ReaderExists
  <2>2. \A j \in Jobs : tracked'[g][j] \in {0, tracked[g][j]}
    BY <1>4 DEF ExpireStaleJobs, BaseType
  <2>3. \A e \in Entries : pel'[e] \in {NoGpu, pel[e]}
    BY <1>4 DEF ExpireStaleJobs, BaseType
  <2>4. UNCHANGED <<queue, delivered, sends, running>>
    BY <1>4 DEF ExpireStaleJobs
  <2>5. TrackedExists(g)'
    BY <2>2, <2>4 DEF TrackedExists, Existing
  <2>6. PelExists'
    BY <2>3, <2>4 DEF PelExists, Existing
  <2> QED  BY <2>1, <2>4, <2>5, <2>6, ExistingFrame
<1>5. CASE ReadPending(g)
  <2>1. {e \in Entries : pel[e] = g} \subseteq Readable
    BY NamesAssumption DEF Existing, PelExists, Readable, BaseType, Entries
  <2>2. reader'[g].todo = {e \in Entries : pel[e] = g} /\ reader'[g].pc \in {"block", "save"}
    BY <1>5 DEF ReadPending, ReaderAt, BaseType
  <2>3. ReaderExists(g)'
    BY <1>5, <2>1, <2>2, JobsKept DEF ReaderExists
  <2> QED  BY <1>5, <2>3, ExistingFrame DEF ReadPending
<1>6. CASE ReadNew(g)
  <2>1. delivered' = delivered + 1 /\ delivered' \in Readable'
    BY <1>6 DEF ReadNew, Readable, BaseType
  <2>2. ReaderExists(g)'
    <3>1. reader'[g].todo = {delivered'} /\ reader'[g].pc = "save"
      BY <1>6, <2>1 DEF ReadNew, ReaderAt, BaseType
    <3> QED  BY <2>1, <3>1 DEF ReaderExists
  <2>3. PelExists'
    BY <1>6, <2>1 DEF ReadNew, PelExists, Existing, BaseType, Entries
  <2> QED  BY <1>6, <2>2, <2>3, ExistingFrame DEF ReadNew
<1>7. CASE ReadTimeout(g)
  <2>1. ReaderExists(g)'
    <3>1. reader'[g].todo = {} /\ reader'[g].pc = "top"
      BY <1>7 DEF ReadTimeout, ReaderAt, BaseType
    <3> QED  BY <3>1 DEF ReaderExists
  <2> QED  BY <1>7, <2>1, ExistingFrame DEF ReadTimeout
<1>8. CASE SaveJobContext(g)
  <2>1. PICK e \in reader[g].todo : ReaderAt(g, "assign", reader[g].todo \ {e}, e)
    BY <1>8 DEF SaveJobContext, IsFirst
  <2>2. ReaderExists(g)'
    BY <1>a, <2>1, JobsKept DEF ReaderExists, Existing
  <2> QED  BY <1>8, <2>2, ExistingFrame DEF SaveJobContext
<1>9. CASE AssignJob(g)
  <2> DEFINE e == reader[g].entry
  <2>1. e \in Readable /\ queue[e].job \in Jobs
    BY <1>9 DEF AssignJob, Existing, ReaderExists, QueueExists, BaseType, Readable
  <2>2. CASE NextEntry(g) /\ UNCHANGED tracked
    BY <1>9, <1>b, <2>2, ExistingFrame DEF AssignJob
  <2>3. CASE /\ tracked' = [tracked EXCEPT ![g][queue[e].job] = e]
             /\ ReaderAt(g, "send", reader[g].todo, e)
    <3>1. ReaderExists(g)'
      BY <1>a, <2>1, <2>3, JobsKept DEF ReaderExists, Existing
    <3>2. tracked'[g] = [tracked[g] EXCEPT ![queue[e].job] = e]
      BY <2>3 DEF BaseType
    <3>3. \A j \in Jobs : tracked'[g][j] = IF j = queue[e].job THEN e ELSE tracked[g][j]
      BY <3>2 DEF BaseType
    <3>4. UNCHANGED <<queue, delivered>> /\ e <= delivered
      BY <1>9, <2>1 DEF AssignJob, Readable
    <3>5. TrackedExists(g)'
      BY <3>3, <3>4 DEF TrackedExists, Existing
    <3> QED  BY <1>9, <3>1, <3>5, ExistingFrame DEF AssignJob
  <2> QED  BY <1>9, <2>2, <2>3 DEF AssignJob
<1>10. CASE SendJob(g)
  <2>1. reader[g].entry \in Readable
    BY <1>10 DEF SendJob, Existing, ReaderExists
  <2>2. SentExists'
    BY <1>10, <2>1 DEF SendJob, Existing, SentExists, Sent, Readable, BaseType, Execs
  <2>3. RunningExists(g)'
    BY <1>10 DEF SendJob, Existing, RunningExists, Sent, BaseType
  <2> QED  BY <1>10, <1>b, <2>2, <2>3, ExistingFrame DEF SendJob
<1> QED
  BY <1>4, <1>5, <1>6, <1>7, <1>8, <1>9, <1>10 DEF ReaderStep

LEMMA ExistingReceive ==
  ASSUME BaseInv, BaseType', Grows, NEW g \in Gpus, NEW x \in Execs, NEW calls \in SUBSET Calls,
         ReceiveError(g, x) \/ EndsInSilence(g, x) \/ ReceiveComplete(g, x, calls)
  PROVE  Existing'
<1> USE DEF BaseInv, queueVars, execVars, contVars, toolVars
<1>1. UNCHANGED <<queueVars, reader, sends, sent, contVars, toolVars>>
  BY DEF ReceiveError, EndsInSilence, ReceiveComplete
<1>2. x \in Sent /\ JobOf(x) \in Jobs /\ JobOf(x)' = JobOf(x)
  BY JobsKept DEF ReceiveError, EndsInSilence, ReceiveComplete, Existing, RunningExists
<1>3. \A h \in Gpus : running'[h] \subseteq running[h] /\ (h # g => handler'[h] = handler[h])
  BY DEF ReceiveError, EndsInSilence, ReceiveComplete, BaseType
<1>4. \A h \in Gpus, j \in Jobs : tracked'[h][j] \in {0, tracked[h][j]}
  <2>1. CASE ReceiveComplete(g, x, calls)
    BY <1>2, <2>1 DEF ReceiveComplete, BaseType
  <2>2. CASE UNCHANGED tracked
    BY <2>2
  <2> QED  BY <2>1, <2>2 DEF ReceiveError, EndsInSilence
<1>5. \A h \in Gpus : TrackedExists(h)'
  BY <1>1, <1>4 DEF TrackedExists, Existing
<1>6. HandlerExists(g)'
  <2>1. CASE ReceiveError(g, x)
    <3>1. handler'[g].pc = "untrack" /\ handler'[g].exec = x
      BY <2>1 DEF ReceiveError, BaseType
    <3> QED  BY <1>1, <1>2, <3>1 DEF HandlerExists, Sent
  <2>2. CASE ReceiveComplete(g, x, calls)
    <3>1. /\ handler'[g].exec = x /\ handler'[g].entry = tracked[g][JobOf(x)]
          /\ handler'[g].pc = "ack" => tracked[g][JobOf(x)] # 0
      BY <2>2 DEF ReceiveComplete, BaseType
    <3>2. tracked[g][JobOf(x)] # 0 =>
            /\ tracked[g][JobOf(x)] \in Readable
            /\ queue[tracked[g][JobOf(x)]].job = JobOf(x)
      BY <1>2 DEF Existing, TrackedExists, BaseType, Readable, Entries
    <3> QED  BY <1>1, <1>2, <3>1, <3>2 DEF HandlerExists, Sent, Readable
  <2>3. CASE EndsInSilence(g, x)
    BY <1>1, <1>2, <2>3 DEF EndsInSilence, HandlerExists, JobOf, Existing, Sent, Readable
  <2> QED  BY <2>1, <2>2, <2>3
<1> QED
  BY <1>1, <1>3, <1>5, <1>6, ExistingFrame DEF Existing

\* What the pieces the steps share do to the handler.
LEMMA GoesEffect ==
  ASSUME BaseType, NEW g \in Gpus, NEW pc \in HandlerPCs, HandlerGoes(g, pc)
  PROVE  /\ \A h \in Gpus : h # g => handler'[h] = handler[h]
         /\ pc = "idle" => handler'[g] = IdleHandler
         /\ pc # "idle" => /\ handler'[g].pc = pc
                           /\ handler'[g].exec = handler[g].exec
                           /\ handler'[g].calls = handler[g].calls
                           /\ handler'[g].next = handler[g].next
BY DEF BaseType, HandlerGoes

LEMMA SendsEffect ==
  ASSUME BaseType, NEW g \in Gpus, StartContinuation(g)
  PROVE  /\ \A h \in Gpus : h # g => handler'[h] = handler[h]
         /\ handler'[g].pc = "send"
         /\ handler'[g].exec = handler[g].exec
         /\ handler'[g].calls = handler[g].calls
BY DEF BaseType, StartContinuation

LEMMA NextCallEffect ==
  ASSUME BaseType, NEW g \in Gpus, NEW c, NextCall(g, c)
  PROVE  /\ \A h \in Gpus : h # g => handler'[h] = handler[h]
         /\ \/ handler'[g] = IdleHandler /\ handler[g].calls \ {c} = {}
            \/ /\ handler'[g].pc = handler[g].pc
               /\ handler'[g].exec = handler[g].exec
               /\ handler'[g].calls = handler[g].calls \ {c}
<1>1. CASE handler[g].calls \ {c} = {}
  <2>1. handler' = [handler EXCEPT ![g] = IdleHandler]
    BY <1>1 DEF NextCall
  <2> QED  BY <1>1, <2>1 DEF BaseType
<1>2. CASE handler[g].calls \ {c} # {}
  <2>1. handler' = [handler EXCEPT ![g] = [handler[g] EXCEPT !.calls = handler[g].calls \ {c}]]
    BY <1>2 DEF NextCall
  <2> QED  BY <2>1 DEF BaseType
<1> QED
  BY <1>1, <1>2

LEMMA UntrackEffect ==
  ASSUME BaseType, NEW g \in Gpus, UntrackJob(g)
  PROVE  LET e == tracked[g][JobOf(handler[g].exec)] IN
         /\ \A h \in Gpus : h # g => handler'[h] = handler[h]
         /\ e = 0 => handler'[g] = IdleHandler
         /\ e # 0 => /\ handler'[g].pc = "ack" /\ handler'[g].entry = e
                     /\ handler'[g].exec = handler[g].exec
                     /\ handler'[g].next = handler[g].next
<1>0. PICK e : e = tracked[g][JobOf(handler[g].exec)]
  OBVIOUS
<1>1. CASE e = 0
  <2>1. handler' = [handler EXCEPT ![g] = IdleHandler]
    BY <1>0, <1>1 DEF UntrackJob
  <2> QED  BY <1>0, <1>1, <2>1 DEF BaseType
<1>2. CASE e # 0
  <2>1. handler' = [handler EXCEPT ![g] = [handler[g] EXCEPT !.pc = "ack", !.entry = e]]
    BY <1>0, <1>2 DEF UntrackJob
  <2> QED  BY <1>0, <1>2, <2>1 DEF BaseType
<1> QED
  BY <1>1, <1>2

\* ... and to the calls on their way.
LEMMA SendEffect ==
  ASSUME BaseType, NEW g \in Gpus, NEW c \in Calls, SendToolJob(g, c)
  PROVE  \A u \in Tools : \/ toolJobs'[u] = toolJobs[u]
                          \/ /\ u = handler[g].tool
                             /\ toolJobs'[u] = toolJobs[u] \cup {<<handler[g].exec, c>>}
<1>1. CASE IsDead(handler[g].tool)
  BY <1>1 DEF SendToolJob
<1>2. CASE ~IsDead(handler[g].tool)
  <2>1. toolJobs' = [toolJobs EXCEPT ![handler[g].tool] =
                       toolJobs[handler[g].tool] \cup {<<handler[g].exec, c>>}]
    BY <1>2 DEF SendToolJob
  <2> QED  BY <2>1 DEF BaseType
<1> QED
  BY <1>1, <1>2

LEMMA ResultEffect ==
  ASSUME BaseType, NEW t \in Tools, NEW x \in Execs, NEW c \in Calls,
         ToolResult(t, x, c) \/ ToolResultLost(t, x, c)
  PROVE  /\ \A u \in Tools : u # t => toolJobs'[u] = toolJobs[u] /\ toolLoop'[u] = toolLoop[u]
         /\ toolJobs'[t] = toolJobs[t] \ {<<x, c>>}
         /\ \/ toolLoop'[t] = toolLoop[t]
            \/ /\ ToolResult(t, x, c)
               /\ toolLoop'[t].exec = x /\ toolLoop'[t].call = c
               /\ toolLoop'[t].found = pendingConts[JobOf(x)]
<1>1. toolJobs' = [toolJobs EXCEPT ![t] = toolJobs[t] \ {<<x, c>>}]
  BY DEF ToolResult, ToolResultLost
<1>2. CASE ToolResult(t, x, c)
  BY <1>1, <1>2 DEF ToolResult, BaseType
<1>3. CASE ToolResultLost(t, x, c)
  BY <1>1, <1>3 DEF ToolResultLost, BaseType
<1> QED
  BY <1>2, <1>3

LEMMA BreakEffect ==
  ASSUME BaseType, NEW t \in Tools, ToolsBreak(t)
  PROVE  \A u \in Tools : toolJobs'[u] \subseteq toolJobs[u]
<1>1. CASE toolJobs' = toolJobs
  BY <1>1
<1>2. CASE toolJobs' = [toolJobs EXCEPT ![t] = {}]
  BY <1>2 DEF BaseType
<1> QED
  BY <1>1, <1>2 DEF ToolsBreak

\* What recording a result changes.
LEMMA RecordFrame ==
  ASSUME BaseType, NEW found, NEW x \in Execs, NEW c \in Calls, RecordResult(found, x, c)
  PROVE  /\ \A y \in Execs : y # x => conts'[y] = conts[y]
         /\ found # x => conts' = conts
BY DEF BaseType, RecordResult

LEMMA ExistingHandler ==
  ASSUME BaseInv, BaseType', Grows, NEW g \in Gpus, HandlerStep(g)
  PROVE  Existing'
<1> USE DEF BaseInv, queueVars, execVars, contVars, toolVars
<1> DEFINE x == handler[g].exec
<1>1. handler[g].pc # "idle" /\ x \in Sent /\ x \in Execs /\ JobOf(x) \in Jobs
  <2>1. handler[g].pc # "idle"
    BY DEF HandlerStep, UntrackJob, AckJob, StartContinuation, PassThrough, PublishDone,
           DeleteJobContext, SendToolJob, SendToolJobFails
  <2> QED  BY <2>1, JobsKept DEF Existing, HandlerExists
<1>2. UNCHANGED <<added, queue, delivered, reader, execVars, links, toolLoop>>
  BY DEF HandlerStep, UntrackJob, AckJob, StartContinuation, PassThrough, PublishDone,
         DeleteJobContext, SendToolJob, SendToolJobFails
<1>3. \A h \in Gpus : h # g => handler'[h] = handler[h]
  BY DEF HandlerStep, UntrackJob, AckJob, StartContinuation, PassThrough, PublishDone,
         DeleteJobContext, SendToolJob, SendToolJobFails, HandlerGoes, NextCall, BaseType
<1>4. PelExists'
  <2>1. \A e \in Entries : pel'[e] \in {NoGpu, pel[e]}
    BY DEF HandlerStep, UntrackJob, AckJob, StartContinuation, PassThrough, PublishDone,
           DeleteJobContext, SendToolJob, SendToolJobFails, BaseType
  <2> QED  BY <1>2, <2>1 DEF PelExists, Existing
<1>5. \A h \in Gpus : TrackedExists(h)'
  <2>1. \A h \in Gpus, j \in Jobs : tracked'[h][j] \in {0, tracked[h][j]}
    <3>1. CASE UntrackJob(g)
      BY <1>1, <3>1 DEF UntrackJob, BaseType
    <3>2. CASE ~UntrackJob(g)
      BY <3>2 DEF HandlerStep, AckJob, StartContinuation, PassThrough, PublishDone,
                  DeleteJobContext, SendToolJob, SendToolJobFails
    <3> QED  BY <3>1, <3>2
  <2> QED  BY <1>2, <2>1 DEF TrackedExists, Existing
<1>6. ContsExist'
  <2>1. \A y \in Execs : y # x => conts'[y] = conts[y]
    <3>1. CASE StartContinuation(g)
      BY <3>1 DEF StartContinuation, BaseType
    <3>2. ASSUME NEW c \in Calls, SendToolJobFails(g, c)
          PROVE  \A y \in Execs : y # x => conts'[y] = conts[y]
      BY <1>1, <3>2, RecordFrame DEF SendToolJobFails
    <3> QED  BY <3>1, <3>2 DEF HandlerStep, UntrackJob, AckJob, PassThrough, PublishDone,
                               DeleteJobContext, SendToolJob
  <2> QED  BY <1>1, <1>2, <2>1 DEF ContsExist, Existing, Sent
<1>7. \A t \in Tools : ToolJobsExist(t)'
  <2> DEFINE Sends == \A t \in Tools : \A y \in Execs, c \in Calls :
          <<y, c>> \in toolJobs'[t] => <<y, c>> \in toolJobs[t] \/ y = x
  <2>1. Sends
    <3>1. ASSUME NEW c \in Calls, SendToolJob(g, c) PROVE Sends
      BY <3>1, SendEffect
    <3>2. CASE UNCHANGED toolJobs
      BY <3>2
    <3> QED  BY <3>1, <3>2 DEF HandlerStep, UntrackJob, AckJob, StartContinuation, PassThrough,
                         PublishDone, DeleteJobContext, SendToolJobFails
  <2> QED  BY <1>1, <1>2, <2>1 DEF ToolJobsExist, Existing, Sent
<1>8. HandlerExists(g)'
  <2>1. /\ handler'[g].exec \in {0, x}
        /\ handler'[g].pc # "idle" => handler'[g].exec = x
    <3> DEFINE Same == /\ handler'[g].exec \in {0, x}
                       /\ handler'[g].pc # "idle" => handler'[g].exec = x
    <3>1. ASSUME NEW pc \in HandlerPCs, HandlerGoes(g, pc) PROVE Same
      BY <3>1, GoesEffect DEF IdleHandler
    <3>2. ASSUME NEW c \in Calls, NextCall(g, c) PROVE Same
      BY <3>2, NextCallEffect DEF IdleHandler
    <3>3. CASE UntrackJob(g)
      BY <3>3, UntrackEffect DEF IdleHandler
    <3>4. CASE StartContinuation(g)
      BY <3>4, SendsEffect
    <3>5. CASE AckJob(g)
      <4>1. handler[g].next \in HandlerPCs
        BY DEF BaseType, HandlerPCs
      <4> QED  BY <3>1, <3>5, <4>1 DEF AckJob
    <3>6. CASE PassThrough(g) \/ PublishDone(g) \/ DeleteJobContext(g)
      BY <3>1, <3>6 DEF PassThrough, PublishDone, DeleteJobContext, HandlerPCs
    <3>7. ASSUME NEW c \in Calls, SendToolJob(g, c) \/ SendToolJobFails(g, c) PROVE Same
      BY <3>2, <3>7 DEF SendToolJob, SendToolJobFails
    <3> QED  BY <3>3, <3>4, <3>5, <3>6, <3>7 DEF HandlerStep
  <2>2. handler'[g].pc = "ack" =>
          handler'[g].entry \in Readable /\ queue[handler'[g].entry].job = JobOf(x)
    <3>1. CASE UntrackJob(g)
      <4>1. tracked[g][JobOf(x)] # 0 =>
              /\ tracked[g][JobOf(x)] \in Readable
              /\ queue[tracked[g][JobOf(x)]].job = JobOf(x)
        BY <1>1 DEF Existing, TrackedExists, BaseType, Readable, Entries
      <4> QED  BY <1>1, <3>1, <4>1 DEF UntrackJob, BaseType, IdleHandler
    <3>2. CASE ~UntrackJob(g)
      <4>1. handler'[g].pc # "ack"
        BY <3>2, SMTT(60) DEF HandlerStep, AckJob, StartContinuation, PassThrough, PublishDone,
             DeleteJobContext, SendToolJob, SendToolJobFails, HandlerGoes, NextCall, BaseType, IdleHandler
      <4> QED  BY <4>1
    <3> QED  BY <3>1, <3>2
  <2> QED  BY <1>1, <1>2, <2>1, <2>2 DEF HandlerExists, JobOf, Sent, Readable
<1> QED
  BY <1>2, <1>3, <1>4, <1>5, <1>6, <1>7, <1>8, ExistingFrame DEF Existing

LEMMA ExistingTools ==
  ASSUME BaseInv, BaseType', Grows, NEW t \in Tools, ToolsStep(t)
  PROVE  Existing'
<1> USE DEF BaseInv, queueVars, execVars, contVars, toolVars
<1>1. UNCHANGED <<queueVars, reader, execVars, tracked>>
  BY DEF ToolsStep, ToolsConnect, ToolsBreak, ToolsCleanup, ToolRecord, ToolResult, ToolResultLost
<1>2. \A g \in Gpus : HandlerExists(g)'
  <2>1. CASE ToolsCleanup(t)
    <3>1. \A g \in Gpus : /\ handler'[g].pc = handler[g].pc /\ handler'[g].exec = handler[g].exec
                          /\ handler'[g].entry = handler[g].entry
      BY <2>1 DEF ToolsCleanup, BaseType
    <3> QED  BY <1>1, <3>1 DEF HandlerExists, Existing, Sent, Readable, JobOf
  <2>2. CASE ~ToolsCleanup(t)
    <3>1. UNCHANGED handler
      BY <2>2 DEF ToolsStep, ToolsConnect, ToolsBreak, ToolRecord, ToolResult, ToolResultLost
    <3> QED  BY <3>1, ExistingFrame
  <2> QED  BY <2>1, <2>2
<1>3. \A u \in Tools : toolJobs'[u] \subseteq toolJobs[u]
  <2>1. ASSUME NEW x \in Execs, NEW c \in Calls, ToolResult(t, x, c) \/ ToolResultLost(t, x, c)
        PROVE  \A u \in Tools : toolJobs'[u] \subseteq toolJobs[u]
    BY <2>1, ResultEffect
  <2>2. CASE ToolsBreak(t)
    BY <2>2, BreakEffect
  <2>3. CASE UNCHANGED toolJobs
    BY <2>3
  <2> QED  BY <2>1, <2>2, <2>3 DEF ToolsStep, ToolsConnect, ToolsCleanup, ToolRecord
<1>4. \A u \in Tools : LoopExists(u)'
  <2>1. ASSUME NEW x \in Execs, NEW c \in Calls, ToolResult(t, x, c)
        PROVE  \A u \in Tools : LoopExists(u)'
    <3>1. x \in Sent
      BY <2>1 DEF ToolResult, Existing, ToolJobsExist
    <3>2. \A u \in Tools : \/ toolLoop'[u] = toolLoop[u]
                           \/ toolLoop'[u].exec = x /\ toolLoop'[u].call = c
      <4>1. \A u \in Tools : u # t => toolLoop'[u] = toolLoop[u]
        BY <2>1, ResultEffect
      <4>2. \/ toolLoop'[t] = toolLoop[t]
            \/ toolLoop'[t].exec = x /\ toolLoop'[t].call = c
        BY <2>1, ResultEffect
      <4> QED  BY <4>1, <4>2
    <3> QED  BY <1>1, <3>1, <3>2, ExistingFrame DEF LoopExists, Sent
  <2>2. CASE ToolRecord(t)
    <3>1. \A u \in Tools : toolLoop'[u] = toolLoop[u] \/ toolLoop'[u].exec = 0
      BY <2>2 DEF ToolRecord, BaseType, IdleLoop
    <3> QED  BY <3>1, ExistingFrame DEF LoopExists
  <2>3. CASE UNCHANGED toolLoop
    BY <2>3, ExistingFrame
  <2> QED  BY <2>1, <2>2, <2>3 DEF ToolsStep, ToolsConnect, ToolsBreak, ToolsCleanup, ToolResultLost
<1>5. ContsExist'
  <2>1. CASE ToolRecord(t)
    <3> DEFINE x == toolLoop[t].exec
    <3>1. x \in Sent /\ x \in Execs /\ toolLoop[t].call \in Calls
      BY <2>1, JobsKept DEF ToolRecord, Existing, LoopExists
    <3>2. \A y \in Execs : y # x => conts'[y] = conts[y]
      BY <2>1, <3>1, RecordFrame DEF ToolRecord
    <3> QED  BY <1>1, <3>1, <3>2 DEF ContsExist, Existing, Sent
  <2>2. CASE ~ToolRecord(t)
    <3>1. UNCHANGED conts
      BY <2>2 DEF ToolsStep, ToolsConnect, ToolsBreak, ToolsCleanup, ToolResult, ToolResultLost
    <3> QED  BY <3>1, ExistingFrame
  <2> QED  BY <2>1, <2>2
<1> QED
  BY <1>1, <1>2, <1>3, <1>4, <1>5, ExistingFrame DEF Existing

LEMMA BaseInit ==
  ASSUME Init
  PROVE  BaseInv
<1>1. BaseType
  BY DEF Init, BaseType, ReaderPCs, HandlerPCs, Phases, IdleHandler, NoCont, IdleLoop, Entries, Execs
<1>2. Existing
  BY DEF Init, Existing, QueueExists, SentExists, PelExists, TrackedExists, ReaderExists,
         RunningExists, HandlerExists, ContsExist, ToolJobsExist, LoopExists, Sent,
         Readable, IdleHandler, NoCont, IdleLoop
<1> QED  BY <1>1, <1>2 DEF BaseInv

LEMMA BaseStep ==
  ASSUME BaseInv, Next
  PROVE  BaseInv'
<1>1. Grows
  BY Growing
<1>2. ASSUME NEW j \in Jobs, Submit(j) PROVE BaseInv'
  BY <1>1, <1>2, BaseTypeSubmit, ExistingSubmit DEF BaseInv
<1>3. ASSUME NEW g \in Gpus, ReaderStep(g) PROVE BaseInv'
  BY <1>1, <1>3, BaseTypeReader, ExistingReader DEF BaseInv
<1>4. ASSUME NEW g \in Gpus, HandlerStep(g) PROVE BaseInv'
  BY <1>1, <1>4, BaseTypeHandler, ExistingHandler DEF BaseInv
<1>5. ASSUME NEW g \in Gpus, NEW x \in Execs, NEW calls \in SUBSET Calls,
             ReceiveError(g, x) \/ EndsInSilence(g, x) \/ ReceiveComplete(g, x, calls)
      PROVE  BaseInv'
  BY <1>1, <1>5, BaseTypeReceive, ExistingReceive DEF BaseInv
<1>6. ASSUME NEW x \in Execs, NextRound(x) PROVE BaseInv'
  BY <1>1, <1>6, BaseTypeRound, ExistingRound DEF BaseInv
<1>7. ASSUME NEW t \in Tools, ToolsStep(t) PROVE BaseInv'
  BY <1>1, <1>7, BaseTypeTools, ExistingTools DEF BaseInv
<1> QED
  BY <1>2, <1>3, <1>4, <1>5, <1>6, <1>7 DEF Next, ToolsStep

-----------------------------------------------------------------------------
(* Rounds, step by step.                                                   *)

\* A step in which calls at most get lost.
LEMMA CallsFrame ==
  ASSUME CallsMissing, CallAlone,
         \A g \in Gpus, x \in Execs, c \in Calls : AtHandler(g, x, c)' => AtHandler(g, x, c),
         \A t \in Tools, x \in Execs, c \in Calls :
           (AtWorker(t, x, c)' => AtWorker(t, x, c)) /\ (AtLoop(t, x, c)' => AtLoop(t, x, c)),
         \A x \in Execs, c \in Calls : OnItsWay(x, c)' /\ Missing(x, c) => Missing(x, c)'
  PROVE  CallsMissing' /\ CallAlone'
<1>1. \A x \in Execs, c \in Calls : OnItsWay(x, c)' => OnItsWay(x, c)
  BY DEF OnItsWay
<1>2. CallsMissing'
  BY <1>1 DEF CallsMissing
<1>3. CallAlone'
  BY DEF CallAlone
<1> QED
  BY <1>2, <1>3

\* A step in which no execution begins or ends.
LEMMA ExecFrame ==
  ASSUME ExecAlone,
         \A h \in Gpus : running'[h] = running[h] /\ handler'[h].exec \in {0, handler[h].exec},
         \A h \in Gpus, y \in Execs : Early(h, y)' => Early(h, y),
         \A y \in Execs : \/ conts'[y].phase = conts[y].phase
                          \/ \A h \in Gpus : y \notin running[h] /\ ~Early(h, y)'
  PROVE  ExecAlone'
<1>1. \A h \in Gpus, y \in Execs : handler'[h].exec = y => handler[h].exec = y
  BY DEF Execs
<1> QED
  BY <1>1 DEF ExecAlone

\* The count of the missing calls, and the last of them.
LEMMA RecordCounts ==
  ASSUME BaseType, Countdown, NEW found, NEW x \in Execs, NEW c \in Calls,
         Missing(x, c), RecordResult(found, x, c)
  PROVE  /\ Countdown'
         /\ \A y \in Execs : y # x => conts'[y] = conts[y]
         /\ \A d \in Calls : d # c /\ Missing(x, d) => Missing(x, d)'
         /\ conts'[x].phase # "none"
<1> DEFINE left == conts[x].calls \ conts[x].got
<1>1. \A y \in Execs : y # x => conts'[y] = conts[y]
  BY RecordFrame
<1>2. CASE found # x
  BY <1>2, RecordFrame DEF Countdown, Missing
<1>3. CASE found = x
  <2>1. conts'[x] = Recorded(x, c) /\ conts[x] \in ContType
    BY <1>3, RecordEffect DEF BaseType, ContType
  <2>2. /\ conts'[x].phase = IF conts[x].remaining = 1 THEN "save" ELSE "open"
        /\ conts'[x].calls = conts[x].calls
        /\ conts'[x].got = conts[x].got \cup {c}
        /\ conts'[x].remaining = conts[x].remaining - 1
    BY <2>1 DEF Recorded, Missing
  <2>3. IsFiniteSet(left) /\ c \in left /\ conts[x].remaining = Cardinality(left)
    BY <2>1, FS_Subset DEF Countdown, Missing, ContType
  <2>4. IsFiniteSet(left \ {c}) /\ Cardinality(left \ {c}) = Cardinality(left) - 1
    BY <2>3, FS_RemoveElement
  <2>5. conts'[x].calls \ conts'[x].got = left \ {c}
    BY <2>2
  <2>6. conts[x].remaining = 1 => left \ {c} = {}
    BY <2>3, <2>4, FS_EmptySet
  <2>7. Countdown'
    <3>1. conts'[x].got \subseteq conts'[x].calls
      BY <2>2, <2>3 DEF Countdown
    <3>2. conts'[x].remaining = Cardinality(conts'[x].calls \ conts'[x].got)
      BY <2>2, <2>3, <2>4, <2>5
    <3>3. conts'[x].phase \in {"save", "enqueue", "over"} => conts'[x].got = conts'[x].calls
      BY <2>2, <2>5, <2>6, <3>1
    <3> QED  BY <1>1, <3>1, <3>2, <3>3 DEF Countdown
  <2>8. ASSUME NEW d \in Calls, d # c, Missing(x, d) PROVE Missing(x, d)'
    <3>1. d \in left \ {c}
      BY <2>8 DEF Missing
    <3> QED  BY <2>2, <2>5, <2>6, <3>1 DEF Missing
  <2> QED  BY <1>1, <2>2, <2>7, <2>8
<1> QED
  BY <1>2, <1>3

LEMMA RoundSubmit ==
  ASSUME BaseInv, RoundInv, NEW j \in Jobs, Submit(j)
  PROVE  RoundInv'
<1>1. UNCHANGED <<handler, running, conts, toolJobs, toolLoop>>
  BY DEF Submit, execVars, contVars, toolVars
<1>2. ExecAlone'
  BY <1>1 DEF RoundInv, ExecAlone, Early
<1>3. CallsMissing' /\ CallAlone'
  BY <1>1, CallsFrame DEF RoundInv, AtHandler, AtWorker, AtLoop, Missing
<1>4. Countdown'
  BY <1>1 DEF RoundInv, Countdown
<1> QED
  BY <1>2, <1>3, <1>4 DEF RoundInv

LEMMA RoundReader ==
  ASSUME BaseInv, RoundInv, NEW g \in Gpus, ReaderStep(g)
  PROVE  RoundInv'
<1> USE DEF RoundInv
<1>1. UNCHANGED <<handler, conts, toolJobs, toolLoop>>
  BY DEF ReaderStep, ExpireStaleJobs, ReadPending, ReadNew, ReadTimeout, SaveJobContext,
         AssignJob, SendJob, contVars, toolVars
<1>2. CallsMissing' /\ CallAlone' /\ Countdown'
  BY <1>1 DEF CallsMissing, CallAlone, Countdown, OnItsWay, AtHandler, AtWorker, AtLoop, Missing
<1>3. ExecAlone'
  <2>1. CASE SendJob(g)
    <3>1. running'[g] = running[g] \cup {sends + 1}
      BY <2>1 DEF SendJob, BaseInv, BaseType
    <3>2. \A h \in Gpus : h # g => running'[h] = running[h]
      BY <2>1 DEF SendJob, BaseInv, BaseType
    <3>3. sends + 1 \in Execs /\ sends + 1 \notin Sent
      BY <2>1 DEF SendJob, BaseInv, BaseType, Sent, Execs
    <3>4. /\ conts[sends + 1].phase = "none"
          /\ \A h \in Gpus : sends + 1 \notin running[h] /\ handler[h].exec # sends + 1
      BY <3>3 DEF BaseInv, Existing, ContsExist, RunningExists, HandlerExists, Execs
    <3>5. \A h \in Gpus, x \in Execs :
            x \in running'[h] => x \in running[h] \/ (h = g /\ x = sends + 1)
      BY <3>1, <3>2
    <3> HIDE DEF RoundInv
    <3>6. ExecAlone
      BY DEF RoundInv
    <3> QED  BY <1>1, <3>4, <3>5, <3>6 DEF ExecAlone, Early
  <2>2. CASE ~SendJob(g)
    <3>1. UNCHANGED running
      BY <2>2 DEF ReaderStep, ExpireStaleJobs, ReadPending, ReadNew, ReadTimeout, SaveJobContext,
                  AssignJob, execVars
    <3> QED  BY <1>1, <3>1 DEF ExecAlone, Early
  <2> QED  BY <2>1, <2>2
<1> QED
  BY <1>2, <1>3

LEMMA RoundReceive ==
  ASSUME BaseInv, RoundInv, NEW g \in Gpus, NEW x \in Execs, NEW calls \in SUBSET Calls,
         ReceiveError(g, x) \/ ReceiveComplete(g, x, calls)
  PROVE  RoundInv'
<1>1. UNCHANGED <<conts, toolJobs, toolLoop>> /\ x \in running[g]
  BY DEF ReceiveError, ReceiveComplete, contVars, toolVars
<1>2. /\ handler'[g].exec = x /\ handler'[g].pc \in {"untrack", "ack", "start", "publish"}
      /\ \A h \in Gpus : h # g => handler'[h] = handler[h]
  BY DEF ReceiveError, ReceiveComplete, BaseInv, BaseType
<1>3. running'[g] = running[g] \ {x} /\ \A h \in Gpus : h # g => running'[h] = running[h]
  BY DEF ReceiveError, ReceiveComplete, BaseInv, BaseType
<1>4. ExecAlone'
  <2>1. ExecAlone
    BY DEF RoundInv
  <2>2. /\ conts[x].phase = "none"
        /\ \A h \in Gpus : handler[h].exec # x /\ (x \in running[h] => h = g)
    BY <1>1, <2>1 DEF ExecAlone
  <2>3. \A h \in Gpus : x \notin running'[h] /\ running'[h] \subseteq running[h]
    BY <1>3, <2>2
  <2>4. ASSUME NEW y \in Execs, y # x, NEW h \in Gpus
        PROVE  /\ handler'[h].exec = y => handler[h].exec = y /\ h # g
               /\ Early(h, y)' => Early(h, y)
    BY <1>2, <2>4 DEF Early
  <2> QED  BY <1>1, <1>2, <2>1, <2>2, <2>3, <2>4 DEF ExecAlone, Early
<1>5. CallsMissing' /\ CallAlone'
  <2>1. ASSUME NEW h \in Gpus, NEW y \in Execs, NEW c \in Calls, AtHandler(h, y, c)'
        PROVE  AtHandler(h, y, c)
    BY <1>2, <2>1 DEF AtHandler
  <2>2. ASSUME NEW t \in Tools, NEW y \in Execs, NEW c \in Calls
        PROVE  /\ AtWorker(t, y, c)' => AtWorker(t, y, c)
               /\ AtLoop(t, y, c)' => AtLoop(t, y, c)
    BY <1>1 DEF AtWorker, AtLoop
  <2>3. \A y \in Execs, c \in Calls : Missing(y, c)' = Missing(y, c)
    BY <1>1 DEF Missing
  <2> QED  BY <2>1, <2>2, <2>3, CallsFrame DEF RoundInv
<1>6. Countdown'
  BY <1>1 DEF RoundInv, Countdown
<1> QED
  BY <1>4, <1>5, <1>6 DEF RoundInv

LEMMA RoundSilence ==
  ASSUME BaseInv, RoundInv, NEW g \in Gpus, NEW x \in Execs, EndsInSilence(g, x)
  PROVE  RoundInv'
<1>1. UNCHANGED <<handler, conts, toolJobs, toolLoop>>
  BY DEF EndsInSilence, contVars, toolVars
<1>2. \A h \in Gpus : running'[h] \subseteq running[h]
  BY DEF EndsInSilence, BaseInv, BaseType
<1>3. ExecAlone'
  BY <1>1, <1>2 DEF RoundInv, ExecAlone, Early
<1> QED
  BY <1>1, <1>3 DEF RoundInv, CallsMissing, OnItsWay, AtHandler, AtWorker, AtLoop, Missing,
                    CallAlone, Countdown

LEMMA RoundNext ==
  ASSUME BaseInv, RoundInv, NEW x \in Execs, NextRound(x)
  PROVE  RoundInv'
<1>1. UNCHANGED <<handler, running, toolJobs, toolLoop>>
  BY DEF NextRound, UpdateJobContext, Requeue, RequeueFails, execVars, toolVars
<1>2. /\ conts[x].phase \in {"save", "enqueue"} /\ conts'[x].phase \in {"enqueue", "over"}
      /\ conts'[x].calls = conts[x].calls /\ conts'[x].got = conts[x].got
      /\ conts'[x].remaining = conts[x].remaining
      /\ \A y \in Execs : y # x => conts'[y] = conts[y]
  BY DEF NextRound, UpdateJobContext, Requeue, RequeueFails, BaseInv, BaseType
<1>3. ExecAlone'
  BY <1>1, <1>2 DEF RoundInv, ExecAlone, Early
<1>4. Countdown'
  BY <1>2 DEF RoundInv, Countdown
<1>5. CallsMissing' /\ CallAlone'
  <2>1. ASSUME NEW y \in Execs, NEW c \in Calls, Missing(y, c) PROVE Missing(y, c)'
    BY <1>2, <2>1 DEF Missing
  <2> QED  BY <1>1, <2>1, CallsFrame DEF RoundInv, AtHandler, AtWorker, AtLoop
<1> QED
  BY <1>3, <1>4, <1>5 DEF RoundInv

LEMMA RoundHandler ==
  ASSUME BaseInv, RoundInv, NEW g \in Gpus, HandlerStep(g)
  PROVE  RoundInv'
<1>0. BaseType /\ ExecAlone /\ CallsMissing /\ CallAlone /\ Countdown
  BY DEF RoundInv, BaseInv
<1>1. PICK x \in Execs : x = handler[g].exec
  <2>1. handler[g].pc # "idle"
    BY DEF HandlerStep, UntrackJob, AckJob, StartContinuation, PassThrough, PublishDone,
           DeleteJobContext, SendToolJob, SendToolJobFails
  <2> QED  BY <2>1 DEF BaseInv, BaseType, Existing, HandlerExists, Sent, Execs
<1> USE <1>1
<1>2. UNCHANGED <<running, toolLoop>>
  BY DEF HandlerStep, UntrackJob, AckJob, StartContinuation, PassThrough, PublishDone,
         DeleteJobContext, SendToolJob, SendToolJobFails, execVars, toolVars
<1>3. SUFFICES ExecAlone' /\ CallsMissing' /\ CallAlone' /\ Countdown'
  BY DEF RoundInv
<1> DEFINE Others == \A h \in Gpus : h # g => handler'[h] = handler[h]
<1>4. ASSUME Others, handler'[g].exec \in {0, x}, handler'[g].pc # "send",
             \A y \in Execs : Early(g, y)' => Early(g, y),
             UNCHANGED <<conts, toolJobs>>
      PROVE  ExecAlone' /\ CallsMissing' /\ CallAlone' /\ Countdown'
  <2>1. \A h \in Gpus, y \in Execs : Early(h, y)' => Early(h, y)
    BY <1>4 DEF Early
  <2>2. \A h \in Gpus : handler'[h].exec \in {0, handler[h].exec}
    BY <1>4
  <2>3. ExecAlone'
    BY <1>0, <1>2, <1>4, <2>1, <2>2, ExecFrame
  <2>4. \A h \in Gpus, y \in Execs, c \in Calls : AtHandler(h, y, c)' => AtHandler(h, y, c)
    BY <1>4 DEF AtHandler
  <2>5. \A t \in Tools, y \in Execs, c \in Calls :
          (AtWorker(t, y, c)' => AtWorker(t, y, c)) /\ (AtLoop(t, y, c)' => AtLoop(t, y, c))
    BY <1>2, <1>4 DEF AtWorker, AtLoop
  <2>6. \A y \in Execs, c \in Calls : Missing(y, c)' = Missing(y, c)
    BY <1>4 DEF Missing
  <2>7. CallsMissing' /\ CallAlone'
    BY <1>0, <2>4, <2>5, <2>6, CallsFrame
  <2>8. Countdown'
    BY <1>0, <1>4 DEF Countdown
  <2> QED  BY <2>3, <2>7, <2>8
<1>5. ASSUME NEW pc \in HandlerPCs, HandlerGoes(g, pc), pc \notin {"send", "untrack", "ack"},
             handler[g].pc \in {"ack", "start"} \/ pc # "start", UNCHANGED <<conts, toolJobs>>
      PROVE  ExecAlone' /\ CallsMissing' /\ CallAlone' /\ Countdown'
  <2>1. Others
    BY <1>0, <1>5, GoesEffect
  <2>2. handler'[g].exec \in {0, x} /\ handler'[g].pc = pc
    BY <1>0, <1>5, GoesEffect DEF IdleHandler
  <2>3. \A y \in Execs : Early(g, y)' => Early(g, y)
    BY <1>5, <2>2 DEF Early, Execs
  <2> QED  BY <1>4, <1>5, <2>1, <2>2, <2>3
<1>6. CASE UntrackJob(g)
  <2>1. Others /\ handler'[g].exec \in {0, x} /\ handler'[g].pc \in {"idle", "ack"}
    BY <1>0, <1>6, UntrackEffect DEF IdleHandler
  <2>2. \A y \in Execs : Early(g, y)' => Early(g, y)
    BY <1>6, <2>1 DEF UntrackJob, Early, Execs
  <2> QED  BY <1>4, <1>6, <2>1, <2>2 DEF UntrackJob, contVars, toolVars
<1>7. CASE AckJob(g)
  <2>1. handler[g].next \in HandlerPCs \ {"send", "untrack", "ack"}
    BY <1>0 DEF BaseType, HandlerPCs
  <2> QED  BY <1>5, <1>7, <2>1 DEF AckJob, contVars, toolVars
<1>8. CASE PassThrough(g) \/ PublishDone(g) \/ DeleteJobContext(g)
  <2>1. UNCHANGED <<conts, toolJobs>>
    BY <1>8 DEF PassThrough, PublishDone, DeleteJobContext, contVars, toolVars
  <2>2. HandlerGoes(g, "publish") \/ HandlerGoes(g, "forget") \/ HandlerGoes(g, "idle")
    BY <1>8 DEF PassThrough, PublishDone, DeleteJobContext
  <2> QED  BY <1>5, <2>1, <2>2 DEF HandlerPCs
<1>9. CASE StartContinuation(g)
  <2>1. /\ Others /\ handler'[g].pc = "send" /\ handler'[g].exec = x
        /\ handler'[g].calls = handler[g].calls
    BY <1>0, <1>9, SendsEffect
  <2>2. /\ conts'[x].phase = "open" /\ conts'[x].calls = handler[g].calls
        /\ conts'[x].got = {} /\ conts'[x].remaining = Cardinality(handler[g].calls)
        /\ \A y \in Execs : y # x => conts'[y] = conts[y]
    BY <1>0, <1>1, <1>9 DEF StartContinuation, BaseType
  <2>3. UNCHANGED toolJobs
    BY <1>9 DEF StartContinuation, toolVars
  <2>4. Early(g, x)
    BY <1>9 DEF StartContinuation, Early
  <2>5. conts[x].phase = "none"
    BY <1>0, <1>1, <2>4 DEF ExecAlone
  <2>6. \A c \in Calls : ~OnItsWay(x, c)
    BY <1>0, <1>1, <2>5 DEF CallsMissing, Missing
  <2>7. ExecAlone'
    <3>1. \A h \in Gpus, y \in Execs : Early(h, y)' => Early(h, y) /\ h # g
      BY <2>1 DEF Early
    <3>2. \A h \in Gpus : x \notin running[h] /\ ~Early(h, x)'
      BY <1>0, <1>1, <2>1, <3>1 DEF ExecAlone, Early
    <3> QED  BY <1>0, <1>2, <2>1, <2>2, <3>1, <3>2, ExecFrame
  <2>8. ASSUME NEW y \in Execs, NEW c \in Calls
        PROVE  /\ \A h \in Gpus : AtHandler(h, y, c)' =>
                    \/ h # g /\ AtHandler(h, y, c)
                    \/ h = g /\ y = x /\ c \in handler[g].calls
               /\ \A t \in Tools : /\ AtWorker(t, y, c)' => AtWorker(t, y, c)
                                   /\ AtLoop(t, y, c)' => AtLoop(t, y, c)
    BY <1>2, <2>1, <2>3 DEF AtHandler, AtWorker, AtLoop
  <2>9. CallsMissing'
    <3>1. ASSUME NEW y \in Execs, NEW c \in Calls, OnItsWay(y, c)' PROVE Missing(y, c)'
      <4>1. CASE OnItsWay(y, c)
        BY <1>0, <2>2, <2>6, <4>1 DEF CallsMissing, Missing
      <4>2. CASE y = x /\ c \in handler[g].calls
        BY <2>2, <4>2 DEF Missing
      <4> QED  BY <2>8, <3>1, <4>1, <4>2 DEF OnItsWay
    <3> QED  BY <3>1 DEF CallsMissing
  <2>10. CallAlone'
    <3>1. ASSUME NEW y \in Execs, NEW c \in Calls, NEW t \in Tools,
                 AtWorker(t, y, c)' \/ AtLoop(t, y, c)', NEW h \in Gpus
          PROVE  ~AtHandler(h, y, c)'
      <4>1. AtWorker(t, y, c) \/ AtLoop(t, y, c)
        BY <2>8, <3>1
      <4>2. y # x /\ ~AtHandler(h, y, c)
        BY <1>0, <2>6, <4>1 DEF OnItsWay, CallAlone
      <4> QED  BY <2>8, <4>2
    <3> QED  BY <1>0, <2>8, <3>1 DEF CallAlone
  <2>11. Countdown'
    BY <1>0, <2>2 DEF Countdown
  <2> QED  BY <2>7, <2>9, <2>10, <2>11
<1>10. ASSUME NEW c \in Calls, handler[g].pc = "send", c \in handler[g].calls, NextCall(g, c)
       PROVE  /\ Others /\ AtHandler(g, x, c) /\ Missing(x, c)
              /\ \A h \in Gpus, y \in Execs, d \in Calls :
                   AtHandler(h, y, d)' => AtHandler(h, y, d) /\ (h = g => d # c /\ y = x)
              /\ \A h \in Gpus, y \in Execs : Early(h, y)' => Early(h, y)
              /\ \A h \in Gpus : handler'[h].exec \in {0, handler[h].exec}
              /\ \A h \in Gpus : ~AtHandler(h, x, c)' /\ x \notin running[h] /\ ~Early(h, x)'
              /\ \A t \in Tools : ~AtWorker(t, x, c) /\ ~AtLoop(t, x, c)
  <2>1. /\ Others
        /\ \/ handler'[g] = IdleHandler /\ handler[g].calls \ {c} = {}
           \/ /\ handler'[g].pc = handler[g].pc
              /\ handler'[g].exec = handler[g].exec
              /\ handler'[g].calls = handler[g].calls \ {c}
    BY <1>0, <1>10, NextCallEffect
  <2>2. AtHandler(g, x, c)
    BY <1>10 DEF AtHandler
  <2>3. Missing(x, c)
    BY <1>0, <1>1, <2>2 DEF CallsMissing, OnItsWay
  <2>4. ASSUME NEW h \in Gpus, NEW y \in Execs, NEW d \in Calls, AtHandler(h, y, d)'
        PROVE  AtHandler(h, y, d) /\ (h = g => d # c /\ y = x)
    BY <1>10, <2>1, <2>4 DEF AtHandler, IdleHandler
  <2>5. \A h \in Gpus, y \in Execs : Early(h, y)' => Early(h, y)
    BY <1>10, <2>1 DEF Early, IdleHandler
  <2>6. \A h \in Gpus : handler'[h].exec \in {0, handler[h].exec}
    BY <2>1 DEF IdleHandler
  <2>7. ASSUME NEW h \in Gpus
        PROVE  ~AtHandler(h, x, c)' /\ x \notin running[h] /\ ~Early(h, x)'
    <3>1. x \notin running[h] /\ (h # g => handler[h].exec # x)
      BY <1>0 DEF ExecAlone
    <3>2. ~AtHandler(h, x, c)'
      BY <2>4, <3>1 DEF AtHandler
    <3>3. ~Early(h, x)'
      BY <1>10, <2>5, <3>1 DEF Early
    <3> QED  BY <3>1, <3>2, <3>3
  <2>8. \A t \in Tools : ~AtWorker(t, x, c) /\ ~AtLoop(t, x, c)
    BY <1>0, <2>2 DEF CallAlone
  <2> QED  BY <2>1, <2>2, <2>3, <2>4, <2>5, <2>6, <2>7, <2>8
<1>11. ASSUME NEW c \in Calls, SendToolJob(g, c)
       PROVE  ExecAlone' /\ CallsMissing' /\ CallAlone' /\ Countdown'
  <2>1. handler[g].pc = "send" /\ c \in handler[g].calls /\ NextCall(g, c) /\ conts' = conts
    BY <1>11 DEF SendToolJob, contVars
  <2>2. ExecAlone' /\ Countdown'
    BY <1>0, <1>2, <1>10, <2>1, ExecFrame DEF Countdown
  <2>3. PICK u : u = handler[g].tool
    OBVIOUS
  <2>4. \A t \in Tools, y \in Execs, d \in Calls :
          AtWorker(t, y, d)' => AtWorker(t, y, d) \/ (t = u /\ y = x /\ d = c)
    BY <1>0, <1>11, <2>3, SendEffect DEF AtWorker
  <2>5. \A t \in Tools, y \in Execs, d \in Calls : AtLoop(t, y, d)' = AtLoop(t, y, d)
    BY <1>2 DEF AtLoop
  <2>6. CallsMissing'
    <3>1. ASSUME NEW y \in Execs, NEW d \in Calls, OnItsWay(y, d)' PROVE OnItsWay(y, d)
      BY <1>10, <2>1, <2>4, <2>5, <3>1 DEF OnItsWay
    <3> QED  BY <1>0, <2>1, <3>1 DEF CallsMissing, Missing
  <2>7. CallAlone'
    <3>1. \A t \in Tools : ~AtWorker(t, x, c) /\ ~AtLoop(t, x, c)
      BY <1>10, <2>1
    <3>2. \A h \in Gpus : ~AtHandler(h, x, c)'
      BY <1>10, <2>1
    <3>3. ASSUME NEW y \in Execs, NEW d \in Calls, NEW t \in Tools
          PROVE  /\ AtWorker(t, y, d)' \/ AtLoop(t, y, d)' => \A h \in Gpus : ~AtHandler(h, y, d)'
                 /\ AtWorker(t, y, d)' =>
                      \A v \in Tools : ~AtLoop(v, y, d)' /\ (AtWorker(v, y, d)' => t = v)
                 /\ AtLoop(t, y, d)' => \A v \in Tools : AtLoop(v, y, d)' => t = v
      <4>1. CASE y = x /\ d = c
        BY <2>4, <2>5, <3>1, <3>2, <4>1
      <4>2. CASE ~(y = x /\ d = c)
        BY <1>0, <1>10, <2>1, <2>4, <2>5, <4>2 DEF CallAlone
      <4> QED  BY <4>1, <4>2
    <3> QED  BY <3>3 DEF CallAlone
  <2> QED  BY <2>2, <2>6, <2>7
<1>12. ASSUME NEW c \in Calls, SendToolJobFails(g, c)
       PROVE  ExecAlone' /\ CallsMissing' /\ CallAlone' /\ Countdown'
  <2>1. /\ handler[g].pc = "send" /\ c \in handler[g].calls /\ NextCall(g, c)
        /\ UNCHANGED toolJobs
    BY <1>12 DEF SendToolJobFails, toolVars
  <2>2. PICK found : found = pendingConts[JobOf(x)]
    OBVIOUS
  <2>3. RecordResult(found, x, c) /\ Missing(x, c)
    BY <1>10, <1>12, <2>1, <2>2 DEF SendToolJobFails
  <2>4. /\ Countdown'
        /\ \A y \in Execs : y # x => conts'[y] = conts[y]
        /\ \A d \in Calls : d # c /\ Missing(x, d) => Missing(x, d)'
    BY <1>0, <1>1, <2>3, RecordCounts
  <2>5. ExecAlone'
    <3>1. \A h \in Gpus : x \notin running[h] /\ ~Early(h, x)'
      BY <1>10, <2>1
    <3>2. \A y \in Execs : \/ conts'[y].phase = conts[y].phase
                           \/ \A h \in Gpus : y \notin running[h] /\ ~Early(h, y)'
      BY <2>4, <3>1
    <3> QED  BY <1>0, <1>2, <1>10, <2>1, <3>2, ExecFrame
  <2>6. CallsMissing' /\ CallAlone'
    <3>1. \A t \in Tools, y \in Execs, d \in Calls :
            (AtWorker(t, y, d)' => AtWorker(t, y, d)) /\ (AtLoop(t, y, d)' => AtLoop(t, y, d))
      BY <1>2, <2>1 DEF AtWorker, AtLoop
    <3>2. ~OnItsWay(x, c)'
      <4>1. \A h \in Gpus : ~AtHandler(h, x, c)'
        BY <1>10, <2>1
      <4>2. \A t \in Tools : ~AtWorker(t, x, c)' /\ ~AtLoop(t, x, c)'
        BY <1>10, <2>1, <3>1
      <4> QED  BY <4>1, <4>2 DEF OnItsWay
    <3>3. \A y \in Execs, d \in Calls : OnItsWay(y, d)' /\ Missing(y, d) => Missing(y, d)'
      BY <2>4, <3>2 DEF Missing
    <3>4. \A h \in Gpus, y \in Execs, d \in Calls : AtHandler(h, y, d)' => AtHandler(h, y, d)
      BY <1>10, <2>1
    <3> QED  BY <1>0, <3>1, <3>3, <3>4, CallsFrame
  <2> QED  BY <2>4, <2>5, <2>6
<1> QED
  BY <1>6, <1>7, <1>8, <1>9, <1>11, <1>12 DEF HandlerStep

LEMMA RoundTools ==
  ASSUME BaseInv, RoundInv, NEW t \in Tools, ToolsStep(t)
  PROVE  RoundInv'
<1>0. BaseType /\ ExecAlone /\ CallsMissing /\ CallAlone /\ Countdown
  BY DEF RoundInv, BaseInv
<1>1. UNCHANGED running
  BY DEF ToolsStep, ToolsConnect, ToolsBreak, ToolsCleanup, ToolRecord, ToolResult, ToolResultLost,
         execVars
<1>2. \A g \in Gpus : /\ handler'[g].pc = handler[g].pc /\ handler'[g].exec = handler[g].exec
                      /\ handler'[g].calls = handler[g].calls
  <2>1. CASE ToolsCleanup(t)
    BY <1>0, <2>1 DEF ToolsCleanup, BaseType
  <2>2. CASE UNCHANGED handler
    BY <2>2
  <2> QED  BY <2>1, <2>2 DEF ToolsStep, ToolsConnect, ToolsBreak, ToolRecord, ToolResult,
                             ToolResultLost
<1>3. /\ \A g \in Gpus, y \in Execs : Early(g, y)' = Early(g, y)
      /\ \A g \in Gpus, y \in Execs, c \in Calls : AtHandler(g, y, c)' = AtHandler(g, y, c)
  BY <1>2 DEF Early, AtHandler
<1>4. SUFFICES ExecAlone' /\ CallsMissing' /\ CallAlone' /\ Countdown'
  BY DEF RoundInv
<1>5. ASSUME UNCHANGED conts PROVE ExecAlone' /\ Countdown'
  BY <1>0, <1>1, <1>2, <1>3, <1>5, ExecFrame DEF Countdown
<1>6. ASSUME UNCHANGED <<conts, toolLoop>>, \A u \in Tools : toolJobs'[u] \subseteq toolJobs[u]
      PROVE  CallsMissing' /\ CallAlone'
  <2>1. \A u \in Tools, y \in Execs, c \in Calls :
          (AtWorker(u, y, c)' => AtWorker(u, y, c)) /\ (AtLoop(u, y, c)' => AtLoop(u, y, c))
    BY <1>6 DEF AtWorker, AtLoop
  <2>2. \A y \in Execs, c \in Calls : Missing(y, c)' = Missing(y, c)
    BY <1>6 DEF Missing
  <2> QED  BY <1>0, <1>3, <2>1, <2>2, CallsFrame
<1>7. CASE ToolsConnect(t) \/ ToolsCleanup(t)
  <2>1. UNCHANGED <<conts, toolLoop, toolJobs>>
    BY <1>7 DEF ToolsConnect, ToolsCleanup, contVars
  <2> QED  BY <1>5, <1>6, <2>1
<1>8. CASE ToolsBreak(t)
  <2>1. UNCHANGED <<conts, toolLoop>>
    BY <1>8 DEF ToolsBreak, contVars
  <2> QED  BY <1>0, <1>5, <1>6, <1>8, <2>1, BreakEffect
<1>9. ASSUME NEW x \in Execs, NEW c \in Calls, ToolResultLost(t, x, c)
      PROVE  ExecAlone' /\ CallsMissing' /\ CallAlone' /\ Countdown'
  <2>1. UNCHANGED <<conts, toolLoop>>
    BY <1>9 DEF ToolResultLost, contVars
  <2>2. \A u \in Tools : toolJobs'[u] \subseteq toolJobs[u]
    BY <1>0, <1>9, ResultEffect
  <2> QED  BY <1>5, <1>6, <2>1, <2>2
<1>10. ASSUME NEW x \in Execs, NEW c \in Calls, ToolResult(t, x, c)
       PROVE  ExecAlone' /\ CallsMissing' /\ CallAlone' /\ Countdown'
  <2>1. UNCHANGED conts /\ toolLoop[t] = IdleLoop /\ AtWorker(t, x, c)
    BY <1>10 DEF ToolResult, contVars, AtWorker
  <2>2. /\ \A u \in Tools : u # t => toolJobs'[u] = toolJobs[u] /\ toolLoop'[u] = toolLoop[u]
        /\ toolJobs'[t] = toolJobs[t] \ {<<x, c>>}
    BY <1>0, <1>10, ResultEffect
  <2>3. toolLoop'[t].exec = x /\ toolLoop'[t].call = c
    BY <1>0, <1>10 DEF ToolResult, BaseType
  <2>4. ASSUME NEW u \in Tools, NEW y \in Execs, NEW d \in Calls
        PROVE  /\ AtWorker(u, y, d)' => AtWorker(u, y, d) /\ ~(u = t /\ y = x /\ d = c)
               /\ AtLoop(u, y, d)' => \/ AtLoop(u, y, d) /\ u # t
                                      \/ u = t /\ y = x /\ d = c
    <3>1. CASE u = t
      BY <2>2, <2>3, <3>1 DEF AtWorker, AtLoop
    <3>2. CASE u # t
      BY <2>2, <3>2 DEF AtWorker, AtLoop
    <3> QED  BY <3>1, <3>2
  <2>5. CallsMissing'
    <3>1. ASSUME NEW y \in Execs, NEW d \in Calls, OnItsWay(y, d)' PROVE OnItsWay(y, d)
      BY <1>3, <2>1, <2>4, <3>1 DEF OnItsWay
    <3> QED  BY <1>0, <2>1, <3>1 DEF CallsMissing, Missing
  <2>6. CallAlone'
    <3>1. ASSUME NEW y \in Execs, NEW d \in Calls, NEW u \in Tools
          PROVE  /\ AtWorker(u, y, d)' \/ AtLoop(u, y, d)' => \A h \in Gpus : ~AtHandler(h, y, d)'
                 /\ AtWorker(u, y, d)' =>
                      \A v \in Tools : ~AtLoop(v, y, d)' /\ (AtWorker(v, y, d)' => u = v)
                 /\ AtLoop(u, y, d)' => \A v \in Tools : AtLoop(v, y, d)' => u = v
      <4>1. CASE y = x /\ d = c
        <5>1. /\ \A v \in Tools : ~AtLoop(v, y, d) /\ (AtWorker(v, y, d) => t = v)
              /\ \A h \in Gpus : ~AtHandler(h, y, d)
          BY <1>0, <2>1, <4>1 DEF CallAlone
        <5>2. \A v \in Tools : ~AtWorker(v, y, d)' /\ (AtLoop(v, y, d)' => v = t)
          BY <2>4, <4>1, <5>1
        <5> QED  BY <1>3, <5>1, <5>2
      <4>2. CASE ~(y = x /\ d = c)
        BY <1>0, <1>3, <2>4, <4>2 DEF CallAlone
      <4> QED  BY <4>1, <4>2
    <3> QED  BY <3>1 DEF CallAlone
  <2> QED  BY <1>5, <2>1, <2>5, <2>6
<1>11. CASE ToolRecord(t)
  <2>1. PICK x, c : x = toolLoop[t].exec /\ c = toolLoop[t].call
    OBVIOUS
  <2>2. x \in Execs /\ c \in Calls
    BY <1>0, <1>11, <2>1 DEF ToolRecord, BaseInv, Existing, LoopExists, BaseType
  <2>3. AtLoop(t, x, c) /\ Missing(x, c)
    BY <1>0, <2>1, <2>2 DEF CallsMissing, OnItsWay, AtLoop
  <2>4. RecordResult(toolLoop[t].found, x, c)
    BY <1>11, <2>1 DEF ToolRecord
  <2>5. /\ Countdown'
        /\ \A y \in Execs : y # x => conts'[y] = conts[y]
        /\ \A d \in Calls : d # c /\ Missing(x, d) => Missing(x, d)'
    BY <1>0, <2>2, <2>3, <2>4, RecordCounts
  <2>6. ExecAlone'
    <3>1. conts[x].phase # "none"
      BY <2>3 DEF Missing
    <3>2. \A h \in Gpus : x \notin running[h] /\ ~Early(h, x)'
      BY <1>0, <1>3, <2>2, <3>1 DEF ExecAlone
    <3>3. \A y \in Execs : \/ conts'[y].phase = conts[y].phase
                           \/ \A h \in Gpus : y \notin running[h] /\ ~Early(h, y)'
      BY <2>5, <3>2
    <3> QED  BY <1>0, <1>1, <1>2, <1>3, <3>3, ExecFrame
  <2>7. UNCHANGED toolJobs /\ \A u \in Tools : u # t => toolLoop'[u] = toolLoop[u]
    BY <1>0, <1>11 DEF ToolRecord, BaseType
  <2>8. toolLoop'[t].exec = 0
    BY <1>0, <1>11 DEF ToolRecord, BaseType, IdleLoop
  <2>9. \A u \in Tools, y \in Execs, d \in Calls :
          /\ AtWorker(u, y, d)' => AtWorker(u, y, d)
          /\ AtLoop(u, y, d)' => AtLoop(u, y, d) /\ u # t
    BY <2>7, <2>8 DEF AtWorker, AtLoop, Execs
  <2>10. ~OnItsWay(x, c)'
    BY <1>0, <1>3, <2>2, <2>3, <2>9 DEF OnItsWay, CallAlone
  <2>11. \A y \in Execs, d \in Calls : OnItsWay(y, d)' /\ Missing(y, d) => Missing(y, d)'
    <3>1. ASSUME NEW y \in Execs, NEW d \in Calls, y # x, Missing(y, d) PROVE Missing(y, d)'
      BY <2>5, <3>1 DEF Missing
    <3> QED  BY <2>5, <2>10, <3>1
  <2> QED  BY <1>0, <1>3, <2>5, <2>6, <2>9, <2>11, CallsFrame
<1> QED
  BY <1>7, <1>8, <1>9, <1>10, <1>11 DEF ToolsStep

LEMMA RoundStart ==
  ASSUME Init
  PROVE  RoundInv
<1> USE DEF Init, IdleHandler, IdleLoop, NoCont
<1>1. ExecAlone
  BY DEF ExecAlone, Early, Execs
<1>2. CallsMissing /\ CallAlone
  BY DEF CallsMissing, CallAlone, OnItsWay, AtHandler, AtWorker, AtLoop, Execs
<1>3. Countdown
  BY FS_EmptySet DEF Countdown
<1> QED
  BY <1>1, <1>2, <1>3 DEF RoundInv

LEMMA RoundStep ==
  ASSUME BaseInv, RoundInv, Next
  PROVE  RoundInv'
<1>1. ASSUME NEW g \in Gpus, NEW x \in Execs, NEW calls \in SUBSET Calls,
             ReceiveError(g, x) \/ EndsInSilence(g, x) \/ ReceiveComplete(g, x, calls)
      PROVE  RoundInv'
  BY <1>1, RoundReceive, RoundSilence
<1> QED
  BY <1>1, RoundSubmit, RoundReader, RoundHandler, RoundNext, RoundTools DEF Next, ToolsStep

LEMMA Stutters ==
  ASSUME UNCHANGED vars
  PROVE  (BaseInv => BaseInv') /\ (RoundInv => RoundInv')
<1> USE DEF vars, queueVars, execVars, contVars, toolVars
<1>1. BaseType' = BaseType
  BY DEF BaseType
<1>2. Existing' = Existing
  <2>1. /\ QueueExists' = QueueExists /\ SentExists' = SentExists /\ PelExists' = PelExists
        /\ ContsExist' = ContsExist
    BY DEF QueueExists, SentExists, PelExists, ContsExist, Sent, Readable
  <2>2. ASSUME NEW g \in Gpus
        PROVE  /\ TrackedExists(g)' = TrackedExists(g) /\ ReaderExists(g)' = ReaderExists(g)
               /\ RunningExists(g)' = RunningExists(g) /\ HandlerExists(g)' = HandlerExists(g)
    BY DEF TrackedExists, ReaderExists, RunningExists, HandlerExists, Sent, Readable, JobOf
  <2>3. ASSUME NEW t \in Tools
        PROVE  ToolJobsExist(t)' = ToolJobsExist(t) /\ LoopExists(t)' = LoopExists(t)
    BY DEF ToolJobsExist, LoopExists, Sent
  <2> QED  BY <2>1, <2>2, <2>3 DEF Existing
<1>3. RoundInv => RoundInv'
  <2>1. ExecAlone' = ExecAlone /\ Countdown' = Countdown
    BY DEF ExecAlone, Early, Countdown
  <2>2. CallsMissing' = CallsMissing /\ CallAlone' = CallAlone
    BY DEF CallsMissing, CallAlone, OnItsWay, AtHandler, AtWorker, AtLoop, Missing
  <2> QED  BY <2>1, <2>2 DEF RoundInv
<1> QED
  BY <1>1, <1>2, <1>3 DEF BaseInv

LEMMA RoundsKept == Spec => [](BaseInv /\ RoundInv)
<1>1. Init => BaseInv /\ RoundInv
  BY BaseInit, RoundStart
<1>2. BaseInv /\ RoundInv /\ [Next]_vars => (BaseInv /\ RoundInv)'
  BY BaseStep, RoundStep, Stutters
<1> QED
  BY <1>1, <1>2, PTL DEF Spec

\* Every value of the pipeline keeps its type; that the countdown of a round
\* never falls below zero (recordToolResult decrements it without a test) rests
\* on CallsMissing: a result that is recorded is one the round still misses.
THEOREM TypeCorrect == Spec => []TypeOK
<1>1. BaseInv /\ RoundInv => TypeOK
  <2> SUFFICES ASSUME BaseInv, RoundInv PROVE TypeOK
    OBVIOUS
  <2>1. ASSUME NEW x \in Execs PROVE conts[x].remaining \in 0 .. Cardinality(Calls)
    <3>1. conts[x].calls \ conts[x].got \subseteq Calls
      BY DEF BaseInv, BaseType
    <3>2. /\ Cardinality(conts[x].calls \ conts[x].got) \in Nat
          /\ Cardinality(conts[x].calls \ conts[x].got) <= Cardinality(Calls)
          /\ Cardinality(Calls) \in Nat
      BY <3>1, FS_Subset, FS_CardinalityType
    <3> QED  BY <3>2 DEF RoundInv, Countdown
  <2>2. conts \in [Execs -> [phase : Phases, history : Seq(Execs), calls : SUBSET Calls,
                             got : SUBSET Calls, remaining : 0 .. Cardinality(Calls)]]
    BY <2>1 DEF BaseInv, BaseType
  <2> QED  BY <2>2 DEF TypeOK, BaseInv, BaseType
<1> QED
  BY <1>1, RoundsKept, PTL

\* When the goroutine of the next round starts, every call of the round has its
\* result: the defensive branch of continueLLMRound is dead code.
THEOREM RoundsAreWhole == Spec => []RoundIsWhole
<1>1. RoundInv => RoundIsWhole
  BY DEF RoundInv, Countdown, RoundIsWhole
<1> QED
  BY <1>1, RoundsKept, PTL

-----------------------------------------------------------------------------
(* A round is continued once.                                              *)

\* The life of a continuation, in one step.
Moves(x) ==
  \/ conts'[x] = conts[x]
  \/ conts[x].phase = "none" /\ conts'[x].phase = "open"
  \/ /\ conts[x].phase = "open" /\ conts'[x].phase \in {"open", "save"}
     /\ conts'[x].history = conts[x].history
  \/ /\ \/ conts[x].phase = "save" /\ conts'[x].phase = "enqueue"
        \/ conts[x].phase = "enqueue" /\ conts'[x].phase = "over"
     /\ conts'[x].history = conts[x].history

LEMMA RecordMoves ==
  ASSUME BaseType, NEW found, NEW x \in Execs, NEW c \in Calls,
         Missing(x, c), RecordResult(found, x, c)
  PROVE  \A y \in Execs : Moves(y)
<1>1. CASE found # x
  BY <1>1, RecordFrame DEF Moves
<1>2. CASE found = x
  <2>1. conts'[x] = Recorded(x, c)
    BY <1>2, RecordEffect DEF BaseType, ContType
  <2>2. Moves(x)
    BY <2>1 DEF Recorded, Missing, Moves
  <2> QED  BY <2>2, RecordFrame DEF Moves
<1> QED
  BY <1>1, <1>2

LEMMA RoundMoves ==
  ASSUME BaseInv, RoundInv, Next
  PROVE  \A x \in Execs : Moves(x)
<1>0. BaseType /\ ExecAlone /\ CallsMissing
  BY DEF RoundInv, BaseInv
<1>1. CASE UNCHANGED conts
  BY <1>1 DEF Moves
<1>2. ASSUME NEW g \in Gpus, HandlerStep(g) PROVE \A x \in Execs : Moves(x)
  <2>1. handler[g].pc # "idle" => handler[g].exec \in Execs
    BY <1>0 DEF BaseInv, BaseType, Existing, HandlerExists
  <2>2. CASE StartContinuation(g)
    <3>1. PICK x \in Execs : x = handler[g].exec
      BY <2>1, <2>2 DEF StartContinuation
    <3>2. conts[x].phase = "none"
      BY <1>0, <2>2, <3>1 DEF StartContinuation, ExecAlone, Early
    <3>3. conts'[x].phase = "open" /\ \A y \in Execs : y # x => conts'[y] = conts[y]
      BY <1>0, <2>2, <3>1 DEF StartContinuation, BaseType
    <3> QED  BY <3>2, <3>3 DEF Moves
  <2>3. ASSUME NEW c \in Calls, SendToolJobFails(g, c) PROVE \A x \in Execs : Moves(x)
    <3>1. PICK x \in Execs : x = handler[g].exec
      BY <2>1, <2>3 DEF SendToolJobFails
    <3>2. Missing(x, c)
      BY <1>0, <2>3, <3>1 DEF SendToolJobFails, CallsMissing, OnItsWay, AtHandler
    <3>3. RecordResult(pendingConts[JobOf(x)], x, c)
      BY <2>3, <3>1 DEF SendToolJobFails
    <3> QED  BY <1>0, <3>2, <3>3, RecordMoves
  <2>4. CASE UNCHANGED conts
    BY <2>4 DEF Moves
  <2> QED  BY <1>2, <2>2, <2>3, <2>4 DEF HandlerStep, UntrackJob, AckJob, PassThrough, PublishDone,
                                         DeleteJobContext, SendToolJob, contVars
<1>3. ASSUME NEW x \in Execs, NextRound(x) PROVE \A y \in Execs : Moves(y)
  <2>1. \/ conts[x].phase = "save" /\ conts'[x].phase = "enqueue"
        \/ conts[x].phase = "enqueue" /\ conts'[x].phase = "over"
    BY <1>0, <1>3 DEF NextRound, UpdateJobContext, Requeue, RequeueFails, BaseType
  <2>2. /\ conts'[x].history = conts[x].history
        /\ \A y \in Execs : y # x => conts'[y] = conts[y]
    BY <1>0, <1>3 DEF NextRound, UpdateJobContext, Requeue, RequeueFails, BaseType
  <2> QED  BY <2>1, <2>2 DEF Moves
<1>4. ASSUME NEW t \in Tools, ToolsStep(t) PROVE \A x \in Execs : Moves(x)
  <2>1. CASE ToolRecord(t)
    <3>1. PICK x, c : x = toolLoop[t].exec /\ c = toolLoop[t].call
      OBVIOUS
    <3>2. x \in Execs /\ c \in Calls
      BY <1>0, <2>1, <3>1 DEF ToolRecord, BaseInv, Existing, LoopExists, BaseType
    <3>3. Missing(x, c)
      BY <1>0, <3>1, <3>2 DEF CallsMissing, OnItsWay, AtLoop
    <3>4. RecordResult(toolLoop[t].found, x, c)
      BY <2>1, <3>1 DEF ToolRecord
    <3> QED  BY <1>0, <3>2, <3>3, <3>4, RecordMoves
  <2>2. CASE UNCHANGED conts
    BY <2>2 DEF Moves
  <2> QED  BY <1>4, <2>1, <2>2 DEF ToolsStep, ToolsConnect, ToolsBreak, ToolsCleanup, ToolResult,
                                   ToolResultLost, contVars
<1>5. ASSUME NEW g \in Gpus, ReaderStep(g) PROVE UNCHANGED conts
  BY <1>5 DEF ReaderStep, ExpireStaleJobs, ReadPending, ReadNew, ReadTimeout, SaveJobContext,
              AssignJob, SendJob, contVars
<1>6. ASSUME NEW g \in Gpus, NEW x \in Execs, NEW calls \in SUBSET Calls,
             ReceiveError(g, x) \/ EndsInSilence(g, x) \/ ReceiveComplete(g, x, calls)
      PROVE  UNCHANGED conts
  BY <1>6 DEF ReceiveError, EndsInSilence, ReceiveComplete, contVars
<1>7. ASSUME NEW j \in Jobs, Submit(j) PROVE UNCHANGED conts
  BY <1>7 DEF Submit, contVars
<1> QED
  BY <1>1, <1>2, <1>3, <1>4, <1>5, <1>6, <1>7 DEF Next, ToolsStep

\* Where new entries come from.
LEMMA NewEntries ==
  ASSUME BaseInv, Next
  PROVE  \/ added' = added /\ queue' = queue
         \/ \E j \in Jobs : Submit(j) /\ added' = added + 1 /\ queue'[added'].job = j
                           /\ queue'[added'].history = <<>>
         \/ \E x \in Execs : Requeue(x) /\ added' = added + 1 /\ queue'[added'].job = JobOf(x)
                            /\ queue'[added'].history = Append(conts[x].history, x)
<1>0. BaseType
  BY DEF BaseInv
<1>1. ASSUME NEW j \in Jobs, Submit(j)
      PROVE  added' = added + 1 /\ queue'[added'].job = j /\ queue'[added'].history = <<>>
  BY <1>0, <1>1 DEF Submit, AddEntry, BaseType, Entries
<1>2. ASSUME NEW x \in Execs, Requeue(x)
      PROVE  /\ added' = added + 1 /\ queue'[added'].job = JobOf(x)
             /\ queue'[added'].history = Append(conts[x].history, x)
  BY <1>0, <1>2, SMTT(30) DEF Requeue, AddEntry, NextHistory, BaseType, Entries
<1>3. ASSUME NEW x \in Execs, UpdateJobContext(x) \/ RequeueFails(x) PROVE added' = added /\ queue' = queue
  BY <1>3 DEF UpdateJobContext, RequeueFails, queueVars
<1>4. ASSUME NEW g \in Gpus, ReaderStep(g) PROVE added' = added /\ queue' = queue
  BY <1>4 DEF ReaderStep, ExpireStaleJobs, ReadPending, ReadNew, ReadTimeout, SaveJobContext,
              AssignJob, SendJob, queueVars
<1>5. ASSUME NEW g \in Gpus, HandlerStep(g) PROVE added' = added /\ queue' = queue
  BY <1>5 DEF HandlerStep, UntrackJob, AckJob, StartContinuation, PassThrough, PublishDone,
              DeleteJobContext, SendToolJob, SendToolJobFails, queueVars
<1>6. ASSUME NEW g \in Gpus, NEW x \in Execs, NEW calls \in SUBSET Calls,
             ReceiveError(g, x) \/ EndsInSilence(g, x) \/ ReceiveComplete(g, x, calls)
      PROVE  added' = added /\ queue' = queue
  BY <1>6 DEF ReceiveError, EndsInSilence, ReceiveComplete, queueVars
<1>7. ASSUME NEW t \in Tools, ToolsStep(t) PROVE added' = added /\ queue' = queue
  BY <1>7 DEF ToolsStep, ToolsConnect, ToolsBreak, ToolsCleanup, ToolRecord, ToolResult,
              ToolResultLost, queueVars
<1> QED
  BY <1>1, <1>2, <1>3, <1>4, <1>5, <1>6, <1>7 DEF Next, NextRound, ToolsStep

LEMMA ContinuedOnceKept ==
  ASSUME BaseInv, BaseInv', RoundInv, ContinuedOnce, Next
  PROVE  ContinuedOnce'
<1>0. BaseType /\ BaseType' /\ Grows /\ \A x \in Execs : Moves(x)
  BY Growing, RoundMoves DEF BaseInv
<1>1. ASSUME NEW e \in 1 .. added, queue[e].history # <<>>
      PROVE  /\ queue'[e].history = queue[e].history
             /\ LastOf(queue[e].history) \in Execs
             /\ conts[LastOf(queue[e].history)].phase = "over"
             /\ conts'[LastOf(queue[e].history)].phase = "over"
  <2>1. queue'[e].history = queue[e].history /\ conts[LastOf(queue[e].history)].phase = "over"
    BY <1>0, <1>1 DEF Grows, ContinuedOnce
  <2>2. e \in Entries /\ queue[e].history \in Seq(Execs)
    BY <1>0 DEF BaseType, Entries
  <2>3. LastOf(queue[e].history) \in Execs
    BY <1>1, <2>2, EmptySeq, LenProperties, ElementOfSeq DEF LastOf
  <2> QED  BY <1>0, <2>1, <2>3 DEF Moves
<1>2. CASE added' = added /\ queue' = queue
  BY <1>1, <1>2 DEF ContinuedOnce
<1>3. ASSUME NEW h, added' = added + 1, queue'[added'].history = h,
             h # <<>> => /\ conts'[LastOf(h)].phase = "over"
                         /\ conts[LastOf(h)].phase # "over"
      PROVE  ContinuedOnce'
  <2>1. \A e \in 1 .. added' : e = added' \/ e \in 1 .. added
    BY <1>0, <1>3 DEF BaseType
  <2>2. \A e \in 1 .. added' : queue'[e].history # <<>> =>
          \/ e = added' /\ queue'[e].history = h
          \/ e \in 1 .. added /\ queue[e].history # <<>> /\ queue'[e].history = queue[e].history
    BY <1>0, <1>3, <2>1 DEF Grows
  <2> QED  BY <1>1, <1>3, <2>2 DEF ContinuedOnce
<1>4. ASSUME NEW x \in Execs, Requeue(x) PROVE ContinuedOnce'
  <2> DEFINE h == Append(conts[x].history, x)
  <2>1. LastOf(h) = x
    BY <1>0, AppendProperties DEF BaseType, LastOf
  <2>2. conts[x].phase # "over" /\ conts'[x].phase = "over"
    BY <1>0, <1>4 DEF Requeue, BaseType
  <2>3. added' = added + 1 /\ queue'[added'].history = h
    BY <1>0, <1>4 DEF Requeue, AddEntry, NextHistory, BaseType, Entries
  <2>4. PICK hh : hh = h
    OBVIOUS
  <2> QED  BY <1>3, <2>1, <2>2, <2>3, <2>4
<1>5. ASSUME NEW j \in Jobs, Submit(j) PROVE ContinuedOnce'
  <2>1. added' = added + 1 /\ queue'[added'].history = <<>>
    BY <1>0, <1>5 DEF Submit, AddEntry, BaseType, Entries
  <2> QED  BY <1>3, <2>1
<1> QED
  BY <1>2, <1>4, <1>5, NewEntries

\* The results of a round feed one entry, whoever records them last and however
\* late: its goroutine passes "over" once, and nothing reopens a continuation.
THEOREM RoundsContinueOnce == Spec => []ContinuedOnce
<1>1. Init => ContinuedOnce
  BY DEF Init, ContinuedOnce
<1>2. BaseInv /\ BaseInv' /\ RoundInv /\ ContinuedOnce /\ [Next]_vars => ContinuedOnce'
  <2>1. CASE UNCHANGED vars
    BY <2>1 DEF vars, queueVars, contVars, ContinuedOnce
  <2> QED  BY <2>1, ContinuedOnceKept
<1> QED
  BY <1>1, <1>2, RoundsKept, PTL DEF Spec

-----------------------------------------------------------------------------
(* What a worker runs, step by step.                                       *)

\* A caller who is answered stays answered.
LEMMA AnswersStay ==
  ASSUME BaseInv, Next, NEW j \in Jobs, Waiting(j)'
  PROVE  Waiting(j)
<1> USE DEF Waiting
<1>1. CASE answered' = answered
  BY <1>1
<1>2. ASSUME NEW i, NEW reply, Publish(i, reply) PROVE Waiting(j)
  <2>1. answered' = [answered EXCEPT ![i] = IF answered[i] = "none" THEN reply ELSE answered[i]]
    BY <1>2 DEF Publish
  <2> QED  BY <2>1 DEF BaseInv, BaseType
<1>3. ASSUME NEW g \in Gpus, ReaderStep(g) PROVE Waiting(j)
  <2>1. CASE ExpireStaleJobs(g)
    BY <2>1 DEF ExpireStaleJobs
  <2>2. CASE ~ExpireStaleJobs(g)
    BY <1>1, <1>3, <2>2 DEF ReaderStep, ReadPending, ReadNew, ReadTimeout, SaveJobContext,
                            AssignJob, SendJob
  <2> QED  BY <2>1, <2>2
<1>4. ASSUME NEW g \in Gpus, HandlerStep(g) PROVE Waiting(j)
  BY <1>1, <1>2, <1>4 DEF HandlerStep, UntrackJob, AckJob, StartContinuation, PassThrough,
       PublishDone, DeleteJobContext, SendToolJob, SendToolJobFails
<1>5. ASSUME NEW g \in Gpus, NEW x \in Execs, NEW calls \in SUBSET Calls,
             ReceiveError(g, x) \/ EndsInSilence(g, x) \/ ReceiveComplete(g, x, calls)
      PROVE  Waiting(j)
  BY <1>1, <1>2, <1>5 DEF ReceiveError, EndsInSilence, ReceiveComplete
<1>6. ASSUME NEW x \in Execs, NextRound(x) PROVE Waiting(j)
  BY <1>1, <1>2, <1>6 DEF NextRound, UpdateJobContext, Requeue, RequeueFails
<1>7. ASSUME NEW t \in Tools, ToolsStep(t) PROVE Waiting(j)
  BY <1>1, <1>7 DEF ToolsStep, ToolsConnect, ToolsBreak, ToolsCleanup, ToolRecord, ToolResult,
                    ToolResultLost
<1>8. ASSUME NEW i \in Jobs, Submit(i) PROVE Waiting(j)
  BY <1>1, <1>8 DEF Submit
<1> QED
  BY <1>3, <1>4, <1>5, <1>6, <1>7, <1>8 DEF Next, ToolsStep

\* TrackInv by its parts.
RunsTracked(g) ==
  \A x \in running[g] : Waiting(JobOf(x)) =>
    /\ tracked[g][JobOf(x)] = sent[x]
    /\ \A y \in running[g] : JobOf(y) = JobOf(x) => y = x
SendsTracked(g) ==
  reader[g].pc = "send" /\ Waiting(queue[reader[g].entry].job) =>
    /\ tracked[g][queue[reader[g].entry].job] = reader[g].entry
    /\ \A x \in running[g] : JobOf(x) # queue[reader[g].entry].job
ReturnsTracked(g) ==
  /\ handler[g].pc = "untrack" => ~Waiting(JobOf(handler[g].exec))
  /\ handler[g].pc = "ack" /\ Waiting(JobOf(handler[g].exec)) =>
       handler[g].entry = sent[handler[g].exec]

LEMMA TrackParts ==
  /\ TrackInv => \A g \in Gpus : RunsTracked(g) /\ SendsTracked(g) /\ ReturnsTracked(g)
  /\ (\A g \in Gpus : RunsTracked(g)' /\ SendsTracked(g)' /\ ReturnsTracked(g)') => TrackInv'
BY DEF TrackInv, RunsTracked, SendsTracked, ReturnsTracked

\* A part whose worker, slots and callers a step leaves alone.
LEMMA TrackFrame ==
  ASSUME BaseInv, BaseInv', Next, NEW g \in Gpus
  PROVE  /\ /\ RunsTracked(g) /\ running'[g] \subseteq running[g]
            /\ \A j \in Jobs : Waiting(j)' => \/ tracked'[g][j] = tracked[g][j]
                                              \/ \A x \in running'[g] : JobOf(x) # j
            => RunsTracked(g)'
         /\ /\ SendsTracked(g) /\ running'[g] \subseteq running[g]
            /\ reader'[g].pc = "send" => /\ reader[g].pc = "send"
                                         /\ reader'[g].entry = reader[g].entry
            /\ \A j \in Jobs : Waiting(j)' => \/ tracked'[g][j] = tracked[g][j]
                                              \/ \E x \in running[g] : JobOf(x) = j
            => SendsTracked(g)'
         /\ /\ ReturnsTracked(g)
            /\ handler'[g].pc \in {"untrack", "ack"} => /\ handler'[g].pc = handler[g].pc
                                                        /\ handler'[g].exec = handler[g].exec
                                                        /\ handler'[g].entry = handler[g].entry
            => ReturnsTracked(g)'
<1>0. Grows /\ running[g] \subseteq Sent
  BY Growing DEF BaseInv, Existing, RunningExists
<1>1. /\ \A x \in Sent : /\ JobOf(x)' = JobOf(x) /\ sent'[x] = sent[x] /\ JobOf(x) \in Jobs
      /\ \A e \in Readable : queue'[e] = queue[e] /\ queue[e].job \in Jobs
  BY <1>0, JobsKept DEF Grows, BaseInv, Existing, QueueExists
<1>2. \A j \in Jobs : Waiting(j)' => Waiting(j)
  BY AnswersStay
<1>3. ASSUME RunsTracked(g), running'[g] \subseteq running[g],
             \A j \in Jobs : Waiting(j)' => \/ tracked'[g][j] = tracked[g][j]
                                            \/ \A x \in running'[g] : JobOf(x) # j
      PROVE  RunsTracked(g)'
  <2> SUFFICES ASSUME NEW x \in running'[g], Waiting(JobOf(x))'
               PROVE  /\ tracked'[g][JobOf(x)'] = sent'[x]
                      /\ \A y \in running'[g] : JobOf(y)' = JobOf(x)' => y = x
    BY DEF RunsTracked
  <2>1. /\ x \in running[g] /\ JobOf(x)' = JobOf(x) /\ sent'[x] = sent[x] /\ JobOf(x) \in Jobs
        /\ \A y \in running'[g] : y \in running[g] /\ JobOf(y)' = JobOf(y)
    BY <1>0, <1>1, <1>3
  <2>2. PICK j \in Jobs : j = JobOf(x)
    BY <2>1
  <2>3. Waiting(j)'
    BY <2>1, <2>2 DEF Waiting
  <2>4. Waiting(j) /\ tracked'[g][j] = tracked[g][j]
    BY <1>2, <1>3, <2>2, <2>3
  <2> QED  BY <1>3, <2>1, <2>2, <2>4 DEF RunsTracked
<1>4. ASSUME SendsTracked(g), running'[g] \subseteq running[g],
             reader'[g].pc = "send" => reader[g].pc = "send" /\ reader'[g].entry = reader[g].entry,
             \A j \in Jobs : Waiting(j)' => \/ tracked'[g][j] = tracked[g][j]
                                            \/ \E x \in running[g] : JobOf(x) = j
      PROVE  SendsTracked(g)'
  <2> SUFFICES ASSUME reader'[g].pc = "send", Waiting(queue[reader[g].entry].job)'
               PROVE  /\ tracked'[g][queue'[reader'[g].entry].job] = reader'[g].entry
                      /\ \A x \in running'[g] : JobOf(x)' # queue'[reader'[g].entry].job
    BY DEF SendsTracked
  <2>1. PICK e : e = reader[g].entry
    OBVIOUS
  <2>2. reader[g].pc = "send" /\ reader'[g].entry = e /\ e \in Readable
    BY <1>4, <2>1 DEF BaseInv, Existing, ReaderExists
  <2>3. PICK j \in Jobs : j = queue[e].job
    BY <1>1, <2>2
  <2>4. queue'[e].job = j
    BY <1>1, <2>2, <2>3
  <2>5. Waiting(j)' /\ Waiting(j)
    BY <1>2, <2>2, <2>4 DEF Waiting
  <2>6. tracked[g][j] = e /\ \A x \in running[g] : JobOf(x) # j
    BY <1>4, <2>1, <2>2, <2>3, <2>5 DEF SendsTracked
  <2>7. tracked'[g][j] = tracked[g][j]
    BY <1>4, <2>5, <2>6
  <2> QED  BY <1>0, <1>1, <1>4, <2>2, <2>4, <2>6, <2>7
<1>5. ASSUME ReturnsTracked(g),
             handler'[g].pc \in {"untrack", "ack"} => /\ handler'[g].pc = handler[g].pc
                                                      /\ handler'[g].exec = handler[g].exec
                                                      /\ handler'[g].entry = handler[g].entry
      PROVE  ReturnsTracked(g)'
  <2>1. PICK x : x = handler[g].exec
    OBVIOUS
  <2>2. CASE handler'[g].pc \in {"untrack", "ack"}
    <3>1. x \in Sent /\ handler'[g].exec = x
      BY <1>5, <2>1, <2>2 DEF BaseInv, Existing, HandlerExists
    <3>2. JobOf(handler[g].exec)' = JobOf(x)
      BY <1>1, <3>1 DEF JobOf
    <3>3. Waiting(JobOf(handler[g].exec))' => Waiting(JobOf(x))
      BY <1>1, <1>2, <3>1, <3>2 DEF Waiting
    <3> QED  BY <1>1, <1>5, <2>1, <2>2, <3>1, <3>3 DEF ReturnsTracked
  <2>3. CASE handler'[g].pc \notin {"untrack", "ack"}
    BY <2>3 DEF ReturnsTracked
  <2> QED  BY <2>2, <2>3
<1> QED
  BY <1>3, <1>4, <1>5

\* ... and a worker a step leaves alone altogether.
LEMMA TrackOthers ==
  ASSUME BaseInv, BaseInv', Next, TrackInv, NEW g \in Gpus,
         running'[g] = running[g], tracked'[g] = tracked[g], reader'[g] = reader[g],
         /\ handler'[g].pc = handler[g].pc
         /\ handler'[g].exec = handler[g].exec
         /\ handler'[g].entry = handler[g].entry
  PROVE  RunsTracked(g)' /\ SendsTracked(g)' /\ ReturnsTracked(g)'
BY TrackFrame, TrackParts

LEMMA TrackReader ==
  ASSUME BaseInv, BaseInv', Next, TrackInv, NEW g \in Gpus, ReaderStep(g)
  PROVE  TrackInv'
<1> USE DEF queueVars, execVars, contVars, toolVars
<1>0. BaseType /\ Grows /\ RunsTracked(g) /\ SendsTracked(g) /\ ReturnsTracked(g)
  BY Growing, TrackParts DEF BaseInv
<1>1. UNCHANGED handler
  BY DEF ReaderStep, ExpireStaleJobs, ReadPending, ReadNew, ReadTimeout, SaveJobContext,
         AssignJob, SendJob
<1>2. \A h \in Gpus : h # g =>
        tracked'[h] = tracked[h] /\ reader'[h] = reader[h] /\ running'[h] = running[h]
  BY <1>0 DEF ReaderStep, ExpireStaleJobs, ReadPending, ReadNew, ReadTimeout, SaveJobContext,
         AssignJob, SendJob, NextEntry, ReaderAt, BaseType
<1>3. SUFFICES RunsTracked(g)' /\ SendsTracked(g)'
  <2>1. ReturnsTracked(g)'
    BY <1>0, <1>1, TrackFrame
  <2>2. ASSUME NEW h \in Gpus, h # g
        PROVE  RunsTracked(h)' /\ SendsTracked(h)' /\ ReturnsTracked(h)'
    BY <1>1, <1>2, <2>2, TrackOthers
  <2> QED  BY <2>1, <2>2, TrackParts
<1>4. ASSUME running'[g] = running[g], reader'[g].pc # "send",
             \A j \in Jobs : Waiting(j)' => tracked'[g][j] = tracked[g][j]
      PROVE  RunsTracked(g)' /\ SendsTracked(g)'
  BY <1>0, <1>4, TrackFrame
<1>5. CASE ExpireStaleJobs(g)
  <2>1. reader'[g].pc = "pending" /\ running'[g] = running[g]
    BY <1>0, <1>5 DEF ExpireStaleJobs, ReaderAt, BaseType
  <2>2. \A j \in Jobs : Waiting(j)' => tracked'[g][j] = tracked[g][j]
    BY <1>0, <1>5 DEF ExpireStaleJobs, BaseType, Waiting
  <2> QED  BY <1>4, <2>1, <2>2
<1>6. CASE ReadPending(g)
  <2>1. reader'[g].pc \in {"block", "save"}
    BY <1>0, <1>6 DEF ReadPending, ReaderAt, BaseType
  <2> QED  BY <1>4, <1>6, <2>1 DEF ReadPending
<1>7. CASE ReadNew(g) \/ ReadTimeout(g)
  <2>1. reader'[g].pc # "send"
    BY <1>0, <1>7 DEF ReadNew, ReadTimeout, ReaderAt, BaseType
  <2>2. UNCHANGED <<running, tracked>>
    BY <1>7 DEF ReadNew, ReadTimeout
  <2> QED  BY <1>4, <2>1, <2>2
<1>8. CASE SaveJobContext(g)
  <2>1. reader'[g].pc = "assign"
    BY <1>0, <1>8 DEF SaveJobContext, ReaderAt, BaseType
  <2> QED  BY <1>4, <1>8, <2>1 DEF SaveJobContext
<1>n. ASSUME NextEntry(g) PROVE reader'[g].pc # "send"
  BY <1>0, <1>n DEF NextEntry, ReaderAt, BaseType
<1>9. CASE AssignJob(g)
  <2>1. PICK e : e = reader[g].entry
    OBVIOUS
  <2>2. e \in Readable /\ queue[e].job \in Jobs /\ queue'[e] = queue[e]
    BY <1>0, <1>9, <2>1 DEF AssignJob, BaseInv, Existing, ReaderExists, QueueExists, BaseType,
                            Readable
  <2>3. CASE NextEntry(g) /\ UNCHANGED tracked
    BY <1>4, <1>9, <1>n, <2>3 DEF AssignJob
  <2>4. CASE /\ tracked[g][queue[e].job] = 0
             /\ tracked' = [tracked EXCEPT ![g][queue[e].job] = e]
             /\ ReaderAt(g, "send", reader[g].todo, e)
    <3>1. PICK j \in Jobs : j = queue[e].job
      BY <2>2
    <3>2. /\ tracked'[g][j] = e
          /\ \A i \in Jobs : i # j => tracked'[g][i] = tracked[g][i]
      BY <1>0, <2>4, <3>1 DEF BaseType
    <3>3. UNCHANGED <<running, sent, queue>>
      BY <1>9 DEF AssignJob
    <3>4. Waiting(j) => \A x \in running[g] : JobOf(x) # j
      <4> SUFFICES ASSUME Waiting(j), NEW x \in running[g], JobOf(x) = j PROVE FALSE
        OBVIOUS
      <4>1. tracked[g][j] = sent[x]
        BY <1>0 DEF RunsTracked
      <4>2. sent[x] # 0
        BY DEF BaseInv, BaseType, Existing, RunningExists, SentExists, Sent, Readable
      <4> QED  BY <2>4, <3>1, <4>1, <4>2
    <3>5. Waiting(j)' => Waiting(j)
      BY AnswersStay
    <3>6. RunsTracked(g)'
      BY <1>0, <3>2, <3>3, <3>4, <3>5, TrackFrame
    <3>7. SendsTracked(g)'
      <4>1. reader'[g].entry = e
        BY <1>0, <2>4 DEF ReaderAt, BaseType
      <4>2. queue'[reader'[g].entry].job = j
        BY <2>2, <3>1, <4>1
      <4>3. Waiting(queue[reader[g].entry].job)' => Waiting(j)
        BY <3>5, <4>2 DEF Waiting
      <4>4. \A x \in running[g] : JobOf(x)' = JobOf(x)
        BY <3>3 DEF JobOf
      <4> QED  BY <3>2, <3>3, <3>4, <4>1, <4>2, <4>3, <4>4 DEF SendsTracked
    <3> QED  BY <3>6, <3>7
  <2>5. CASE tracked[g][queue[e].job] = 0 /\ HasCapacity(g)
    BY <1>9, <2>1, <2>4, <2>5 DEF AssignJob
  <2>6. CASE ~(tracked[g][queue[e].job] = 0 /\ HasCapacity(g))
    BY <1>9, <2>1, <2>3, <2>6 DEF AssignJob
  <2> QED  BY <2>5, <2>6
<1>10. CASE SendJob(g)
  <2>1. PICK n : n = sends + 1
    OBVIOUS
  <2>2. PICK e : e = reader[g].entry
    OBVIOUS
  <2>3. /\ e \in Readable /\ queue[e].job \in Jobs /\ n \in Execs /\ n \notin Sent
        /\ running[g] \subseteq Sent /\ Sent \subseteq Execs
    BY <1>10, <2>1, <2>2 DEF SendJob, BaseInv, BaseType, Existing, ReaderExists, RunningExists,
                             QueueExists, Readable, Sent, Execs
  <2>4. /\ UNCHANGED <<queue, tracked, answered>>
        /\ sent'[n] = e /\ \A x \in Sent : sent'[x] = sent[x]
        /\ running'[g] = running[g] \cup {n}
    BY <1>0, <1>10, <2>1, <2>2, <2>3 DEF SendJob, BaseType, Sent
  <2>5. reader'[g].pc # "send"
    BY <1>10, <1>n DEF SendJob
  <2>6. JobOf(n)' = queue[e].job /\ \A x \in Sent : JobOf(x)' = JobOf(x)
    BY <2>4 DEF JobOf
  <2>7. PICK j \in Jobs : j = queue[e].job
    BY <2>3
  <2>8. Waiting(j) => tracked[g][j] = e /\ \A x \in running[g] : JobOf(x) # j
    BY <1>0, <1>10, <2>2, <2>7 DEF SendJob, SendsTracked
  <2>9. RunsTracked(g)'
    <3> SUFFICES ASSUME NEW x \in running'[g], Waiting(JobOf(x))'
                 PROVE  /\ tracked'[g][JobOf(x)'] = sent'[x]
                        /\ \A y \in running'[g] : JobOf(y)' = JobOf(x)' => y = x
      BY DEF RunsTracked
    <3>1. answered[JobOf(x)'] = "none"
      BY <2>4 DEF Waiting
    <3>2. CASE x = n
      <4>1. Waiting(j) /\ JobOf(x)' = j
        BY <2>6, <2>7, <3>1, <3>2 DEF Waiting
      <4> QED  BY <2>3, <2>4, <2>6, <2>8, <3>2, <4>1
    <3>3. CASE x # n
      <4>1. x \in running[g] /\ JobOf(x)' = JobOf(x) /\ sent'[x] = sent[x] /\ Waiting(JobOf(x))
        BY <2>3, <2>4, <2>6, <3>1, <3>3 DEF Waiting
      <4>2. tracked[g][JobOf(x)] = sent[x] /\ \A y \in running[g] : JobOf(y) = JobOf(x) => y = x
        BY <1>0, <4>1 DEF RunsTracked
      <4>3. JobOf(x) # j
        BY <2>8, <4>1
      <4> QED  BY <2>3, <2>4, <2>6, <2>7, <4>1, <4>2, <4>3
    <3> QED  BY <3>2, <3>3
  <2>10. SendsTracked(g)'
    BY <2>5 DEF SendsTracked
  <2> QED  BY <2>9, <2>10
<1> QED
  BY <1>5, <1>6, <1>7, <1>8, <1>9, <1>10 DEF ReaderStep

LEMMA TrackReceive ==
  ASSUME BaseInv, BaseInv', Next, TrackInv, NEW g \in Gpus, NEW x \in Execs,
         NEW calls \in SUBSET Calls,
         ReceiveError(g, x) \/ EndsInSilence(g, x) \/ ReceiveComplete(g, x, calls)
  PROVE  TrackInv'
<1>0. BaseType /\ Grows /\ RunsTracked(g) /\ SendsTracked(g) /\ ReturnsTracked(g)
  BY Growing, TrackParts DEF BaseInv
<1>1. x \in running[g] /\ x \in Sent /\ UNCHANGED <<reader, queue, sent>>
  BY DEF ReceiveError, EndsInSilence, ReceiveComplete, BaseInv, Existing, RunningExists, queueVars
<1>2. PICK j \in Jobs : j = JobOf(x)
  BY <1>0, <1>1, JobsKept DEF BaseInv
<1>3. \A h \in Gpus : h # g =>
        tracked'[h] = tracked[h] /\ running'[h] = running[h] /\ handler'[h] = handler[h]
  BY <1>0 DEF ReceiveError, EndsInSilence, ReceiveComplete, BaseType
<1>4. SUFFICES RunsTracked(g)' /\ SendsTracked(g)' /\ ReturnsTracked(g)'
  <2>1. ASSUME NEW h \in Gpus, h # g
        PROVE  RunsTracked(h)' /\ SendsTracked(h)' /\ ReturnsTracked(h)'
    BY <1>1, <1>3, <2>1, TrackOthers
  <2> QED  BY <2>1, TrackParts
<1>5. running'[g] = running[g] \ {x}
  BY <1>0 DEF ReceiveError, EndsInSilence, ReceiveComplete, BaseType
<1>6. CASE ReceiveError(g, x)
  <2>1. UNCHANGED tracked /\ handler'[g].pc = "untrack" /\ handler'[g].exec = x
    BY <1>0, <1>6 DEF ReceiveError, BaseType
  <2>2. answered'[j] # "none"
    BY <1>0, <1>2, <1>6 DEF ReceiveError, Publish, BaseType
  <2>3. JobOf(handler[g].exec)' = j
    BY <1>1, <1>2, <2>1 DEF JobOf
  <2>4. ReturnsTracked(g)'
    BY <2>1, <2>2, <2>3 DEF ReturnsTracked, Waiting
  <2>5. reader'[g].pc = "send" => reader[g].pc = "send" /\ reader'[g].entry = reader[g].entry
    BY <1>1
  <2> QED  BY <1>0, <1>5, <2>1, <2>4, <2>5, TrackFrame
<1>7. CASE ReceiveComplete(g, x, calls)
  <2>1. \A i \in Jobs : i # j => tracked'[g][i] = tracked[g][i]
    BY <1>0, <1>2, <1>7 DEF ReceiveComplete, BaseType
  <2>2. Waiting(j)' => Waiting(j)
    BY AnswersStay
  <2>3. Waiting(j) => tracked[g][j] = sent[x] /\ \A y \in running'[g] : JobOf(y) # j
    BY <1>0, <1>1, <1>2, <1>5 DEF RunsTracked
  <2>4. RunsTracked(g)'
    <3>1. \A i \in Jobs : Waiting(i)' => \/ tracked'[g][i] = tracked[g][i]
                                         \/ \A y \in running'[g] : JobOf(y) # i
      BY <2>1, <2>2, <2>3
    <3> QED  BY <1>0, <1>5, <3>1, TrackFrame
  <2>5. SendsTracked(g)'
    <3>1. \A i \in Jobs : Waiting(i)' => \/ tracked'[g][i] = tracked[g][i]
                                         \/ \E y \in running[g] : JobOf(y) = i
      BY <1>1, <1>2, <2>1
    <3>2. reader'[g].pc = "send" => reader[g].pc = "send" /\ reader'[g].entry = reader[g].entry
      BY <1>1
    <3> QED  BY <1>0, <1>5, <3>1, <3>2, TrackFrame
  <2>6. ReturnsTracked(g)'
    <3>1. /\ handler'[g].pc # "untrack" /\ handler'[g].exec = x
          /\ handler'[g].entry = tracked[g][j]
      BY <1>0, <1>2, <1>7 DEF ReceiveComplete, BaseType
    <3>2. JobOf(handler[g].exec)' = j /\ sent'[handler'[g].exec] = sent[x]
      BY <1>1, <1>2, <3>1 DEF JobOf
    <3>3. Waiting(JobOf(handler[g].exec))' => Waiting(j)
      BY <2>2, <3>2 DEF Waiting
    <3> QED  BY <2>3, <3>1, <3>2, <3>3 DEF ReturnsTracked
  <2> QED  BY <2>4, <2>5, <2>6
<1>8. CASE EndsInSilence(g, x)
  <2>1. UNCHANGED <<tracked, handler>> /\ running'[g] \subseteq running[g]
    BY <1>5, <1>8 DEF EndsInSilence
  <2> QED  BY <1>0, <1>1, <2>1, TrackFrame
<1> QED
  BY <1>6, <1>7, <1>8

LEMMA TrackHandler ==
  ASSUME BaseInv, BaseInv', Next, TrackInv, NEW g \in Gpus, HandlerStep(g)
  PROVE  TrackInv'
<1>0. BaseType /\ Grows /\ RunsTracked(g) /\ SendsTracked(g) /\ ReturnsTracked(g)
  BY Growing, TrackParts DEF BaseInv
<1>1. UNCHANGED <<reader, running, sends, sent, queue>>
  BY DEF HandlerStep, UntrackJob, AckJob, StartContinuation, PassThrough, PublishDone,
         DeleteJobContext, SendToolJob, SendToolJobFails, execVars, queueVars
<1>2. ASSUME \A h \in Gpus : h # g => tracked'[h] = tracked[h] /\ handler'[h] = handler[h],
             \A j \in Jobs : Waiting(j)' => tracked'[g][j] = tracked[g][j],
             ReturnsTracked(g)'
      PROVE  TrackInv'
  <2>1. RunsTracked(g)'
    BY <1>0, <1>1, <1>2, TrackFrame
  <2>2. SendsTracked(g)'
    BY <1>0, <1>1, <1>2, TrackFrame
  <2>3. ASSUME NEW h \in Gpus, h # g
        PROVE  RunsTracked(h)' /\ SendsTracked(h)' /\ ReturnsTracked(h)'
    BY <1>1, <1>2, <2>3, TrackOthers
  <2> QED  BY <1>2, <2>1, <2>2, <2>3, TrackParts
<1>3. CASE UntrackJob(g)
  <2>1. PICK x : x = handler[g].exec
    OBVIOUS
  <2>2. x \in Sent
    BY <1>3, <2>1 DEF UntrackJob, BaseInv, Existing, HandlerExists
  <2>3. PICK j \in Jobs : j = JobOf(x)
    BY <1>0, <2>2, JobsKept DEF BaseInv
  <2>4. ~Waiting(j) /\ ~Waiting(j)'
    BY <1>0, <1>3, <2>1, <2>3, AnswersStay DEF UntrackJob, ReturnsTracked
  <2>5. \A h \in Gpus : h # g => tracked'[h] = tracked[h] /\ handler'[h] = handler[h]
    BY <1>0, <1>3, UntrackEffect DEF UntrackJob, BaseType
  <2>6. \A i \in Jobs : i # j => tracked'[g][i] = tracked[g][i]
    BY <1>0, <1>3, <2>1, <2>3 DEF UntrackJob, BaseType
  <2>7. handler'[g].pc = "idle" \/ (handler'[g].pc = "ack" /\ handler'[g].exec = x)
    <3>1. CASE tracked[g][JobOf(handler[g].exec)] = 0
      <4>1. handler'[g] = IdleHandler
        BY <1>0, <1>3, <3>1, UntrackEffect
      <4>2. IdleHandler.pc = "idle"
        BY DEF IdleHandler
      <4>3. handler'[g].pc = "idle"
        BY <4>1, <4>2
      <4> QED  BY <4>3
    <3>2. CASE tracked[g][JobOf(handler[g].exec)] # 0
      BY <1>0, <1>3, <2>1, <3>2, UntrackEffect
    <3> QED  BY <3>1, <3>2
  <2>8. ReturnsTracked(g)'
    <3>1. CASE handler'[g].pc = "idle"
      BY <3>1 DEF ReturnsTracked
    <3>2. CASE handler'[g].pc = "ack" /\ handler'[g].exec = x
      <4>1. JobOf(handler[g].exec)' = j
        BY <1>1, <2>3, <3>2 DEF JobOf
      <4> QED  BY <2>4, <3>2, <4>1 DEF ReturnsTracked, Waiting
    <3> QED  BY <2>7, <3>1, <3>2
  <2> QED  BY <1>2, <2>4, <2>5, <2>6, <2>8
<1>4. ASSUME UNCHANGED tracked, \A h \in Gpus : h # g => handler'[h] = handler[h],
             handler'[g].pc \notin {"untrack", "ack"}
      PROVE  TrackInv'
  BY <1>2, <1>4 DEF ReturnsTracked
<1>5. ASSUME NEW pc \in HandlerPCs, HandlerGoes(g, pc), pc \notin {"untrack", "ack"},
             UNCHANGED tracked
      PROVE  TrackInv'
  BY <1>0, <1>4, <1>5, GoesEffect DEF IdleHandler
<1>6. CASE AckJob(g)
  <2>1. handler[g].next \in HandlerPCs /\ handler[g].next \notin {"untrack", "ack"}
    BY <1>0 DEF BaseType, HandlerPCs
  <2> QED  BY <1>5, <1>6, <2>1 DEF AckJob
<1>7. CASE PassThrough(g) \/ PublishDone(g) \/ DeleteJobContext(g)
  <2>1. HandlerGoes(g, "publish") \/ HandlerGoes(g, "forget") \/ HandlerGoes(g, "idle")
    BY <1>7 DEF PassThrough, PublishDone, DeleteJobContext
  <2>2. UNCHANGED tracked
    BY <1>7 DEF PassThrough, PublishDone, DeleteJobContext
  <2> QED  BY <1>5, <2>1, <2>2 DEF HandlerPCs
<1>8. CASE StartContinuation(g)
  BY <1>0, <1>4, <1>8, SendsEffect DEF StartContinuation
<1>9. ASSUME NEW c \in Calls, SendToolJob(g, c) \/ SendToolJobFails(g, c) PROVE TrackInv'
  <2>1. handler[g].pc = "send" /\ NextCall(g, c) /\ UNCHANGED tracked
    BY <1>9 DEF SendToolJob, SendToolJobFails
  <2> QED  BY <1>0, <1>4, <2>1, NextCallEffect DEF IdleHandler
<1> QED
  BY <1>3, <1>6, <1>7, <1>8, <1>9 DEF HandlerStep

LEMMA TrackStep ==
  ASSUME BaseInv, BaseInv', TrackInv, Next
  PROVE  TrackInv'
<1>1. ASSUME UNCHANGED <<running, tracked, reader>>,
             \A g \in Gpus : /\ handler'[g].pc = handler[g].pc
                             /\ handler'[g].exec = handler[g].exec
                             /\ handler'[g].entry = handler[g].entry
      PROVE  TrackInv'
  <2>1. ASSUME NEW h \in Gpus
        PROVE  RunsTracked(h)' /\ SendsTracked(h)' /\ ReturnsTracked(h)'
    BY <1>1, TrackOthers
  <2> QED  BY <2>1, TrackParts
<1>2. ASSUME NEW j \in Jobs, Submit(j) PROVE TrackInv'
  BY <1>1, <1>2 DEF Submit, execVars
<1>3. ASSUME NEW x \in Execs, NextRound(x) PROVE TrackInv'
  BY <1>1, <1>3 DEF NextRound, UpdateJobContext, Requeue, RequeueFails, execVars
<1>4. ASSUME NEW t \in Tools, ToolsStep(t) PROVE TrackInv'
  <2>1. UNCHANGED <<running, tracked, reader>>
    BY <1>4 DEF ToolsStep, ToolsConnect, ToolsBreak, ToolsCleanup, ToolRecord, ToolResult,
                ToolResultLost, execVars
  <2>2. \A g \in Gpus : /\ handler'[g].pc = handler[g].pc
                        /\ handler'[g].exec = handler[g].exec
                        /\ handler'[g].entry = handler[g].entry
    <3>1. CASE ToolsCleanup(t)
      BY <3>1 DEF ToolsCleanup, BaseInv, BaseType
    <3>2. CASE UNCHANGED handler
      BY <3>2
    <3> QED  BY <1>4, <3>1, <3>2 DEF ToolsStep, ToolsConnect, ToolsBreak, ToolRecord,
                                     ToolResult, ToolResultLost
  <2> QED  BY <1>1, <2>1, <2>2
<1>5. ASSUME NEW g \in Gpus, ReaderStep(g) PROVE TrackInv'
  BY <1>5, TrackReader
<1>6. ASSUME NEW g \in Gpus, HandlerStep(g) PROVE TrackInv'
  BY <1>6, TrackHandler
<1>7. ASSUME NEW g \in Gpus, NEW x \in Execs, NEW calls \in SUBSET Calls,
             ReceiveError(g, x) \/ EndsInSilence(g, x) \/ ReceiveComplete(g, x, calls)
      PROVE  TrackInv'
  BY <1>7, TrackReceive
<1> QED
  BY <1>2, <1>3, <1>4, <1>5, <1>6, <1>7 DEF Next, ToolsStep

-----------------------------------------------------------------------------
(* A caller who waits is not forgotten.                                    *)

QueuedAt(e, j) ==
  /\ e \in 1 .. added /\ queue[e].job = j /\ (e > delivered \/ pel[e] # NoGpu)
  /\ \A x \in Sent : sent[x] # e
CompletesAt(x, g, j) ==
  /\ x \in Sent /\ JobOf(x) = j /\ handler[g].exec = x
  /\ handler[g].pc \in {"start", "publish"} \/ (handler[g].pc = "ack" /\ handler[g].next # "idle")
CallsAt(x, j) == x \in Sent /\ JobOf(x) = j /\ conts[x].phase \in {"open", "save", "enqueue"}

Somewhere(j) ==
  \/ InFlight(j)
  \/ \E e \in 1 .. added : QueuedAt(e, j)
  \/ \E x \in Sent : (\E g \in Gpus : CompletesAt(x, g, j)) \/ CallsAt(x, j)

Placed ==
  \A j \in Jobs : (\E e \in 1 .. added : queue[e].job = j) /\ Waiting(j) => Somewhere(j)

LEMMA SomewhereIs == Placed <=> NoRoundLost
<1>1. ASSUME NEW j
      PROVE  Somewhere(j) <=> InFlight(j) \/ Queued(j) \cup Completing(j) \cup Calling(j) # {}
  <2>1. \A e : e \in Queued(j) <=> QueuedAt(e, j)
    BY DEF Queued, QueuedAt, Sent
  <2>3. \A x : x \in Completing(j) <=> x \in Sent /\ \E g \in Gpus : CompletesAt(x, g, j)
    BY DEF Completing, ExecsOf, CompletesAt, Sent
  <2>4. \A x : x \in Calling(j) <=> x \in Sent /\ CallsAt(x, j)
    BY DEF Calling, ExecsOf, CallsAt, Sent
  <2>5. \A e : QueuedAt(e, j) => e \in 1 .. added
    BY DEF QueuedAt
  <2> QED  BY <2>1, <2>3, <2>4, <2>5 DEF Somewhere
<1> QED
  BY <1>1 DEF Placed, NoRoundLost, Waiting

\* An entry that waits is sent, acknowledged for an answered caller, or waits on.
LEMMA QueuedMoves ==
  ASSUME BaseInv, BaseInv', TrackInv, Next, NEW j \in Jobs, Waiting(j)', NEW e, QueuedAt(e, j)
  PROVE  Somewhere(j)'
<1> USE DEF queueVars, execVars
<1>0. BaseType /\ BaseType' /\ Grows /\ Waiting(j)
  BY Growing, AnswersStay DEF BaseInv
<1>1. /\ e \in Entries /\ e \in 1 .. added /\ e \in 1 .. added' /\ queue[e].job = j
      /\ queue'[e] = queue[e]
  BY <1>0 DEF BaseType, Grows, QueuedAt, Entries
<1>2. ASSUME UNCHANGED <<delivered, sends, sent>>, pel'[e] = NoGpu => pel[e] = NoGpu
      PROVE  Somewhere(j)'
  BY <1>1, <1>2 DEF Somewhere, QueuedAt, Sent
<1>3. ASSUME NEW g \in Gpus, ReaderStep(g) PROVE Somewhere(j)'
  <2>1. CASE ExpireStaleJobs(g)
    <3>1. PICK stale \in SUBSET {i \in SlowJobs : tracked[g][i] # 0} :
            /\ pel' = [d \in Entries |-> IF \E i \in stale : tracked[g][i] = d THEN NoGpu ELSE pel[d]]
            /\ answered' = [i \in Jobs |-> IF i \in stale /\ answered[i] = "none"
                                           THEN "timeout" ELSE answered[i]]
      BY <2>1 DEF ExpireStaleJobs
    <3>2. j \notin stale
      BY <1>0, <3>1 DEF Waiting
    <3>3. \A i \in stale : tracked[g][i] # e
      BY <1>1, <3>2, SlowAssumption DEF BaseInv, Existing, TrackedExists
    <3>4. pel'[e] = pel[e]
      BY <1>1, <3>1, <3>3
    <3> QED  BY <1>2, <2>1, <3>4 DEF ExpireStaleJobs
  <2>2. CASE ReadPending(g) \/ ReadTimeout(g) \/ SaveJobContext(g) \/ AssignJob(g)
    BY <1>2, <2>2 DEF ReadPending, ReadTimeout, SaveJobContext, AssignJob
  <2>3. CASE ReadNew(g)
    <3>1. delivered' = delivered + 1 /\ \A d \in Entries : d # delivered' => pel'[d] = pel[d]
      BY <1>0, <2>3 DEF ReadNew, BaseType
    <3>2. pel'[delivered'] = g
      BY <1>0, <2>3, <3>1 DEF ReadNew, BaseType, Entries
    <3>3. UNCHANGED <<sends, sent>>
      BY <2>3 DEF ReadNew
    <3>4. e > delivered' \/ pel'[e] # NoGpu
      <4>1. CASE e = delivered'
        BY <3>2, <4>1, NamesAssumption
      <4>2. CASE e # delivered'
        <5>1. pel'[e] = pel[e]
          BY <1>1, <3>1, <4>2
        <5>2. e \in Nat /\ delivered \in Nat
          BY <1>0, <1>1 DEF BaseType, Entries
        <5>3. e > delivered => e > delivered'
          BY <3>1, <4>2, <5>2
        <5>4. e > delivered \/ pel[e] # NoGpu
          BY <1>0 DEF QueuedAt
        <5> QED  BY <5>1, <5>3, <5>4
      <4> QED  BY <4>1, <4>2
    <3> QED  BY <1>1, <3>3, <3>4 DEF Somewhere, QueuedAt, Sent
  <2>4. CASE SendJob(g)
    <3>1. PICK n : n = sends + 1
      OBVIOUS
    <3>2. /\ sends' = n /\ n \in Sent' /\ n \in Execs /\ \A x \in Sent' : x \in Sent \/ x = n
          /\ \A x \in Sent : sent'[x] = sent[x]
      <4>1. sends \in Nat /\ sends < MaxSends /\ sends' = n /\ n \in Nat /\ n \in Execs
        BY <1>0, <2>4, <3>1 DEF SendJob, BaseType, Execs
      <4>2. n \in Sent' /\ \A x \in Sent' : x \in Sent \/ x = n
        BY <3>1, <4>1 DEF Sent
      <4>3. Grows
        BY Growing
      <4> QED  BY <4>1, <4>2, <4>3 DEF Grows
    <3>3. sent'[n] = reader[g].entry /\ UNCHANGED <<queue, delivered, pel, tracked>>
      BY <1>0, <2>4, <3>1, <3>2 DEF SendJob, BaseType
    <3>4. CASE reader[g].entry = e
      <4>1. tracked[g][j] = e /\ e # 0
        BY <1>0, <1>1, <2>4, <3>4, TrackParts DEF SendJob, SendsTracked, Entries
      <4> QED  BY <3>3, <4>1 DEF Somewhere, InFlight
    <3>5. CASE reader[g].entry # e
      <4>1. QueuedAt(e, j)'
        BY <1>1, <3>2, <3>3, <3>5 DEF QueuedAt
      <4> QED  BY <1>1, <4>1 DEF Somewhere
    <3> QED  BY <3>4, <3>5
  <2> QED  BY <1>3, <2>1, <2>2, <2>3, <2>4 DEF ReaderStep
<1>4. ASSUME NEW g \in Gpus, HandlerStep(g) PROVE Somewhere(j)'
  <2>1. CASE AckJob(g)
    <3>1. handler[g].exec \in Sent /\ queue[handler[g].entry].job = JobOf(handler[g].exec)
      BY <2>1 DEF AckJob, BaseInv, Existing, HandlerExists
    <3>2. handler[g].entry # e
      <4> SUFFICES ASSUME handler[g].entry = e PROVE FALSE
        OBVIOUS
      <4>1. e = sent[handler[g].exec]
        BY <1>0, <1>1, <2>1, <3>1 DEF TrackInv, AckJob
      <4> QED  BY <3>1, <4>1 DEF QueuedAt
    <3>3. pel'[e] = pel[e]
      BY <1>0, <1>1, <2>1, <3>2 DEF AckJob, BaseType
    <3> QED  BY <1>2, <2>1, <3>3 DEF AckJob
  <2>2. CASE UNCHANGED pel
    <3>1. UNCHANGED <<delivered, sends, sent>>
      BY <1>4 DEF HandlerStep, UntrackJob, AckJob, StartContinuation, PassThrough, PublishDone,
              DeleteJobContext, SendToolJob, SendToolJobFails
    <3> QED  BY <1>2, <2>2, <3>1
  <2> QED  BY <1>4, <2>1, <2>2 DEF HandlerStep, UntrackJob, StartContinuation, PassThrough,
              PublishDone, DeleteJobContext, SendToolJob, SendToolJobFails
<1>5. ASSUME NEW g \in Gpus, NEW x \in Execs, NEW calls \in SUBSET Calls,
             ReceiveError(g, x) \/ EndsInSilence(g, x) \/ ReceiveComplete(g, x, calls)
      PROVE  Somewhere(j)'
  BY <1>2, <1>5 DEF ReceiveError, EndsInSilence, ReceiveComplete
<1>6. ASSUME NEW x \in Execs, NextRound(x) PROVE Somewhere(j)'
  BY <1>2, <1>6 DEF NextRound, UpdateJobContext, Requeue, RequeueFails, AddEntry
<1>7. ASSUME NEW t \in Tools, ToolsStep(t) PROVE Somewhere(j)'
  BY <1>2, <1>7 DEF ToolsStep, ToolsConnect, ToolsBreak, ToolsCleanup, ToolRecord, ToolResult,
                    ToolResultLost
<1>8. ASSUME NEW i \in Jobs, Submit(i) PROVE Somewhere(j)'
  BY <1>2, <1>8 DEF Submit, AddEntry
<1> QED
  BY <1>3, <1>4, <1>5, <1>6, <1>7, <1>8 DEF Next, ToolsStep

\* A job in flight completes, or is taken off the books of an answered caller.
LEMMA InFlightMoves ==
  ASSUME BaseInv, BaseInv', TrackInv, Next, NEW j \in Jobs, Waiting(j)', NEW g \in Gpus,
         tracked[g][j] # 0
  PROVE  Somewhere(j)'
<1>0. BaseType /\ BaseType' /\ Grows /\ Waiting(j)
  BY Growing, AnswersStay DEF BaseInv
<1>1. ASSUME tracked'[g][j] # 0 PROVE Somewhere(j)'
  BY <1>1 DEF Somewhere, InFlight
<1>2. CASE UNCHANGED tracked
  BY <1>1, <1>2
<1>3. ASSUME NEW h \in Gpus, ReaderStep(h) PROVE Somewhere(j)'
  <2>1. CASE ExpireStaleJobs(h)
    <3>1. tracked'[g][j] = tracked[g][j]
      BY <1>0, <2>1 DEF ExpireStaleJobs, BaseType, Waiting
    <3> QED  BY <1>1, <3>1
  <2>2. CASE AssignJob(h)
    <3>1. reader[h].entry \in Readable /\ queue[reader[h].entry].job \in Jobs
      BY <1>0, <2>2 DEF AssignJob, BaseInv, BaseType, Existing, ReaderExists, QueueExists, Readable
    <3>2. reader[h].entry # 0
      BY <1>0, <3>1 DEF BaseType, Readable
    <3>3. tracked'[g][j] # 0
      <4>1. \/ UNCHANGED tracked
            \/ tracked' = [tracked EXCEPT ![h][queue[reader[h].entry].job] = reader[h].entry]
        BY <2>2 DEF AssignJob
      <4>2. PICK i \in Jobs : i = queue[reader[h].entry].job
        BY <3>1
      <4>3. ASSUME tracked' = [tracked EXCEPT ![h][i] = reader[h].entry]
            PROVE  tracked'[g][j] \in {tracked[g][j], reader[h].entry}
        <5>1. CASE h = g /\ i = j
          BY <1>0, <4>3, <5>1 DEF BaseType
        <5>2. CASE h # g \/ i # j
          BY <1>0, <4>3, <5>2 DEF BaseType
        <5> QED  BY <5>1, <5>2
      <4> QED  BY <3>2, <4>1, <4>2, <4>3
    <3> QED  BY <1>1, <3>3
  <2> QED  BY <1>2, <1>3, <2>1, <2>2 DEF ReaderStep, ReadPending, ReadNew, ReadTimeout,
              SaveJobContext, SendJob
<1>4. ASSUME NEW h \in Gpus, NEW y \in Execs, NEW calls \in SUBSET Calls,
             ReceiveError(h, y) \/ EndsInSilence(h, y) \/ ReceiveComplete(h, y, calls)
      PROVE  Somewhere(j)'
  <2>1. CASE ReceiveComplete(h, y, calls) /\ h = g /\ JobOf(y) = j
    <3>1. y \in Sent /\ y \in Sent' /\ JobOf(y)' = j
      BY <1>0, <2>1, JobsKept DEF ReceiveComplete, BaseInv, Existing, RunningExists
    <3>2. /\ handler'[g].exec = y /\ handler'[g].next \in {"publish", "start"}
          /\ handler'[g].pc \in {"publish", "start", "ack"}
      BY <1>0, <2>1 DEF ReceiveComplete, BaseType
    <3>3. CompletesAt(y, g, j)'
      BY <3>1, <3>2 DEF CompletesAt
    <3> QED  BY <3>1, <3>3 DEF Somewhere
  <2>2. CASE ReceiveComplete(h, y, calls) /\ ~(h = g /\ JobOf(y) = j)
    <3>1. tracked'[g][j] = tracked[g][j]
      BY <1>0, <2>2 DEF ReceiveComplete, BaseType
    <3> QED  BY <1>1, <3>1
  <2> QED  BY <1>2, <1>4, <2>1, <2>2 DEF ReceiveError, EndsInSilence
<1>5. ASSUME NEW h \in Gpus, HandlerStep(h) PROVE Somewhere(j)'
  <2>1. CASE UntrackJob(h)
    <3>1. JobOf(handler[h].exec) # j
      BY <1>0, <2>1, TrackParts DEF UntrackJob, ReturnsTracked
    <3>2. tracked'[g][j] = tracked[g][j]
      BY <1>0, <2>1, <3>1 DEF UntrackJob, BaseType
    <3> QED  BY <1>1, <3>2
  <2> QED  BY <1>2, <1>5, <2>1 DEF HandlerStep, AckJob, StartContinuation, PassThrough,
              PublishDone, DeleteJobContext, SendToolJob, SendToolJobFails
<1>6. ASSUME NEW y \in Execs, NextRound(y) PROVE UNCHANGED tracked
  BY <1>6 DEF NextRound, UpdateJobContext, Requeue, RequeueFails
<1>7. ASSUME NEW t \in Tools, ToolsStep(t) PROVE UNCHANGED tracked
  BY <1>7 DEF ToolsStep, ToolsConnect, ToolsBreak, ToolsCleanup, ToolRecord, ToolResult,
              ToolResultLost
<1>8. ASSUME NEW i \in Jobs, Submit(i) PROVE UNCHANGED tracked
  BY <1>8 DEF Submit
<1> QED
  BY <1>2, <1>3, <1>4, <1>5, <1>6, <1>7, <1>8 DEF Next, ToolsStep

\* A completion is published, or its calls go out.
LEMMA CompletingMoves ==
  ASSUME BaseInv, BaseInv', Next, NEW j \in Jobs, Waiting(j)', NEW x, NEW g \in Gpus,
         CompletesAt(x, g, j)
  PROVE  Somewhere(j)'
<1>0. BaseType /\ BaseType' /\ Grows /\ Waiting(j)
  BY Growing, AnswersStay DEF BaseInv
<1>1. /\ x \in Sent /\ x \in Sent' /\ x \in Execs /\ JobOf(x)' = j /\ JobOf(x) = j
      /\ handler[g].exec = x
  BY <1>0, JobsKept DEF CompletesAt
<1>2. ASSUME \/ /\ handler'[g].pc = handler[g].pc /\ handler'[g].exec = handler[g].exec
                /\ handler'[g].next = handler[g].next
             \/ handler'[g].exec = x /\ handler'[g].pc \in {"start", "publish"}
      PROVE  Somewhere(j)'
  <2>1. CompletesAt(x, g, j)'
    BY <1>1, <1>2 DEF CompletesAt
  <2> QED  BY <1>1, <2>1 DEF Somewhere
<1>3. ASSUME NEW h \in Gpus, h # g, HandlerStep(h) PROVE Somewhere(j)'
  <2>1. handler'[g] = handler[g]
    BY <1>0, <1>3, SMTT(30) DEF HandlerStep, UntrackJob, AckJob, StartContinuation, PassThrough, PublishDone,
         DeleteJobContext, SendToolJob, SendToolJobFails, HandlerGoes, NextCall, BaseType
  <2> QED  BY <1>2, <2>1
<1>4. CASE HandlerStep(g)
  <2>1. CASE AckJob(g)
    <3>1. handler[g].next \in {"start", "publish"}
      BY <1>0, <2>1 DEF AckJob, CompletesAt, BaseType
    <3>2. handler'[g].pc \in {"start", "publish"} /\ handler'[g].exec = x
      BY <1>0, <1>1, <2>1, <3>1, GoesEffect DEF AckJob, HandlerPCs
    <3> QED  BY <1>2, <3>2
  <2>2. CASE StartContinuation(g)
    <3>1. conts'[x].phase = "open"
      BY <1>0, <1>1, <2>2 DEF StartContinuation, BaseType
    <3>2. CallsAt(x, j)'
      BY <1>1, <3>1 DEF CallsAt
    <3> QED  BY <1>1, <3>2 DEF Somewhere
  <2>3. CASE PassThrough(g)
    <3>1. handler'[g].pc = "publish" /\ handler'[g].exec = x
      BY <1>0, <1>1, <2>3, GoesEffect DEF PassThrough, HandlerPCs
    <3> QED  BY <1>2, <3>1
  <2>4. CASE PublishDone(g)
    <3>1. answered'[j] # "none"
      BY <1>0, <1>1, <2>4 DEF PublishDone, Publish, BaseType
    <3> QED  BY <3>1 DEF Waiting
  <2> QED  BY <1>4, <2>1, <2>2, <2>3, <2>4 DEF HandlerStep, UntrackJob, DeleteJobContext,
                SendToolJob, SendToolJobFails, CompletesAt
<1>5. ASSUME NEW h \in Gpus, NEW y \in Execs, NEW calls \in SUBSET Calls,
             ReceiveError(h, y) \/ EndsInSilence(h, y) \/ ReceiveComplete(h, y, calls)
      PROVE  Somewhere(j)'
  <2>1. h # g \/ UNCHANGED handler
    BY <1>5 DEF ReceiveError, EndsInSilence, ReceiveComplete, CompletesAt
  <2>2. handler'[g] = handler[g]
    BY <1>0, <1>5, <2>1 DEF ReceiveError, EndsInSilence, ReceiveComplete, BaseType
  <2> QED  BY <1>2, <2>2
<1>6. ASSUME NEW t \in Tools, ToolsStep(t) PROVE Somewhere(j)'
  <2>1. /\ handler'[g].pc = handler[g].pc /\ handler'[g].exec = handler[g].exec
        /\ handler'[g].next = handler[g].next
    <3>1. CASE ToolsCleanup(t)
      BY <1>0, <3>1 DEF ToolsCleanup, BaseType
    <3>2. CASE UNCHANGED handler
      BY <3>2
    <3> QED  BY <1>6, <3>1, <3>2 DEF ToolsStep, ToolsConnect, ToolsBreak, ToolRecord,
                                     ToolResult, ToolResultLost
  <2> QED  BY <1>2, <2>1
<1>7. CASE UNCHANGED handler
  BY <1>2, <1>7
<1>8. ASSUME NEW h \in Gpus, ReaderStep(h) PROVE UNCHANGED handler
  BY <1>8 DEF ReaderStep, ExpireStaleJobs, ReadPending, ReadNew, ReadTimeout,
                  SaveJobContext, AssignJob, SendJob
<1>9. ASSUME NEW y \in Execs, NextRound(y) PROVE UNCHANGED handler
  BY <1>9 DEF NextRound, UpdateJobContext, Requeue, RequeueFails
<1>10. ASSUME NEW i \in Jobs, Submit(i) PROVE UNCHANGED handler
  BY <1>10 DEF Submit
<1> QED
  BY <1>3, <1>4, <1>5, <1>6, <1>7, <1>8, <1>9, <1>10 DEF Next, ToolsStep

\* A round that waits for its results is queued again, or its caller has the error.
LEMMA CallingMoves ==
  ASSUME BaseInv, BaseInv', RoundInv, Next, NEW j \in Jobs, Waiting(j)', NEW x, CallsAt(x, j)
  PROVE  Somewhere(j)'
<1>0. BaseType /\ BaseType' /\ Grows /\ \A y \in Execs : Moves(y)
  BY Growing, RoundMoves DEF BaseInv
<1>1. x \in Sent /\ x \in Sent' /\ x \in Execs /\ JobOf(x)' = j /\ JobOf(x) = j
  BY <1>0, JobsKept DEF CallsAt
<1>2. CASE conts'[x].phase # "over"
  <2>1. CallsAt(x, j)'
    BY <1>0, <1>1, <1>2 DEF CallsAt, Moves
  <2> QED  BY <1>1, <2>1 DEF Somewhere
<1>3. CASE conts'[x].phase = "over"
  <2>1. conts[x].phase = "enqueue"
    BY <1>0, <1>1, <1>3 DEF CallsAt, Moves
  <2>2. Requeue(x) \/ RequeueFails(x)
    <3>1. ASSUME NEW g \in Gpus, HandlerStep(g) PROVE conts'[x] = conts[x]
      <4>1. ASSUME StartContinuation(g) PROVE handler[g].exec # x
        BY <1>1, <2>1, <4>1 DEF StartContinuation, RoundInv, ExecAlone, Early
      <4>2. ASSUME NEW c \in Calls, SendToolJobFails(g, c) PROVE handler[g].exec # x
        BY <1>1, <2>1, <4>2 DEF SendToolJobFails, RoundInv, CallsMissing, OnItsWay, AtHandler,
                                Missing
      <4>3. handler[g].pc # "idle" => handler[g].exec \in Execs
        BY <1>0 DEF BaseInv, BaseType, Existing, HandlerExists
      <4>4. ASSUME StartContinuation(g) PROVE conts'[x] = conts[x]
        BY <1>0, <1>1, <4>1, <4>4 DEF StartContinuation, BaseType
      <4>5. ASSUME NEW c \in Calls, SendToolJobFails(g, c) PROVE conts'[x] = conts[x]
        BY <1>0, <1>1, <4>2, <4>3, <4>5, RecordFrame DEF SendToolJobFails
      <4> QED  BY <3>1, <4>4, <4>5 DEF HandlerStep, UntrackJob, AckJob, PassThrough, PublishDone,
                                       DeleteJobContext, SendToolJob, contVars
    <3>2. ASSUME NEW t \in Tools, ToolsStep(t) PROVE conts'[x] = conts[x]
      <4>1. CASE ToolRecord(t)
        <5>1. toolLoop[t].exec \in Execs /\ toolLoop[t].call \in Calls
          BY <1>0, <4>1 DEF ToolRecord, BaseInv, Existing, LoopExists, BaseType
        <5>2. toolLoop[t].exec # x
          BY <1>1, <2>1, <5>1 DEF RoundInv, CallsMissing, OnItsWay, AtLoop, Missing
        <5> QED  BY <1>0, <1>1, <4>1, <5>1, <5>2, RecordFrame DEF ToolRecord
      <4>2. CASE UNCHANGED conts
        BY <4>2
      <4> QED  BY <3>2, <4>1, <4>2 DEF ToolsStep, ToolsConnect, ToolsBreak, ToolsCleanup,
                                       ToolResult, ToolResultLost, contVars
    <3>3. ASSUME NEW g \in Gpus, ReaderStep(g) PROVE conts'[x] = conts[x]
      BY <3>3 DEF ReaderStep, ExpireStaleJobs, ReadPending, ReadNew, ReadTimeout, SaveJobContext,
                  AssignJob, SendJob, contVars
    <3>4. ASSUME NEW g \in Gpus, NEW y \in Execs, NEW calls \in SUBSET Calls,
                 ReceiveError(g, y) \/ EndsInSilence(g, y) \/ ReceiveComplete(g, y, calls)
          PROVE  conts'[x] = conts[x]
      BY <3>4 DEF ReceiveError, EndsInSilence, ReceiveComplete, contVars
    <3>5. ASSUME NEW i \in Jobs, Submit(i) PROVE conts'[x] = conts[x]
      BY <3>5 DEF Submit, contVars
    <3>6. ASSUME NEW y \in Execs, NextRound(y) PROVE Requeue(x) \/ RequeueFails(x)
      BY <1>0, <1>1, <1>3, <2>1, <3>6 DEF NextRound, UpdateJobContext, Requeue, RequeueFails,
                                          BaseType
    <3> QED  BY <1>3, <2>1, <3>1, <3>2, <3>3, <3>4, <3>5, <3>6 DEF Next, ToolsStep
  <2>3. CASE RequeueFails(x)
    <3>1. answered'[j] # "none"
      BY <1>0, <1>1, <2>3 DEF RequeueFails, Publish, BaseType
    <3> QED  BY <3>1 DEF Waiting
  <2>4. CASE Requeue(x)
    <3>1. /\ added' = added + 1 /\ queue'[added'].job = j
          /\ UNCHANGED <<delivered, sends, sent>>
      BY <1>0, <1>1, <2>4 DEF Requeue, AddEntry, BaseType, Entries, execVars
    <3>2. \A y \in Sent : sent[y] # added'
      BY <1>0, <3>1 DEF BaseInv, Existing, SentExists, Readable, BaseType
    <3>3. QueuedAt(added, j)'
      BY <1>0, <3>1, <3>2 DEF QueuedAt, Sent, BaseType
    <3> QED  BY <1>0, <3>1, <3>3 DEF Somewhere, QueuedAt
  <2> QED  BY <2>2, <2>3, <2>4
<1> QED
  BY <1>2, <1>3

\* A new job is in the queue.
LEMMA SubmittedIs ==
  ASSUME BaseInv, NEW j \in Jobs, Submit(j)
  PROVE  Somewhere(j)'
<1>1. /\ added' = added + 1 /\ added' \in 1 .. added' /\ queue'[added'].job = j
      /\ added' > delivered' /\ UNCHANGED <<sends, sent>>
  BY DEF Submit, AddEntry, BaseInv, BaseType, Entries, execVars
<1>2. \A y \in Sent : sent[y] # added'
  BY <1>1 DEF BaseInv, Existing, SentExists, Readable, BaseType
<1>3. QueuedAt(added, j)'
  BY <1>1, <1>2 DEF QueuedAt, Sent
<1> QED
  BY <1>1, <1>3 DEF Somewhere

LEMMA PlacedKept ==
  ASSUME BaseInv, BaseInv', RoundInv, TrackInv, Placed, Next
  PROVE  Placed'
<1>1. ASSUME NEW j \in Jobs, NEW e \in 1 .. added', queue'[e].job = j, Waiting(j)'
      PROVE  Somewhere(j)'
  <2>0. Grows /\ BaseType /\ BaseType'
    BY Growing DEF BaseInv
  <2>1. ASSUME Somewhere(j) PROVE Somewhere(j)'
    BY <1>1, <2>1, QueuedMoves, InFlightMoves, CompletingMoves, CallingMoves
       DEF Somewhere, InFlight
  <2>2. ASSUME NEW d \in 1 .. added, queue[d].job = j PROVE Somewhere(j)
    <3>1. Waiting(j)
      BY <1>1, AnswersStay
    <3> QED  BY <2>2, <3>1 DEF Placed
  <2>3. CASE e \in 1 .. added
    <3>1. queue[e].job = j
      BY <1>1, <2>0, <2>3 DEF Grows
    <3> QED  BY <2>1, <2>2, <2>3, <3>1
  <2>4. CASE e \notin 1 .. added
    <3>1. ASSUME NEW x \in Execs, Requeue(x), added' = added + 1, queue'[added'].job = JobOf(x)
          PROVE  Somewhere(j)'
      <4>1. e = added' /\ JobOf(x) = j
        BY <1>1, <2>0, <2>4, <3>1 DEF BaseType
      <4>2. x \in Sent /\ conts[x].phase = "enqueue"
        BY <3>1 DEF Requeue, BaseInv, Existing, ContsExist
      <4>3. CallsAt(x, j)
        BY <4>1, <4>2 DEF CallsAt
      <4> QED  BY <1>1, <4>3, CallingMoves
    <3>2. ASSUME NEW i \in Jobs, Submit(i), added' = added + 1, queue'[added'].job = i
          PROVE  Somewhere(j)'
      <4>1. added \in Nat /\ e \in Int
        BY <2>0, <1>1 DEF BaseType, Entries
      <4>2. e = added'
        BY <1>1, <2>4, <3>2, <4>1
      <4>3. i = j
        BY <1>1, <3>2, <4>2
      <4> QED  BY <3>2, <4>3, SubmittedIs
    <3> QED  BY <2>4, <3>1, <3>2, NewEntries
  <2> QED  BY <2>3, <2>4
<1> QED
  BY <1>1 DEF Placed

\* A caller who has no answer yet has his job in the stream, in flight at a
\* worker the router watches, at the completion handler or between two rounds,
\* whatever breaks and in whatever order, an execution that ends without a word
\* included: what stops being tracked has been answered or handed on.
THEOREM CallersKeepTheirJob == Spec => []NoRoundLost
<1>1. Init => TrackInv /\ Placed
  <2> SUFFICES ASSUME Init PROVE TrackInv /\ Placed
    OBVIOUS
  <2>1. added = 0 /\ Sent = {}
    BY DEF Init, Sent
  <2>2. Placed
    BY <2>1 DEF Placed
  <2>3. ASSUME NEW g \in Gpus PROVE RunsTracked(g) /\ SendsTracked(g) /\ ReturnsTracked(g)
    BY DEF Init, RunsTracked, SendsTracked, ReturnsTracked, IdleHandler
  <2> QED  BY <2>2, <2>3 DEF TrackInv, RunsTracked, SendsTracked, ReturnsTracked
<1>2. BaseInv /\ BaseInv' /\ RoundInv /\ TrackInv /\ Placed /\ [Next]_vars
        => TrackInv' /\ Placed'
  <2>1. CASE UNCHANGED vars
    BY <2>1 DEF vars, queueVars, execVars, contVars, TrackInv, RunsTracked, SendsTracked,
                ReturnsTracked, Placed, Waiting, Somewhere, InFlight, QueuedAt, CompletesAt,
                CallsAt, Sent, JobOf
  <2> QED  BY <2>1, TrackStep, PlacedKept
<1>3. Placed <=> NoRoundLost
  BY SomewhereIs
<1> QED
  BY <1>1, <1>2, <1>3, RoundsKept, PTL DEF Spec
=============================================================================
