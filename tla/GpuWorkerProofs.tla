---------------------------- MODULE GpuWorkerProofs ----------------------------
(* Proofs about the GPU worker process: the executions it can stop, the text and *)
(* the calls an execution tells, the inference server it keeps, and the files it *)
(* fetches before it serves.                                                     *)
EXTENDS WorkerProcess, LlamaServer, Executor, Downloads, SubsequenceProofs, SequenceTheorems, FiniteSetTheorems, TLAPS

-----------------------------------------------------------------------------
(* Executions.                                                               *)

ExecRecords ==
  [job : Jobs, stage : {"spawned", "running", "over"}, cancelled : BOOLEAN,
   asks : {"no", "sent", "answered"}, late : BOOLEAN, shared : BOOLEAN]

\* Two executions of a job that run beside each other know of each other; one
\* that runs alone has the entry of its job, and none but a late one survives a
\* broken link uncancelled.
ExecutionInv ==
  /\ execs \in Seq(ExecRecords)
  /\ activeJobs \in [Jobs -> 0 .. Len(execs)] /\ signalled \in BOOLEAN
  /\ RunningIsCancellable
  /\ \A e, f \in 1 .. Len(execs) :
       e # f /\ Running(e) /\ Running(f) /\ execs[e].job = execs[f].job => execs[e].shared

LEMMA ExecFacts ==
  ASSUME ExecutionInv
  PROVE  Len(execs) \in Nat /\ \A e \in 1 .. Len(execs) : execs[e] \in ExecRecords /\ execs[e].job \in Jobs
<1>1. Len(execs) \in Nat /\ \A e \in 1 .. Len(execs) : execs[e] \in ExecRecords
  BY ElementOfSeq, LenProperties DEF ExecutionInv
<1> QED
  BY <1>1 DEF ExecRecords

\* A step after which the executions that run ran before, and the ones that can
\* still be stopped could.
LEMMA ExecFrame ==
  ASSUME ExecutionInv, execs' \in Seq(ExecRecords), Len(execs') = Len(execs),
         activeJobs' \in [Jobs -> 0 .. Len(execs)], signalled' \in BOOLEAN,
         \A e \in 1 .. Len(execs) :
           /\ execs'[e].job = execs[e].job
           /\ execs'[e].stage = "running" => execs[e].stage = "running"
           /\ execs[e].shared => execs'[e].shared
           /\ execs'[e].stage = "running" /\ ~ execs'[e].cancelled /\ ~ execs'[e].shared =>
                /\ ~ execs[e].cancelled /\ execs'[e].late = execs[e].late
                /\ activeJobs'[execs[e].job] = activeJobs[execs[e].job]
                /\ main' \in {"backoff", "redialing"} => main \in {"backoff", "redialing"}
  PROVE  ExecutionInv'
<1>1. RunningIsCancellable'
  BY DEF ExecutionInv, RunningIsCancellable, Running
<1>2. \A e, f \in 1 .. Len(execs') :
        e # f /\ Running(e)' /\ Running(f)' /\ execs'[e].job = execs'[f].job => execs'[e].shared
  BY DEF ExecutionInv, Running
<1> QED
  BY <1>1, <1>2 DEF ExecutionInv

\* A step of one execution's record.
LEMMA ExecChanges ==
  ASSUME ExecutionInv, NEW e \in 1 .. Len(execs), NEW r \in ExecRecords,
         execs' = [execs EXCEPT ![e] = r]
  PROVE  /\ execs' \in Seq(ExecRecords) /\ Len(execs') = Len(execs) /\ execs'[e] = r
         /\ \A f \in 1 .. Len(execs) : f # e => execs'[f] = execs[f]
<1>1. execs \in Seq(ExecRecords)
  BY DEF ExecutionInv
<1>2. /\ [execs EXCEPT ![e] = r] \in Seq(ExecRecords) /\ Len([execs EXCEPT ![e] = r]) = Len(execs)
      /\ \A f \in 1 .. Len(execs) : [execs EXCEPT ![e] = r][f] = IF f = e THEN r ELSE execs[f]
  BY <1>1, ExceptSeq
<1> QED
  BY <1>2

LEMMA AsksBecomes ==
  ASSUME NEW w \in ExecRecords, NEW asks \in {"no", "sent", "answered"}
  PROVE  /\ [w EXCEPT !.asks = asks] \in ExecRecords
         /\ [w EXCEPT !.asks = asks].job = w.job /\ [w EXCEPT !.asks = asks].stage = w.stage
         /\ [w EXCEPT !.asks = asks].cancelled = w.cancelled /\ [w EXCEPT !.asks = asks].late = w.late
         /\ [w EXCEPT !.asks = asks].shared = w.shared
BY DEF ExecRecords

LEMMA CancelledBecomes ==
  ASSUME NEW w \in ExecRecords, NEW b \in BOOLEAN
  PROVE  /\ [w EXCEPT !.cancelled = b] \in ExecRecords
         /\ [w EXCEPT !.cancelled = b].job = w.job /\ [w EXCEPT !.cancelled = b].stage = w.stage
         /\ [w EXCEPT !.cancelled = b].cancelled = b /\ [w EXCEPT !.cancelled = b].late = w.late
         /\ [w EXCEPT !.cancelled = b].shared = w.shared
BY DEF ExecRecords

LEMMA SharedBecomes ==
  ASSUME NEW w \in ExecRecords, NEW b \in BOOLEAN
  PROVE  /\ [w EXCEPT !.shared = b] \in ExecRecords
         /\ [w EXCEPT !.shared = b].job = w.job /\ [w EXCEPT !.shared = b].stage = w.stage
         /\ [w EXCEPT !.shared = b].cancelled = w.cancelled /\ [w EXCEPT !.shared = b].late = w.late
         /\ [w EXCEPT !.shared = b].shared = b
BY DEF ExecRecords

\* What the other jobs' executions and entries see of it.
LEMMA ExecOne ==
  ASSUME ExecutionInv, NEW e \in 1 .. Len(execs), NEW r \in ExecRecords,
         execs' = [execs EXCEPT ![e] = r], r.job = execs[e].job, r.late = execs[e].late,
         execs[e].shared => r.shared, r.stage = "running" => Running(e),
         execs[e].cancelled => r.cancelled,
         UNCHANGED <<main, activeJobs>>, signalled' \in BOOLEAN
  PROVE  ExecutionInv'
<1>1. /\ execs' \in Seq(ExecRecords) /\ Len(execs') = Len(execs) /\ execs'[e] = r
      /\ \A f \in 1 .. Len(execs) : f # e => execs'[f] = execs[f]
  BY ExecChanges
<1> QED
  BY <1>1, ExecFrame DEF ExecutionInv, Running

LEMMA ExecutionInvKept ==
  ASSUME ExecutionInv, [WorkerNext]_workervars
  PROVE  ExecutionInv'
<1>0. /\ Len(execs) \in Nat /\ execs \in Seq(ExecRecords) /\ activeJobs \in [Jobs -> 0 .. Len(execs)]
      /\ \A e \in 1 .. Len(execs) : execs[e] \in ExecRecords /\ execs[e].job \in Jobs
  BY ExecFacts DEF ExecutionInv
<1>10. signalled' \in BOOLEAN
  BY DEF ExecutionInv, WorkerNext, FetchPolicy, WaitForRouter, ConnectFirst, Reconnect, BackoffEnds, Signal,
         CloseOnSignal, LinkBreaks, Disconnected, Parked, ReadJob, ReadCancel, StartExecution, EndExecution,
         SendToolCallRequest, ToolCallReturns, ReadToolCallResult, workervars
<1>1. CASE /\ UNCHANGED <<execs, activeJobs>>
           /\ main' \in {"backoff", "redialing"} => main \in {"backoff", "redialing"}
  BY <1>0, <1>1, <1>10, ExecFrame
<1>2. CASE FetchPolicy \/ WaitForRouter \/ ConnectFirst \/ Reconnect \/ BackoffEnds \/ CloseOnSignal
           \/ LinkBreaks \/ Parked \/ UNCHANGED workervars
  BY <1>1, <1>2 DEF FetchPolicy, WaitForRouter, ConnectFirst, Reconnect, BackoffEnds, CloseOnSignal,
                    LinkBreaks, Parked, ConnectPermanent, workervars
<1>3. CASE Signal
  <2>1. /\ execs' = [e \in 1 .. Len(execs) |->
                      [execs[e] EXCEPT !.cancelled = execs[e].cancelled \/ execs[e].stage = "running"]]
        /\ UNCHANGED <<main, activeJobs>>
    BY <1>3 DEF Signal
  <2>2. ASSUME NEW e \in 1 .. Len(execs)
        PROVE  /\ execs'[e] \in ExecRecords /\ execs'[e].job = execs[e].job /\ execs'[e].stage = execs[e].stage
               /\ execs'[e].shared = execs[e].shared /\ execs'[e].late = execs[e].late
               /\ execs'[e].cancelled <=> (execs[e].cancelled \/ execs[e].stage = "running")
    <3>1. PICK b \in BOOLEAN : b = (execs[e].cancelled \/ execs[e].stage = "running")
      OBVIOUS
    <3>2. execs'[e] = [execs[e] EXCEPT !.cancelled = b]
      BY <2>1, <3>1
    <3> QED  BY <1>0, <3>1, <3>2, CancelledBecomes, ZenonT(60)
  <2>3. execs' \in Seq(ExecRecords) /\ Len(execs') = Len(execs)
    BY <1>0, <2>1, <2>2, IsASeq
  <2> QED  BY <1>0, <2>1, <2>2, <2>3, <1>10, ExecFrame, ZenonT(60)
<1>4. CASE Disconnected
  <2>1. /\ execs' = [e \in 1 .. Len(execs) |->
                      [execs[e] EXCEPT !.cancelled = execs[e].cancelled \/ \E j \in Jobs : activeJobs[j] = e]]
        /\ activeJobs' = activeJobs
    BY <1>4 DEF Disconnected
  <2>2. ASSUME NEW e \in 1 .. Len(execs)
        PROVE  /\ execs'[e] \in ExecRecords /\ execs'[e].job = execs[e].job /\ execs'[e].stage = execs[e].stage
               /\ execs'[e].shared = execs[e].shared /\ execs'[e].late = execs[e].late
               /\ execs'[e].cancelled <=> (execs[e].cancelled \/ \E j \in Jobs : activeJobs[j] = e)
    <3>1. PICK b \in BOOLEAN : b = (execs[e].cancelled \/ \E j \in Jobs : activeJobs[j] = e)
      OBVIOUS
    <3>2. execs'[e] = [execs[e] EXCEPT !.cancelled = b]
      BY <2>1, <3>1
    <3> QED  BY <1>0, <3>1, <3>2, CancelledBecomes, ZenonT(60)
  <2>3. execs' \in Seq(ExecRecords) /\ Len(execs') = Len(execs)
    BY <1>0, <2>1, <2>2, IsASeq
  <2>4. ASSUME NEW e \in 1 .. Len(execs), execs'[e].stage = "running", ~ execs'[e].cancelled
        PROVE  execs[e].shared
    BY <1>0, <2>2, <2>4 DEF ExecutionInv, RunningIsCancellable, Running
  <2>5. \A e \in 1 .. Len(execs) :
          execs'[e].stage = "running" /\ ~ execs'[e].cancelled => execs[e].shared /\ execs'[e].shared
    BY <2>2, <2>4
  <2>6. /\ activeJobs' \in [Jobs -> 0 .. Len(execs)]
        /\ \A e \in 1 .. Len(execs) : /\ execs'[e].job = execs[e].job /\ execs'[e].stage = execs[e].stage
                                      /\ execs'[e].shared = execs[e].shared
    BY <1>0, <2>1, <2>2
  <2> QED  BY <2>3, <2>5, <2>6, <1>10, ExecFrame
<1>5. ASSUME NEW j \in Jobs, ReadJob(j) PROVE ExecutionInv'
  <2>1. PICK r : r = [job |-> j, stage |-> "spawned", cancelled |-> FALSE, asks |-> "no", late |-> FALSE,
                      shared |-> FALSE]
    OBVIOUS
  <2>2. r \in ExecRecords /\ r.stage = "spawned"
    BY <2>1 DEF ExecRecords
  <2>3. execs' = Append(execs, r) /\ UNCHANGED <<main, activeJobs>>
    BY <1>5, <2>1 DEF ReadJob
  <2>4. /\ execs' \in Seq(ExecRecords) /\ Len(execs') = Len(execs) + 1 /\ execs'[Len(execs) + 1] = r
        /\ \A e \in 1 .. Len(execs) : execs'[e] = execs[e]
    BY <1>0, <2>2, <2>3, AppendProperties
  <2>5. \A e \in 1 .. Len(execs') : Running(e)' => e \in 1 .. Len(execs) /\ execs'[e] = execs[e] /\ Running(e)
    BY <1>0, <2>2, <2>4 DEF Running
  <2>6. activeJobs' \in [Jobs -> 0 .. Len(execs')]
    BY <1>0, <2>3, <2>4 DEF ExecutionInv
  <2>7. RunningIsCancellable'
    BY <1>0, <2>3, <2>5 DEF ExecutionInv, RunningIsCancellable
  <2>8. \A e, f \in 1 .. Len(execs') :
          e # f /\ Running(e)' /\ Running(f)' /\ execs'[e].job = execs'[f].job => execs'[e].shared
    BY <2>5 DEF ExecutionInv
  <2> QED  BY <2>4, <2>6, <2>7, <2>8, <1>10 DEF ExecutionInv
<1>6. ASSUME NEW j \in Jobs, ReadCancel(j) PROVE ExecutionInv'
  <2>3. activeJobs[j] \in 1 .. Len(execs)
    BY <1>0, <1>6 DEF ReadCancel
  <2>1. execs' = [execs EXCEPT ![activeJobs[j]] = [execs[activeJobs[j]] EXCEPT !.cancelled = TRUE]]
        /\ UNCHANGED <<main, activeJobs>>
    BY <1>6 DEF ReadCancel
  <2>2. PICK r : r = [execs[activeJobs[j]] EXCEPT !.cancelled = TRUE]
    OBVIOUS
  <2> QED  BY <1>0, <2>1, <2>2, <2>3, CancelledBecomes, <1>10, ExecOne DEF Running
<1>7. ASSUME NEW e \in 1 .. Len(execs),
             SendToolCallRequest(e) \/ ToolCallReturns(e) \/ ReadToolCallResult(e)
      PROVE  ExecutionInv'
  <2>1. PICK asks \in {"no", "sent", "answered"} : execs' = [execs EXCEPT ![e] = [execs[e] EXCEPT !.asks = asks]]
    BY <1>7 DEF SendToolCallRequest, ToolCallReturns, ReadToolCallResult
  <2>2. PICK r : r = [execs[e] EXCEPT !.asks = asks]
    OBVIOUS
  <2>3. UNCHANGED <<main, activeJobs>>
    BY <1>7 DEF SendToolCallRequest, ToolCallReturns, ReadToolCallResult
  <2> QED  BY <1>0, <2>1, <2>2, <2>3, AsksBecomes, <1>10, ExecOne, ZenonT(60) DEF Running
<1>8. ASSUME NEW e \in 1 .. Len(execs), StartExecution(e) PROVE ExecutionInv'
  <2>1. /\ execs' = [f \in 1 .. Len(execs) |->
                      IF f = e THEN [execs[e] EXCEPT !.stage = "running", !.cancelled = signalled,
                                                     !.late = main # "reading", !.shared = Rivals(e) # {}]
                      ELSE [execs[f] EXCEPT !.shared = execs[f].shared \/ f \in Rivals(e)]]
        /\ activeJobs' = [activeJobs EXCEPT ![execs[e].job] = e]
        /\ main' = main /\ execs[e].stage = "spawned" /\ main \in Loop
    BY <1>8 DEF StartExecution
  <2>2. ASSUME NEW f \in 1 .. Len(execs), f # e
        PROVE  /\ execs'[f] \in ExecRecords /\ execs'[f].job = execs[f].job /\ execs'[f].stage = execs[f].stage
               /\ execs'[f].cancelled = execs[f].cancelled /\ execs'[f].late = execs[f].late
               /\ execs'[f].shared <=> (execs[f].shared \/ f \in Rivals(e))
    <3>1. PICK b \in BOOLEAN : b = (execs[f].shared \/ f \in Rivals(e))
      OBVIOUS
    <3>2. execs'[f] = [execs[f] EXCEPT !.shared = b]
      BY <2>1, <2>2, <3>1
    <3> QED  BY <1>0, <3>1, <3>2, SharedBecomes, ZenonT(60)
  <2>3. /\ execs'[e] \in ExecRecords /\ execs'[e].job = execs[e].job /\ execs'[e].stage = "running"
        /\ (execs'[e].late <=> main # "reading") /\ (execs'[e].shared <=> Rivals(e) # {})
    <3>1. PICK late \in BOOLEAN, shared \in BOOLEAN : late = (main # "reading") /\ shared = (Rivals(e) # {})
      OBVIOUS
    <3>2. execs'[e] = [execs[e] EXCEPT !.stage = "running", !.cancelled = signalled, !.late = late, !.shared = shared]
      BY <2>1, <3>1
    <3>3. signalled \in BOOLEAN
      BY DEF ExecutionInv
    <3> QED  BY <1>0, <3>1, <3>2, <3>3 DEF ExecRecords
  <2>4. execs' \in Seq(ExecRecords) /\ Len(execs') = Len(execs)
    <3>1. execs' \in [1 .. Len(execs) -> ExecRecords]
      BY <2>1, <2>2, <2>3
    <3> QED  BY <1>0, <3>1, SeqDef
  <2>5. \A f \in 1 .. Len(execs) : f \in Rivals(e) <=> f # e /\ execs[f].job = execs[e].job /\ Running(f)
    BY DEF Rivals
  <2>6. ~ Running(e)
    BY <2>1 DEF Running
  <2>7. /\ activeJobs' \in [Jobs -> 0 .. Len(execs)] /\ activeJobs'[execs[e].job] = e
        /\ \A j \in Jobs : j # execs[e].job => activeJobs'[j] = activeJobs[j]
    <3>1. e \in 0 .. Len(execs) /\ execs[e].job \in Jobs /\ activeJobs \in [Jobs -> 0 .. Len(execs)]
      BY <1>0
    <3> QED  BY <2>1, <3>1
  <2>8. RunningIsCancellable'
    <3>1. SUFFICES ASSUME NEW f \in 1 .. Len(execs), execs'[f].stage = "running", ~ execs'[f].cancelled,
                          ~ execs'[f].shared
                   PROVE  /\ activeJobs'[execs'[f].job] = f
                          /\ main' \in {"backoff", "redialing"} => execs'[f].late
      BY <2>4 DEF RunningIsCancellable, Running
    <3>2. CASE f = e
      BY <2>1, <2>3, <2>7, <3>1, <3>2
    <3>3. CASE f # e
      <4>1. Running(f) /\ ~ execs[f].cancelled /\ ~ execs[f].shared /\ f \notin Rivals(e)
        BY <2>2, <3>1, <3>3 DEF Running
      <4>2. execs[f].job # execs[e].job
        BY <2>5, <3>3, <4>1
      <4>3. /\ activeJobs[execs[f].job] = f
            /\ main \in {"backoff", "redialing"} => execs[f].late
        BY <4>1 DEF ExecutionInv, RunningIsCancellable
      <4>4. activeJobs'[execs[f].job] = activeJobs[execs[f].job]
        BY <1>0, <2>7, <4>2
      <4>5. execs'[f].job = execs[f].job /\ execs'[f].late = execs[f].late
        BY <2>2, <3>3
      <4>6. activeJobs'[execs'[f].job] = f
        BY <4>3, <4>4, <4>5
      <4>7. ASSUME main' \in {"backoff", "redialing"} PROVE execs'[f].late
        BY <2>1, <4>3, <4>5, <4>7
      <4> QED  BY <4>6, <4>7
    <3> QED  BY <3>2, <3>3
  <2>9. \A f, g \in 1 .. Len(execs) :
          f # g /\ Running(f)' /\ Running(g)' /\ execs'[f].job = execs'[g].job => execs'[f].shared
    BY <2>2, <2>3, <2>5 DEF ExecutionInv, Running
  <2> QED  BY <2>4, <2>7, <2>8, <2>9, <1>10 DEF ExecutionInv
<1>9. ASSUME NEW e \in 1 .. Len(execs), EndExecution(e) PROVE ExecutionInv'
  <2>1. PICK v : v = [execs[e] EXCEPT !.stage = "over"]
    OBVIOUS
  <2>2. PICK r : r = [v EXCEPT !.asks = "no"]
    OBVIOUS
  <2>3. v \in ExecRecords /\ v.job = execs[e].job /\ v.stage = "over"
    BY <1>0, <2>1 DEF ExecRecords
  <2>4. r \in ExecRecords /\ r.job = execs[e].job /\ r.stage = "over"
    BY <2>2, <2>3, AsksBecomes
  <2>5. execs' = [execs EXCEPT ![e] = r] /\ main' = main /\ Running(e)
    <3>1. execs' = [[execs EXCEPT ![e] = v] EXCEPT ![e] = [[execs EXCEPT ![e] = v][e] EXCEPT !.asks = "no"]]
      BY <1>9, <2>1 DEF EndExecution
    <3>2. [execs EXCEPT ![e] = v][e] = v
      BY <1>0
    <3> QED  BY <1>9, <2>2, <3>1, <3>2 DEF EndExecution
  <2>6. /\ execs' \in Seq(ExecRecords) /\ Len(execs') = Len(execs) /\ execs'[e] = r
        /\ \A f \in 1 .. Len(execs) : f # e => execs'[f] = execs[f]
    BY <2>4, <2>5, ExecChanges
  <2>7. activeJobs' = [activeJobs EXCEPT ![execs[e].job] = 0]
    BY <1>9 DEF EndExecution
  <2>8. activeJobs' \in [Jobs -> 0 .. Len(execs)]
    <3>1. 0 \in 0 .. Len(execs)
      BY <1>0
    <3> QED  BY <1>0, <2>7, <3>1
  <2>9. ASSUME NEW f \in 1 .. Len(execs), execs'[f].stage = "running", ~ execs'[f].shared
        PROVE  f # e /\ execs[f].job # execs[e].job
    BY <2>4, <2>5, <2>6, <2>9 DEF ExecutionInv, Running
  <2>10. ASSUME NEW f \in 1 .. Len(execs), execs'[f].stage = "running", ~ execs'[f].shared
         PROVE  /\ execs'[f] = execs[f] /\ activeJobs'[execs[f].job] = activeJobs[execs[f].job]
    BY <1>0, <2>6, <2>7, <2>9, <2>10
  <2>11. \A f \in 1 .. Len(execs) :
           /\ execs'[f].job = execs[f].job /\ (execs'[f].stage = "running" => execs[f].stage = "running")
           /\ execs[f].shared => execs'[f].shared
    BY <1>0, <2>1, <2>2, <2>4, <2>5, <2>6 DEF ExecRecords, Running
  <2> QED  BY <2>5, <2>6, <2>8, <2>10, <2>11, <1>10, ExecFrame
<1> QED
  BY <1>2, <1>3, <1>4, <1>5, <1>6, <1>7, <1>8, <1>9 DEF WorkerNext

LEMMA ExecutionInvStarts == WorkerInit => ExecutionInv
<1> SUFFICES ASSUME WorkerInit PROVE ExecutionInv
  OBVIOUS
<1>1. execs = <<>> /\ Len(execs) = 0 /\ activeJobs = [j \in Jobs |-> 0] /\ ~ signalled /\ signalled \in BOOLEAN
  BY DEF WorkerInit
<1> QED
  BY <1>1 DEF ExecutionInv, RunningIsCancellable

\* Every execution that runs can be stopped, by a cancel message or by the broken
\* link, unless it shares its job's entry or stored it after the link broke.
THEOREM ExecutionsCanBeStopped == WorkerSpec => []RunningIsCancellable
<1>1. ExecutionInv => RunningIsCancellable
  BY DEF ExecutionInv
<1> QED
  BY ExecutionInvStarts, <1>1, ExecutionInvKept, PTL DEF WorkerSpec

-----------------------------------------------------------------------------
(* The inference server.                                                     *)

ObjectRecords == [running : BOOLEAN, hook : BOOLEAN, slots : 1 .. MaxSlots]
ServerRecords == [obj : Nat, life : {"loading", "ready", "killed", "gone"}]
MonitorStates == {"waits", "sleeps", "restarts", "over"}
ServerTyped ==
  /\ objects \in Seq(ObjectRecords) /\ servers \in Seq(ServerRecords) /\ monitors \in Seq(MonitorStates)
  /\ Len(monitors) = Len(servers) /\ slots \in 1 .. MaxSlots /\ unheard \in BOOLEAN
  /\ updater \in [Updates -> {"idle", "queued", "stopped", "waiting", "over"}]
  /\ \A s \in 1 .. Len(servers) : servers[s].obj \in 1 .. llama
  /\ starter # "dialing" => llama > 0

Stopped == \E u \in Updates : updater[u] = "stopped"
\* The newest object has no server, or its server is on its way out.
Between == starter \in {"dialing", "repatching", "exited"} \/ Stopped
\* A monitor waits for the process of the newest object.
Watched(s) == servers[s].obj = llama /\ monitors[s] = "waits"
NoneServes == \A s \in 1 .. Len(servers) : ~ Serving(s)

ServingIsWatched ==
  \A s \in 1 .. Len(servers) : Serving(s) => Watched(s) /\ objects[llama].running
OneIsWatched ==
  llama > 0 /\ objects[llama].running =>
    \E s \in 1 .. Len(servers) : Watched(s) /\ \A t \in 1 .. Len(servers) : Watched(t) => t = s
DownIsSeen ==
  ~ Between /\ ~ objects[llama].running => \A s \in 1 .. Len(servers) : ~ Watched(s)
QuietBetween ==
  starter \in {"dialing", "repatching"} \/ Stopped \/ (starter = "exited" /\ ~ swapped) => NoneServes
BeforeServing ==
  starter \notin {"serving", "exited"} =>
    /\ llamaMu = "free" /\ \A u \in Updates : updater[u] = "idle"
    /\ \A o \in 1 .. llama : ~ objects[o].hook
    /\ \A s \in 1 .. Len(servers) : monitors[s] \in {"waits", "over"}
OneRestarts ==
  /\ \A u \in Updates : updater[u] \in {"stopped", "waiting"} =>
       /\ llamaMu = "update"
       /\ \A v \in Updates : updater[v] \in {"stopped", "waiting"} => u = v
  /\ \A s \in 1 .. Len(servers) : monitors[s] = "restarts" =>
       /\ llamaMu = "crash"
       /\ \A t \in 1 .. Len(servers) : monitors[t] = "restarts" => s = t
KilledIsReplaced ==
  \A s \in 1 .. Len(servers) : servers[s].life = "killed" /\ servers[s].obj = llama => Between
CrashIsHeard ==
  starter = "serving" /\ (\A u \in Updates : updater[u] \notin {"stopped", "waiting"}) =>
    objects[llama].hook \/ unheard
DownIsKnown ==
  ~ Between /\ (\A u \in Updates : updater[u] # "waiting") =>
    objects[llama].running \/ unheard \/ \E s \in 1 .. Len(servers) : monitors[s] = "sleeps"

\* The process that serves is the one the newest object's monitor waits for; a
\* server is started only when none serves, under the lock once jobs are taken.
OneServerInv ==
  /\ ServerTyped /\ ServingIsWatched /\ OneIsWatched /\ DownIsSeen /\ QuietBetween
  /\ BeforeServing /\ OneRestarts /\ KilledIsReplaced /\ CrashIsHeard /\ DownIsKnown

LEMMA ServerFacts ==
  ASSUME ServerTyped
  PROVE  /\ llama \in Nat /\ Len(servers) \in Nat /\ Len(monitors) = Len(servers)
         /\ \A o \in 1 .. llama : objects[o] \in ObjectRecords
         /\ \A s \in 1 .. Len(servers) :
              /\ servers[s] \in ServerRecords /\ servers[s].obj \in 1 .. llama /\ monitors[s] \in MonitorStates
<1>1. /\ llama \in Nat /\ Len(servers) \in Nat /\ Len(monitors) = Len(servers)
  BY LenProperties DEF ServerTyped, llama
<1>2. \A o \in 1 .. llama : objects[o] \in ObjectRecords
  BY ElementOfSeq DEF ServerTyped, llama
<1>3. \A s \in 1 .. Len(servers) : servers[s] \in ServerRecords
  BY ElementOfSeq DEF ServerTyped
<1>4. \A s \in 1 .. Len(monitors) : monitors[s] \in MonitorStates
  BY ElementOfSeq DEF ServerTyped
<1> QED
  BY <1>1, <1>2, <1>3, <1>4 DEF ServerTyped

LEMMA RunningBecomes ==
  ASSUME NEW w \in ObjectRecords, NEW b \in BOOLEAN
  PROVE  /\ [w EXCEPT !.running = b] \in ObjectRecords /\ [w EXCEPT !.running = b].running = b
         /\ [w EXCEPT !.running = b].hook = w.hook
BY DEF ObjectRecords

LEMMA HookBecomes ==
  ASSUME NEW w \in ObjectRecords
  PROVE  /\ [w EXCEPT !.hook = TRUE] \in ObjectRecords /\ [w EXCEPT !.hook = TRUE].hook
         /\ [w EXCEPT !.hook = TRUE].running = w.running
BY DEF ObjectRecords

LEMMA LifeBecomes ==
  ASSUME NEW w \in ServerRecords, NEW life \in {"loading", "ready", "killed", "gone"}
  PROVE  /\ [w EXCEPT !.life = life] \in ServerRecords /\ [w EXCEPT !.life = life].life = life
         /\ [w EXCEPT !.life = life].obj = w.obj
BY DEF ServerRecords

\* Stop on the newest object: it does not run, and nothing serves.
LEMMA StopEffect ==
  ASSUME OneServerInv, llama > 0, StopServer(llama)
  PROVE  /\ objects' \in Seq(ObjectRecords) /\ Len(objects') = llama
         /\ ~ objects'[llama].running
         /\ \A o \in 1 .. llama : objects'[o].hook = objects[o].hook
         /\ servers' \in Seq(ServerRecords) /\ Len(servers') = Len(servers)
         /\ \A s \in 1 .. Len(servers) :
              servers'[s].obj = servers[s].obj /\ servers'[s].life \notin {"loading", "ready"}
<1>0. /\ llama \in Nat /\ Len(servers) \in Nat /\ llama \in 1 .. llama
      /\ \A o \in 1 .. llama : objects[o] \in ObjectRecords
      /\ \A s \in 1 .. Len(servers) : servers[s] \in ServerRecords
      /\ objects \in Seq(ObjectRecords) /\ servers \in Seq(ServerRecords)
  BY ServerFacts DEF OneServerInv, ServerTyped
<1>1. PICK r \in ObjectRecords : r = [objects[llama] EXCEPT !.running = FALSE]
  BY <1>0, RunningBecomes
<1>2. objects' = [objects EXCEPT ![llama] = r]
  BY <1>1 DEF StopServer
<1>3. /\ objects' \in Seq(ObjectRecords) /\ Len(objects') = llama
      /\ \A o \in 1 .. llama : objects'[o] = IF o = llama THEN r ELSE objects[o]
  <2>1. llama \in 1 .. Len(objects)
    BY <1>0 DEF llama
  <2> QED  BY <1>0, <1>2, <2>1, ExceptSeq DEF llama
<1>4. ~ r.running /\ r.hook = objects[llama].hook
  BY <1>0, <1>1, RunningBecomes
<1>5. CASE NoneServes
  <2>1. servers' = servers
    BY <1>5 DEF StopServer, NoneServes, ServersOf
  <2> QED  BY <1>0, <1>3, <1>4, <1>5, <2>1 DEF NoneServes, Serving
<1>6. CASE ~ NoneServes
  <2>1. PICK life \in {"gone", "killed"} :
          servers' = [s \in 1 .. Len(servers) |-> IF s \in ServersOf(llama) /\ Serving(s)
                                                  THEN [servers[s] EXCEPT !.life = life] ELSE servers[s]]
    BY <1>6 DEF StopServer, NoneServes, ServersOf, OneServerInv, ServingIsWatched, Watched
  <2>2. ASSUME NEW s \in 1 .. Len(servers)
        PROVE  /\ servers'[s] \in ServerRecords /\ servers'[s].obj = servers[s].obj
               /\ servers'[s].life \notin {"loading", "ready"}
    <3>1. CASE Serving(s)
      <4>1. servers'[s] = [servers[s] EXCEPT !.life = life]
        BY <2>1, <3>1 DEF ServersOf, OneServerInv, ServingIsWatched, Watched
      <4>2. life \in {"loading", "ready", "killed", "gone"} /\ life \notin {"loading", "ready"}
        BY <2>1
      <4>3. servers[s] \in ServerRecords
        BY <1>0
      <4>4. /\ [servers[s] EXCEPT !.life = life] \in ServerRecords
            /\ [servers[s] EXCEPT !.life = life].obj = servers[s].obj
            /\ [servers[s] EXCEPT !.life = life].life = life
        BY <4>2, <4>3, LifeBecomes
      <4> QED  BY <4>1, <4>2, <4>4
    <3>2. CASE ~ Serving(s)
      <4>1. servers'[s] = servers[s]
        BY <2>1, <3>2
      <4> QED  BY <1>0, <3>2, <4>1 DEF Serving
    <3> QED  BY <3>1, <3>2
  <2>3. servers' \in [1 .. Len(servers) -> ServerRecords]
    BY <2>1, <2>2
  <2>4. servers' \in Seq(ServerRecords) /\ Len(servers') = Len(servers)
    BY <1>0, <2>3, SeqDef
  <2> QED  BY <1>0, <1>3, <1>4, <2>2, <2>4
<1> QED
  BY <1>5, <1>6

\* A new object, without a server.
LEMMA NewEffect ==
  ASSUME ServerTyped, NEW objs, objs = NewObject(FALSE)
  PROVE  /\ objs \in Seq(ObjectRecords) /\ Len(objs) = llama + 1
         /\ ~ objs[llama + 1].running /\ ~ objs[llama + 1].hook
         /\ \A o \in 1 .. llama : objs[o] = objects[o]
<1>1. PICK r \in ObjectRecords : ~ r.running /\ ~ r.hook /\ r = [running |-> FALSE, hook |-> FALSE, slots |-> slots]
  BY DEF ServerTyped, ObjectRecords
<1>2. objs = Append(objects, r)
  BY <1>1 DEF NewObject
<1>3. /\ objs \in Seq(ObjectRecords) /\ Len(objs) = llama + 1 /\ objs[llama + 1] = r
      /\ \A o \in 1 .. llama : objs[o] = objects[o]
  <2>1. objects \in Seq(ObjectRecords)
    BY DEF ServerTyped
  <2>2. Len(Append(objects, r)) = Len(objects) + 1 /\ Append(objects, r) \in Seq(ObjectRecords)
    BY <2>1, AppendProperties
  <2>3. /\ \A o \in 1 .. Len(objects) : Append(objects, r)[o] = objects[o]
        /\ Append(objects, r)[Len(objects) + 1] = r
    BY <2>1, AppendProperties
  <2> QED  BY <1>2, <2>2, <2>3 DEF llama
<1> QED
  BY <1>1, <1>3

\* A new object, with its first server.
LEMMA SpawnEffect ==
  ASSUME ServerTyped, Spawn(llama + 1, NewObject(FALSE))
  PROVE  /\ objects' \in Seq(ObjectRecords) /\ Len(objects') = llama + 1
         /\ objects'[llama + 1].running /\ ~ objects'[llama + 1].hook
         /\ \A o \in 1 .. llama : objects'[o] = objects[o]
         /\ servers' \in Seq(ServerRecords) /\ Len(servers') = Len(servers) + 1
         /\ servers'[Len(servers) + 1] = [obj |-> llama + 1, life |-> "loading"]
         /\ \A s \in 1 .. Len(servers) : servers'[s] = servers[s]
         /\ monitors' \in Seq(MonitorStates) /\ Len(monitors') = Len(servers) + 1
         /\ monitors'[Len(servers) + 1] = "waits"
         /\ \A s \in 1 .. Len(servers) : monitors'[s] = monitors[s]
<1>0. llama \in Nat /\ Len(servers) \in Nat /\ Len(monitors) = Len(servers)
  BY ServerFacts
<1>1. PICK objs : objs = NewObject(FALSE)
  OBVIOUS
<1>2. /\ objs \in Seq(ObjectRecords) /\ Len(objs) = llama + 1
      /\ ~ objs[llama + 1].running /\ ~ objs[llama + 1].hook
      /\ \A o \in 1 .. llama : objs[o] = objects[o]
  BY <1>1, NewEffect
<1>3. objs[llama + 1] \in ObjectRecords
  BY <1>0, <1>2, ElementOfSeq
<1>4. PICK r \in ObjectRecords : r = [objs[llama + 1] EXCEPT !.running = TRUE]
  BY <1>3, RunningBecomes
<1>5. objects' = [objs EXCEPT ![llama + 1] = r]
  BY <1>1, <1>4 DEF Spawn
<1>6. /\ objects' \in Seq(ObjectRecords) /\ Len(objects') = llama + 1
      /\ \A o \in 1 .. llama + 1 : objects'[o] = IF o = llama + 1 THEN r ELSE objs[o]
  <2>1. llama + 1 \in 1 .. Len(objs)
    BY <1>0, <1>2
  <2> QED  BY <1>2, <1>5, <2>1, ExceptSeq
<1>7. r.running /\ ~ r.hook
  BY <1>2, <1>3, <1>4, RunningBecomes
<1>8. PICK w : w = [obj |-> llama + 1, life |-> "loading"] /\ w \in ServerRecords
  <2>1. llama + 1 \in Nat
    BY <1>0
  <2>2. [obj |-> llama + 1, life |-> "loading"] \in ServerRecords
    BY <2>1 DEF ServerRecords
  <2> QED  BY <2>2
<1>9. /\ servers' \in Seq(ServerRecords) /\ Len(servers') = Len(servers) + 1
      /\ servers'[Len(servers) + 1] = w /\ \A s \in 1 .. Len(servers) : servers'[s] = servers[s]
  <2>1. servers' = Append(servers, w)
    BY <1>8 DEF Spawn
  <2>2. servers \in Seq(ServerRecords) /\ w \in ServerRecords
    BY <1>8 DEF ServerTyped
  <2> QED  BY <2>1, <2>2, AppendProperties
<1>10. /\ monitors' \in Seq(MonitorStates) /\ Len(monitors') = Len(servers) + 1
       /\ monitors'[Len(servers) + 1] = "waits" /\ \A s \in 1 .. Len(servers) : monitors'[s] = monitors[s]
  <2>1. "waits" \in MonitorStates /\ monitors' = Append(monitors, "waits")
    BY DEF Spawn, MonitorStates
  <2> QED  BY <1>0, <2>1, AppendProperties DEF ServerTyped
<1> QED
  BY <1>0, <1>2, <1>6, <1>7, <1>8, <1>9, <1>10

\* A step that stops the newest object's server, with the object to be replaced.
LEMMA StopKeeps ==
  ASSUME OneServerInv, llama > 0, StopServer(llama), UNCHANGED <<monitors, unheard>>,
         slots' \in 1 .. MaxSlots, updater' \in [Updates -> {"idle", "queued", "stopped", "waiting", "over"}],
         Between', OneRestarts',
         starter' \notin {"serving", "exited"} =>
           starter \notin {"serving", "exited"} /\ UNCHANGED <<updater, llamaMu>>
  PROVE  OneServerInv'
<1>1. /\ objects' \in Seq(ObjectRecords) /\ Len(objects') = llama
      /\ ~ objects'[llama].running
      /\ \A o \in 1 .. llama : objects'[o].hook = objects[o].hook
      /\ servers' \in Seq(ServerRecords) /\ Len(servers') = Len(servers)
      /\ \A s \in 1 .. Len(servers) :
           servers'[s].obj = servers[s].obj /\ servers'[s].life \notin {"loading", "ready"}
  BY StopEffect
<1>2. llama' = llama /\ llama \in Nat /\ Len(servers) \in Nat
  BY <1>1, ServerFacts DEF llama, OneServerInv
<1>3. ServerTyped'
  BY <1>1, <1>2 DEF ServerTyped, OneServerInv
<1>4. NoneServes'
  BY <1>1 DEF NoneServes, Serving
<1>5. ServingIsWatched' /\ QuietBetween'
  BY <1>4 DEF NoneServes, ServingIsWatched, QuietBetween
<1>6. OneIsWatched'
  BY <1>1, <1>2 DEF OneIsWatched
<1>7. DownIsSeen' /\ KilledIsReplaced' /\ DownIsKnown'
  BY DEF DownIsSeen, KilledIsReplaced, DownIsKnown
<1>8. BeforeServing'
  BY <1>1, <1>2 DEF OneServerInv, BeforeServing
<1>9. CrashIsHeard'
  BY DEF CrashIsHeard, Between, Stopped
<1> QED
  BY <1>3, <1>5, <1>6, <1>7, <1>8, <1>9 DEF OneServerInv

\* A step that starts the first server of a new object when nothing serves.
LEMMA SpawnKeeps ==
  ASSUME OneServerInv, NoneServes, Spawn(llama + 1, NewObject(FALSE)), unheard' = unheard,
         slots' \in 1 .. MaxSlots, updater' \in [Updates -> {"idle", "queued", "stopped", "waiting", "over"}],
         llamaMu' = llamaMu, starter' \notin {"dialing", "repatching", "exited"}, ~ Stopped',
         \A u \in Updates : updater'[u] \in {"stopped", "waiting"} <=> updater[u] \in {"stopped", "waiting"},
         starter' = "serving" => \E u \in Updates : updater'[u] \in {"stopped", "waiting"},
         starter' \notin {"serving", "exited"} =>
           starter \notin {"serving", "exited"} /\ UNCHANGED <<updater, llamaMu>>
  PROVE  OneServerInv'
<1>1. /\ objects' \in Seq(ObjectRecords) /\ Len(objects') = llama + 1
      /\ objects'[llama + 1].running /\ ~ objects'[llama + 1].hook
      /\ \A o \in 1 .. llama : objects'[o] = objects[o]
      /\ servers' \in Seq(ServerRecords) /\ Len(servers') = Len(servers) + 1
      /\ servers'[Len(servers) + 1].obj = llama + 1 /\ servers'[Len(servers) + 1].life = "loading"
      /\ \A s \in 1 .. Len(servers) : servers'[s] = servers[s]
      /\ monitors' \in Seq(MonitorStates) /\ Len(monitors') = Len(servers) + 1
      /\ monitors'[Len(servers) + 1] = "waits"
      /\ \A s \in 1 .. Len(servers) : monitors'[s] = monitors[s]
  <2>1. ServerTyped
    BY DEF OneServerInv
  <2>2. PICK w : w = [obj |-> llama + 1, life |-> "loading"]
    OBVIOUS
  <2>3. w.obj = llama + 1 /\ w.life = "loading"
    BY <2>2
  <2> QED  BY <2>1, <2>2, <2>3, SpawnEffect
<1>2. /\ llama' = llama + 1 /\ llama \in Nat /\ Len(servers) \in Nat
      /\ \A s \in 1 .. Len(servers) : servers[s].obj \in 1 .. llama
      /\ 1 .. Len(servers') = 1 .. Len(servers) \cup {Len(servers) + 1}
      /\ 1 .. llama' = 1 .. llama \cup {llama + 1}
  BY <1>1, ServerFacts DEF llama, OneServerInv
<1>3. ServerTyped'
  <2>1. \A s \in 1 .. Len(servers') : servers'[s].obj \in 1 .. llama'
    BY <1>1, <1>2
  <2> QED  BY <1>1, <1>2, <2>1 DEF ServerTyped, OneServerInv
<1>4. \A s \in 1 .. Len(servers) : ~ Serving(s)' /\ ~ Watched(s)'
  BY <1>1, <1>2 DEF NoneServes, Serving, Watched
<1>5. PICK n \in Nat : n = Len(servers) + 1
  BY <1>2
<1>11. Watched(n)' /\ objects'[llama'].running
  BY <1>1, <1>2, <1>5 DEF Watched
<1>6. ServingIsWatched' /\ OneIsWatched'
  BY <1>2, <1>4, <1>5, <1>11 DEF ServingIsWatched, OneIsWatched
<1>7. DownIsSeen' /\ DownIsKnown' /\ QuietBetween' /\ CrashIsHeard'
  BY <1>11 DEF DownIsSeen, DownIsKnown, QuietBetween, CrashIsHeard
<1>8. KilledIsReplaced'
  BY <1>1, <1>2 DEF KilledIsReplaced
<1>9. BeforeServing'
  BY <1>1, <1>2 DEF OneServerInv, BeforeServing
<1>10. OneRestarts'
  <2>1. \A s \in 1 .. Len(servers') : monitors'[s] = "restarts" => s \in 1 .. Len(servers) /\ monitors[s] = "restarts"
    BY <1>1, <1>2
  <2> QED  BY <2>1 DEF OneServerInv, OneRestarts
<1> QED
  BY <1>3, <1>6, <1>7, <1>8, <1>9, <1>10 DEF OneServerInv

\* A step that makes a new object whose server does not start.
LEMMA NewKeeps ==
  ASSUME OneServerInv, NoneServes, objects' = NewObject(FALSE), UNCHANGED <<servers, monitors>>,
         unheard' \in BOOLEAN, slots' \in 1 .. MaxSlots,
         updater' \in [Updates -> {"idle", "queued", "stopped", "waiting", "over"}],
         starter' \in {"dialing", "exited"} \/ unheard', OneRestarts',
         starter' \notin {"serving", "exited"} =>
           starter \notin {"serving", "exited"} /\ UNCHANGED <<updater, llamaMu>>
  PROVE  OneServerInv'
<1>1. /\ objects' \in Seq(ObjectRecords) /\ Len(objects') = llama + 1
      /\ ~ objects'[llama + 1].running /\ ~ objects'[llama + 1].hook
      /\ \A o \in 1 .. llama : objects'[o] = objects[o]
  BY NewEffect DEF OneServerInv
<1>2. /\ llama' = llama + 1 /\ llama \in Nat /\ Len(servers) \in Nat
      /\ \A s \in 1 .. Len(servers) : servers[s].obj \in 1 .. llama
      /\ 1 .. llama' = 1 .. llama \cup {llama + 1}
  <2>1. /\ llama \in Nat /\ Len(servers) \in Nat
        /\ \A s \in 1 .. Len(servers) : servers[s].obj \in 1 .. llama
    BY ServerFacts DEF OneServerInv
  <2>2. llama' = llama + 1
    BY <1>1 DEF llama
  <2>3. 1 .. llama + 1 = 1 .. llama \cup {llama + 1}
    BY <2>1
  <2> QED  BY <2>1, <2>2, <2>3
<1>3. ServerTyped'
  <2>1. \A s \in 1 .. Len(servers) : servers[s].obj \in 1 .. llama'
    BY <1>2
  <2>2. starter' # "dialing" => llama' > 0
    BY <1>2
  <2> QED  BY <1>1, <2>1, <2>2 DEF ServerTyped, OneServerInv
<1>4. \A s \in 1 .. Len(servers) : ~ Serving(s)' /\ ~ Watched(s)' /\ servers[s].obj # llama'
  BY <1>2 DEF NoneServes, Serving, Watched
<1>5. ServingIsWatched' /\ DownIsSeen' /\ QuietBetween' /\ KilledIsReplaced'
  BY <1>4 DEF ServingIsWatched, DownIsSeen, QuietBetween, KilledIsReplaced, NoneServes
<1>6. OneIsWatched'
  BY <1>1, <1>2 DEF OneIsWatched
<1>7. DownIsKnown' /\ CrashIsHeard'
  BY DEF DownIsKnown, CrashIsHeard, Between
<1>8. BeforeServing'
  BY <1>1, <1>2 DEF OneServerInv, BeforeServing
<1> QED
  BY <1>3, <1>5, <1>6, <1>7, <1>8 DEF OneServerInv

\* A step after which the same monitors wait for the same servers.
LEMMA SameServers ==
  ASSUME OneServerInv, servers' = servers, slots' = slots, unheard' \in BOOLEAN,
         objects' \in Seq(ObjectRecords), Len(objects') = llama,
         \A o \in 1 .. llama : objects'[o].running <=> objects[o].running,
         monitors' \in Seq(MonitorStates), Len(monitors') = Len(servers),
         \A s \in 1 .. Len(servers) : monitors'[s] = "waits" <=> monitors[s] = "waits",
         updater' \in [Updates -> {"idle", "queued", "stopped", "waiting", "over"}],
         starter' # "dialing" => llama > 0, Between => Between',
         starter' \in {"dialing", "repatching"} \/ Stopped' \/ (starter' = "exited" /\ ~ swapped') =>
           starter \in {"dialing", "repatching"} \/ Stopped \/ (starter = "exited" /\ ~ swapped),
         BeforeServing', OneRestarts', CrashIsHeard', DownIsKnown'
  PROVE  OneServerInv'
<1>1. llama' = llama /\ llama \in Nat /\ Len(servers) \in Nat
  BY ServerFacts DEF llama, OneServerInv
<1>2. ServerTyped'
  BY <1>1 DEF ServerTyped, OneServerInv
<1>3. \A s \in 1 .. Len(servers) : (Serving(s)' <=> Serving(s)) /\ (Watched(s)' <=> Watched(s))
  BY <1>1 DEF Serving, Watched
<1>4. (\E s \in 1 .. Len(servers) : Watched(s)) => llama \in 1 .. llama
  BY ServerFacts DEF Watched, OneServerInv
<1>5. llama > 0 => llama \in 1 .. llama
  BY <1>1
<1>6. ServingIsWatched'
  BY <1>1, <1>3, <1>4 DEF ServingIsWatched, OneServerInv
<1>7. OneIsWatched'
  BY <1>1, <1>3, <1>5 DEF OneIsWatched, OneServerInv
<1>8. DownIsSeen'
  BY <1>1, <1>3, <1>4 DEF DownIsSeen, OneServerInv
<1>9. QuietBetween'
  BY <1>3 DEF QuietBetween, NoneServes, OneServerInv
<1>10. KilledIsReplaced'
  BY <1>1 DEF KilledIsReplaced, OneServerInv
<1> QED
  BY <1>2, <1>6, <1>7, <1>8, <1>9, <1>10 DEF OneServerInv

\* The field of one object, and the place of one monitor.
LEMMA ObjectChanges ==
  ASSUME ServerTyped, NEW o \in 1 .. llama, NEW r \in ObjectRecords, objects' = [objects EXCEPT ![o] = r]
  PROVE  /\ objects' \in Seq(ObjectRecords) /\ Len(objects') = llama
         /\ \A q \in 1 .. llama : objects'[q] = IF q = o THEN r ELSE objects[q]
<1>1. objects \in Seq(ObjectRecords) /\ o \in 1 .. Len(objects)
  BY DEF ServerTyped, llama
<1> QED
  BY <1>1, ExceptSeq DEF llama

LEMMA MonitorChanges ==
  ASSUME ServerTyped, NEW s \in 1 .. Len(servers), NEW m \in MonitorStates
  PROVE  /\ [monitors EXCEPT ![s] = m] \in Seq(MonitorStates)
         /\ Len([monitors EXCEPT ![s] = m]) = Len(servers)
         /\ \A t \in 1 .. Len(servers) : [monitors EXCEPT ![s] = m][t] = IF t = s THEN m ELSE monitors[t]
<1>1. monitors \in Seq(MonitorStates) /\ s \in 1 .. Len(monitors) /\ Len(monitors) = Len(servers)
  BY DEF ServerTyped
<1> QED
  BY <1>1, ExceptSeq

\* A server gets ready, or dies.
LEMMA LifeKeeps ==
  ASSUME OneServerInv, NEW s \in 1 .. Len(servers), NEW life \in {"ready", "gone"},
         life = "ready" => Serving(s), servers' = [servers EXCEPT ![s].life = life],
         UNCHANGED <<objects, monitors, starter, slots, updater, llamaMu, swapped, unheard>>
  PROVE  OneServerInv'
<1>0. /\ servers \in Seq(ServerRecords) /\ Len(servers) \in Nat
      /\ \A t \in 1 .. Len(servers) : servers[t] \in ServerRecords
  BY ServerFacts DEF OneServerInv, ServerTyped
<1>1. /\ [servers[s] EXCEPT !.life = life] \in ServerRecords
      /\ [servers[s] EXCEPT !.life = life].obj = servers[s].obj
      /\ [servers[s] EXCEPT !.life = life].life = life
  <2>1. servers[s] \in ServerRecords /\ life \in {"loading", "ready", "killed", "gone"}
    BY <1>0
  <2> QED  BY <2>1, LifeBecomes
<1>2. PICK r \in ServerRecords : /\ r = [servers[s] EXCEPT !.life = life]
                                 /\ r.obj = servers[s].obj /\ r.life = life
  BY <1>1
<1>3. servers' = [servers EXCEPT ![s] = r]
  BY <1>2
<1>4. /\ servers' \in Seq(ServerRecords) /\ Len(servers') = Len(servers)
      /\ \A t \in 1 .. Len(servers) : servers'[t] = IF t = s THEN r ELSE servers[t]
  BY <1>0, <1>3, ExceptSeq
<1>5. /\ llama' = llama
      /\ \A t \in 1 .. Len(servers) :
           /\ servers'[t].obj = servers[t].obj /\ (Serving(t)' => Serving(t))
           /\ Watched(t)' <=> Watched(t)
           /\ servers'[t].life = "killed" => servers[t].life = "killed"
  BY <1>2, <1>4 DEF llama, Serving, Watched
<1>6. ServerTyped'
  BY <1>4, <1>5 DEF ServerTyped, OneServerInv
<1>7. ServingIsWatched' /\ OneIsWatched' /\ QuietBetween'
  BY <1>4, <1>5 DEF ServingIsWatched, OneIsWatched, QuietBetween, NoneServes, Stopped, OneServerInv
<1>8. DownIsSeen' /\ KilledIsReplaced'
  BY <1>4, <1>5 DEF DownIsSeen, KilledIsReplaced, Between, Stopped, OneServerInv
<1>9. BeforeServing' /\ OneRestarts'
  BY <1>4, <1>5 DEF BeforeServing, OneRestarts, OneServerInv
<1>10. CrashIsHeard' /\ DownIsKnown'
  BY <1>4, <1>5 DEF CrashIsHeard, DownIsKnown, Between, Stopped, OneServerInv
<1> QED
  BY <1>6, <1>7, <1>8, <1>9, <1>10 DEF OneServerInv

\* A monitor sees its process gone.
LEMMA WakeKeeps ==
  ASSUME OneServerInv, NEW s \in 1 .. Len(servers), MonitorWakes(s)
  PROVE  OneServerInv'
<1>0. /\ llama \in Nat /\ Len(servers) \in Nat /\ Len(monitors) = Len(servers)
      /\ \A o \in 1 .. llama : objects[o] \in ObjectRecords
      /\ \A t \in 1 .. Len(servers) : servers[t].obj \in 1 .. llama
      /\ ServerTyped
  BY ServerFacts DEF OneServerInv
<1>1. PICK o \in 1 .. llama : o = servers[s].obj
  BY <1>0
<1>2. /\ monitors[s] = "waits" /\ servers[s].life = "gone" /\ starter # "exited"
      /\ UNCHANGED <<servers, starter, slots, updater, llamaMu, swapped>>
  BY DEF MonitorWakes
<1>3. PICK m \in MonitorStates : /\ m = IF objects[o].running /\ objects[o].hook THEN "sleeps" ELSE "over"
                                 /\ m \in {"sleeps", "over"}
  BY DEF MonitorStates
<1>4. monitors' = [monitors EXCEPT ![s] = m]
  BY <1>1, <1>3 DEF MonitorWakes
<1>5. /\ monitors' \in Seq(MonitorStates) /\ Len(monitors') = Len(servers)
      /\ \A t \in 1 .. Len(servers) : monitors'[t] = IF t = s THEN m ELSE monitors[t]
  BY <1>0, <1>4, MonitorChanges
<1>6. PICK r \in ObjectRecords : /\ r = [objects[o] EXCEPT !.running = FALSE]
                                 /\ ~ r.running /\ r.hook = objects[o].hook
  BY <1>0, RunningBecomes
<1>7. /\ objects' \in Seq(ObjectRecords) /\ Len(objects') = llama
      /\ \A q \in 1 .. llama : objects'[q] = IF q = o THEN r ELSE objects[q]
  <2>1. objects' = [objects EXCEPT ![o] = r]
    BY <1>1, <1>6 DEF MonitorWakes
  <2> QED  BY <1>0, <2>1, ObjectChanges
<1>8. /\ unheard' \in BOOLEAN
      /\ unheard' <=> (unheard \/ (objects[o].running /\ ~ objects[o].hook /\ TooEarly))
  BY <1>1 DEF MonitorWakes
<1>9. llama' = llama /\ Len(servers') = Len(servers)
  BY <1>2, <1>7 DEF llama
<1>10. ServerTyped'
  BY <1>2, <1>5, <1>7, <1>8, <1>9 DEF ServerTyped, OneServerInv
<1>11. \A t \in 1 .. Len(servers) :
         (Serving(t)' <=> Serving(t)) /\ (Watched(t)' <=> Watched(t) /\ t # s)
  BY <1>2, <1>3, <1>5, <1>9 DEF Serving, Watched
<1>12. ~ Serving(s)
  BY <1>2 DEF Serving
<1>13. BeforeServing'
  <2>1. SUFFICES ASSUME starter \notin {"serving", "exited"} PROVE ~ objects[o].hook /\ m # "sleeps"
    BY <1>2, <1>3, <1>5, <1>6, <1>7, <1>9 DEF BeforeServing, OneServerInv
  <2> QED  BY <1>3, <2>1 DEF BeforeServing, OneServerInv
<1>14. OneRestarts'
  BY <1>2, <1>3, <1>5 DEF OneRestarts, OneServerInv
\* The newest object is hit only if its server is the one that is gone.
<1>15. CASE o # llama
  <2>1. llama > 0 => llama \in 1 .. llama
    BY <1>0
  <2>2. llama > 0
    BY <1>0
  <2>3. objects'[llama] = objects[llama] /\ ~ Watched(s)
    BY <1>1, <1>7, <1>15, <2>1, <2>2 DEF Watched
  <2>4. ServingIsWatched' /\ OneIsWatched'
    BY <1>2, <1>9, <1>11, <2>3 DEF ServingIsWatched, OneIsWatched, OneServerInv
  <2>5. DownIsSeen' /\ QuietBetween' /\ KilledIsReplaced'
    BY <1>2, <1>9, <1>11, <2>3 DEF DownIsSeen, QuietBetween, NoneServes, KilledIsReplaced, Between, Stopped, OneServerInv
  <2>6. CrashIsHeard'
    BY <1>2, <1>8, <1>9, <2>3 DEF CrashIsHeard, OneServerInv
  <2>7. DownIsKnown'
    <3>1. \A t \in 1 .. Len(servers) : monitors[t] = "sleeps" => monitors'[t] = "sleeps"
      BY <1>2, <1>5
    <3> QED  BY <1>2, <1>8, <1>9, <2>3, <3>1 DEF DownIsKnown, Between, Stopped, OneServerInv
  <2> QED  BY <1>10, <1>13, <1>14, <2>4, <2>5, <2>6, <2>7 DEF OneServerInv
<1>16. CASE o = llama
  <2>0. llama > 0 /\ objects'[llama] = r
    BY <1>0, <1>7, <1>16
  <2>1. /\ ~ objects'[llama].running /\ objects'[llama].hook = objects[llama].hook /\ Watched(s)
        /\ llama > 0
    BY <1>1, <1>2, <1>6, <1>16, <2>0 DEF Watched
  <2>2. NoneServes
    BY <1>12, <2>1 DEF NoneServes, ServingIsWatched, OneIsWatched, OneServerInv
  <2>3. ServingIsWatched' /\ OneIsWatched' /\ QuietBetween'
    BY <1>2, <1>9, <1>11, <2>1, <2>2 DEF ServingIsWatched, OneIsWatched, QuietBetween, NoneServes
  <2>4. DownIsSeen' /\ KilledIsReplaced'
    BY <1>2, <1>9, <1>11, <2>1
       DEF DownIsSeen, KilledIsReplaced, Between, Stopped, OneIsWatched, OneServerInv
  <2>5. CrashIsHeard'
    BY <1>2, <1>8, <1>9, <2>1 DEF CrashIsHeard, OneServerInv
  <2>6. DownIsKnown'
    <3>1. SUFFICES ASSUME ~ Between, \A u \in Updates : updater[u] # "waiting", ~ unheard'
                   PROVE  monitors'[s] = "sleeps"
      BY <1>2, <1>9 DEF DownIsKnown, Between, Stopped
    <3>2. objects[llama].running
      BY <2>1, <3>1 DEF DownIsSeen, OneServerInv
    <3>3. objects[llama].hook
      <4>1. starter = "serving" => objects[llama].hook \/ unheard
        BY <3>1 DEF CrashIsHeard, Between, Stopped, OneServerInv
      <4> QED  BY <1>8, <1>16, <3>1, <3>2, <4>1 DEF TooEarly
    <3> QED  BY <1>3, <1>5, <1>16, <3>2, <3>3
  <2> QED  BY <1>10, <1>13, <1>14, <2>3, <2>4, <2>5, <2>6 DEF OneServerInv
<1> QED
  BY <1>15, <1>16

\* The crash callback.
LEMMA RestartKeeps ==
  ASSUME OneServerInv, NEW s \in 1 .. Len(servers), CrashRestart(s)
  PROVE  OneServerInv'
<1>0. /\ llama \in Nat /\ Len(servers) \in Nat /\ Len(monitors) = Len(servers)
      /\ \A o \in 1 .. llama : objects[o] \in ObjectRecords
      /\ \A t \in 1 .. Len(servers) : servers[t].obj \in 1 .. llama
      /\ ServerTyped
  BY ServerFacts DEF OneServerInv
<1>1. /\ monitors[s] = "sleeps" /\ llamaMu = "free" /\ starter # "exited"
      /\ UNCHANGED <<starter, slots, updater, swapped>>
  BY DEF CrashRestart
<1>2. starter = "serving" /\ llama > 0 /\ llama \in 1 .. llama /\ ~ Stopped /\ ~ Between
      /\ \A u \in Updates : updater[u] \notin {"stopped", "waiting"}
  BY <1>0, <1>1 DEF OneServerInv, BeforeServing, OneRestarts, Stopped, Between
<1>3. CASE ~ objects[llama].running /\ llamaMu' = "crash" /\ unheard' = unheard
           /\ servers' = Append(servers, [obj |-> llama, life |-> "loading"])
           /\ monitors' = Append([monitors EXCEPT ![s] = "restarts"], "waits")
           /\ objects' = [objects EXCEPT ![llama].running = TRUE]
  <2>1. PICK w \in ServerRecords : w.obj = llama /\ w.life = "loading" /\ w = [obj |-> llama, life |-> "loading"]
    <3>1. PICK w : w = [obj |-> llama, life |-> "loading"]
      OBVIOUS
    <3> QED  BY <1>0, <3>1 DEF ServerRecords
  <2>2. PICK n \in Nat : n = Len(servers) + 1
    BY <1>0
  <2>3. /\ servers' \in Seq(ServerRecords) /\ Len(servers') = n /\ servers'[n] = w
        /\ \A t \in 1 .. Len(servers) : servers'[t] = servers[t]
    <3>1. servers \in Seq(ServerRecords) /\ servers' = Append(servers, w)
      BY <1>3, <2>1 DEF OneServerInv, ServerTyped
    <3> QED  BY <2>2, <3>1, AppendProperties
  <2>4. PICK mons : mons = [monitors EXCEPT ![s] = "restarts"]
    OBVIOUS
  <2>5. "restarts" \in MonitorStates /\ "waits" \in MonitorStates
    BY DEF MonitorStates
  <2>6. /\ mons \in Seq(MonitorStates) /\ Len(mons) = Len(servers)
        /\ \A t \in 1 .. Len(servers) : mons[t] = IF t = s THEN "restarts" ELSE monitors[t]
    BY <1>0, <2>4, <2>5, MonitorChanges
  <2>7. /\ monitors' \in Seq(MonitorStates) /\ Len(monitors') = n /\ monitors'[n] = "waits"
        /\ \A t \in 1 .. Len(servers) : monitors'[t] = IF t = s THEN "restarts" ELSE monitors[t]
    <3>1. monitors' = Append(mons, "waits")
      BY <1>3, <2>4
    <3>2. Len(monitors') = n /\ monitors'[n] = "waits" /\ monitors' \in Seq(MonitorStates)
      BY <2>2, <2>5, <2>6, <3>1, AppendProperties
    <3>3. \A t \in 1 .. Len(servers) : monitors'[t] = mons[t]
      BY <2>5, <2>6, <3>1, AppendProperties
    <3> QED  BY <2>6, <3>2, <3>3
  <2>8. PICK r \in ObjectRecords : /\ r = [objects[llama] EXCEPT !.running = TRUE]
                                   /\ r.running /\ r.hook = objects[llama].hook
    BY <1>0, <1>2, RunningBecomes
  <2>9. /\ objects' \in Seq(ObjectRecords) /\ Len(objects') = llama
        /\ \A q \in 1 .. llama : objects'[q] = IF q = llama THEN r ELSE objects[q]
    <3>1. objects' = [objects EXCEPT ![llama] = r]
      BY <1>3, <2>8
    <3> QED  BY <1>0, <1>2, <3>1, ObjectChanges
  <2>10. llama' = llama /\ 1 .. Len(servers') = 1 .. Len(servers) \cup {n} /\ n \in 1 .. Len(servers')
    BY <1>0, <2>2, <2>3, <2>9 DEF llama
  <2>11. ServerTyped'
    BY <1>0, <1>1, <1>2, <1>3, <2>1, <2>3, <2>7, <2>9, <2>10 DEF ServerTyped
  <2>12. objects'[llama].running /\ objects'[llama].hook = objects[llama].hook
    BY <1>2, <2>8, <2>9
  <2>13. \A t \in 1 .. Len(servers) : ~ Watched(t) /\ ~ Serving(t)
    BY <1>2, <1>3 DEF OneServerInv, DownIsSeen, ServingIsWatched
  <2>14. \A t \in 1 .. Len(servers) : ~ Watched(t)' /\ ~ Serving(t)'
    BY <2>3, <2>7, <2>10, <2>13 DEF Watched, Serving
  <2>15. Watched(n)'
    BY <2>1, <2>3, <2>7, <2>10 DEF Watched
  <2>16. ServingIsWatched' /\ OneIsWatched'
    BY <2>10, <2>12, <2>14, <2>15 DEF ServingIsWatched, OneIsWatched
  <2>17. DownIsSeen' /\ DownIsKnown' /\ QuietBetween' /\ BeforeServing'
    BY <1>1, <1>2, <2>10, <2>12 DEF DownIsSeen, DownIsKnown, QuietBetween, BeforeServing, Stopped
  <2>18. KilledIsReplaced'
    BY <1>2, <2>1, <2>3, <2>10 DEF OneServerInv, KilledIsReplaced
  <2>19. CrashIsHeard'
    BY <1>1, <1>3, <2>10, <2>12 DEF OneServerInv, CrashIsHeard
  <2>20. OneRestarts'
    <3>1. \A t \in 1 .. Len(servers') : monitors'[t] = "restarts" => t = s
      BY <1>1, <2>7, <2>10 DEF OneServerInv, OneRestarts
    <3> QED  BY <1>1, <1>2, <1>3, <3>1 DEF OneRestarts
  <2> QED  BY <2>11, <2>16, <2>17, <2>18, <2>19, <2>20 DEF OneServerInv
<1>4. CASE /\ monitors' = [monitors EXCEPT ![s] = "over"] /\ unheard' = (unheard \/ ~ objects[llama].running)
           /\ UNCHANGED <<objects, servers, llamaMu>>
  <2>1. "over" \in MonitorStates
    BY DEF MonitorStates
  <2>2. /\ monitors' \in Seq(MonitorStates) /\ Len(monitors') = Len(servers)
        /\ \A t \in 1 .. Len(servers) : monitors'[t] = IF t = s THEN "over" ELSE monitors[t]
    BY <1>0, <1>4, <2>1, MonitorChanges
  <2>3. unheard' \in BOOLEAN /\ (unheard' <=> (unheard \/ ~ objects[llama].running)) /\ llama' = llama
    BY <1>4 DEF llama
  <2>4. BeforeServing' /\ OneRestarts' /\ (Between' <=> Between)
    BY <1>1, <1>2, <1>4, <2>2 DEF BeforeServing, OneRestarts, Between, Stopped, OneServerInv
  <2>5. CrashIsHeard' /\ DownIsKnown'
    BY <1>1, <1>4, <2>3 DEF CrashIsHeard, DownIsKnown, Between, Stopped, OneServerInv
  <2>6. objects' \in Seq(ObjectRecords) /\ Len(objects') = llama
    BY <1>0, <1>4 DEF ServerTyped, llama
  <2>7. updater' \in [Updates -> {"idle", "queued", "stopped", "waiting", "over"}]
    BY <1>0, <1>1 DEF ServerTyped
  <2> QED  BY <1>1, <1>2, <1>4, <2>2, <2>3, <2>4, <2>5, <2>6, <2>7, SameServers DEF Stopped
<1> QED
  BY <1>3, <1>4 DEF CrashRestart

\* The newest object gets its crash callback.
LEMMA HookKeeps ==
  ASSUME OneServerInv, llama > 0, objects' = [objects EXCEPT ![llama].hook = TRUE],
         UNCHANGED <<servers, monitors, slots, unheard>>, starter' = "serving", ~ Stopped, ~ Between,
         \/ \E s \in 1 .. Len(servers) : servers[s].obj = llama /\ servers[s].life = "ready"
         \/ \A u \in Updates : updater[u] # "waiting",
         updater' \in [Updates -> {"idle", "queued", "stopped", "waiting", "over"}], ~ Stopped', OneRestarts'
  PROVE  OneServerInv'
<1>0. /\ llama \in Nat /\ llama \in 1 .. llama /\ Len(servers) \in Nat /\ ServerTyped
      /\ \A o \in 1 .. llama : objects[o] \in ObjectRecords
  BY ServerFacts DEF OneServerInv
<1>1. PICK r \in ObjectRecords : /\ r = [objects[llama] EXCEPT !.hook = TRUE]
                                 /\ r.hook /\ r.running = objects[llama].running
  BY <1>0, HookBecomes
<1>2. /\ objects' \in Seq(ObjectRecords) /\ Len(objects') = llama
      /\ \A q \in 1 .. llama : objects'[q] = IF q = llama THEN r ELSE objects[q]
  <2>1. objects' = [objects EXCEPT ![llama] = r]
    BY <1>1
  <2> QED  BY <1>0, <2>1, ObjectChanges
<1>3. llama' = llama
  BY <1>2 DEF llama
<1>4. \A o \in 1 .. llama : objects'[o].running <=> objects[o].running
  BY <1>1, <1>2
<1>5. objects'[llama].hook /\ (objects'[llama].running <=> objects[llama].running)
  BY <1>0, <1>1, <1>2
<1>6. BeforeServing' /\ CrashIsHeard'
  BY <1>3, <1>5 DEF BeforeServing, CrashIsHeard
<1>7. DownIsKnown'
  <2>1. CASE \A u \in Updates : updater[u] # "waiting"
    BY <1>3, <1>5, <2>1 DEF DownIsKnown, OneServerInv
  <2>2. CASE \E s \in 1 .. Len(servers) : servers[s].obj = llama /\ servers[s].life = "ready"
    BY <1>3, <1>5, <2>2 DEF DownIsKnown, ServingIsWatched, Serving, OneServerInv
  <2> QED  BY <2>1, <2>2
<1>8. /\ monitors' \in Seq(MonitorStates) /\ Len(monitors') = Len(servers) /\ unheard' \in BOOLEAN
      /\ \A s \in 1 .. Len(servers) : monitors'[s] = "waits" <=> monitors[s] = "waits"
  BY <1>0 DEF ServerTyped
<1> QED
  BY <1>2, <1>4, <1>6, <1>7, <1>8, SameServers

LEMMA OneServerInvKept ==
  ASSUME OneServerInv, [ServerNext]_servervars
  PROVE  OneServerInv'
<1>0. /\ llama \in Nat /\ Len(servers) \in Nat /\ ServerTyped /\ Len(monitors) = Len(servers)
      /\ \A s \in 1 .. Len(servers) : servers[s].obj \in 1 .. llama
      /\ objects \in Seq(ObjectRecords) /\ Len(objects) = llama
      /\ monitors \in Seq(MonitorStates) /\ slots \in 1 .. MaxSlots /\ unheard \in BOOLEAN
      /\ updater \in [Updates -> {"idle", "queued", "stopped", "waiting", "over"}]
      /\ starter # "dialing" => llama > 0
  BY ServerFacts DEF OneServerInv, ServerTyped, llama
\* Before jobs are taken no update is under way.
<1>1. starter \notin {"serving", "exited"} =>
        /\ llamaMu = "free" /\ \A u \in Updates : updater[u] = "idle"
        /\ \A s \in 1 .. Len(servers) : monitors[s] \in {"waits", "over"}
        /\ ~ Stopped
  BY DEF OneServerInv, BeforeServing, Stopped
<1>2. slots' \in 1 .. MaxSlots
  <2>1. slots' = slots \/ (slots > 1 /\ slots' = slots - 1)
    BY DEF ServerNext, servervars, DialStart, DialReady, DialNotReady, DialDown, PatchStop, PatchStart,
           PatchReady, RegisterCrash, Leave, ServerLoads, ServerDies, MonitorWakes, CrashRestart,
           CrashRecovered, PolicyUpdate, UpdateStop, UpdateStart, UpdateReady
  <2> QED  BY <1>0, <2>1, ServerAssumption
<1>3. OneRestarts
  BY DEF OneServerInv
<1>4. CASE DialStart
  <2>1. starter = "dialing" /\ NoneServes /\ UNCHANGED <<updater, llamaMu, unheard>>
    BY <1>4 DEF DialStart, OneServerInv, QuietBetween
  <2>2. CASE Spawn(llama + 1, NewObject(FALSE)) /\ starter' = "waiting"
    BY <1>0, <1>1, <1>2, <2>1, <2>2, SpawnKeeps DEF Stopped
  <2>3. CASE objects' = NewObject(FALSE) /\ DialDown /\ UNCHANGED <<servers, monitors>>
    <3>1. OneRestarts'
      BY <1>3, <2>1, <2>3 DEF OneRestarts
    <3>2. starter' \in {"dialing", "exited"}
      BY <2>3 DEF DialDown
    <3> QED  BY <1>0, <1>1, <1>2, <2>1, <2>3, <3>1, <3>2, NewKeeps
  <2> QED  BY <1>4, <2>2, <2>3 DEF DialStart
<1>5. CASE DialNotReady
  <2>1. /\ starter = "waiting" /\ StopServer(llama) /\ starter' \in {"dialing", "exited"}
        /\ UNCHANGED <<monitors, updater, llamaMu, unheard>>
    BY <1>5 DEF DialNotReady, DialDown
  <2>2. OneRestarts' /\ Between'
    <3>1. Len(servers') = Len(servers)
      BY <1>0, <2>1, StopEffect
    <3> QED  BY <1>3, <2>1, <3>1 DEF OneRestarts, Between
  <2> QED  BY <1>0, <1>2, <2>1, <2>2, StopKeeps
<1>6. CASE PatchStop \/ Leave \/ (PatchReady /\ StopServer(llama) /\ starter' = "exited")
  <2>1. /\ StopServer(llama) /\ starter # "dialing" /\ starter' \in {"repatching", "exited"}
        /\ starter' = "repatching" => starter = "patching"
        /\ UNCHANGED <<monitors, updater, llamaMu, unheard>>
    BY <1>6 DEF PatchStop, Leave, PatchReady
  <2>2. OneRestarts' /\ Between'
    <3>1. Len(servers') = Len(servers)
      BY <1>0, <2>1, StopEffect
    <3> QED  BY <1>3, <2>1, <3>1 DEF OneRestarts, Between
  <2> QED  BY <1>0, <1>2, <2>1, <2>2, StopKeeps
<1>7. CASE PatchStart
  <2>1. starter = "repatching" /\ NoneServes /\ UNCHANGED <<updater, llamaMu, unheard>>
    BY <1>7 DEF PatchStart, OneServerInv, QuietBetween
  <2>2. CASE Spawn(llama + 1, NewObject(FALSE)) /\ starter' = "rewaiting"
    BY <1>0, <1>1, <1>2, <2>1, <2>2, SpawnKeeps DEF Stopped
  <2>3. CASE objects' = NewObject(FALSE) /\ starter' = "exited" /\ UNCHANGED <<servers, monitors>>
    <3>1. OneRestarts'
      BY <1>3, <2>1, <2>3 DEF OneRestarts
    <3> QED  BY <1>0, <1>1, <1>2, <2>1, <2>3, <3>1, NewKeeps
  <2> QED  BY <1>7, <2>2, <2>3 DEF PatchStart
\* Nothing but the place of run() changes.
<1>8. CASE DialReady \/ (PatchReady /\ starter' = "connecting" /\ UNCHANGED <<objects, servers>>)
           \/ UNCHANGED servervars
  <2>1. UNCHANGED <<objects, servers, monitors, slots, updater, llamaMu, swapped, unheard>> /\ llama' = llama
    BY <1>8 DEF DialReady, PatchReady, servervars, llama
  <2>2. starter' = starter \/ (starter \in {"waiting", "rewaiting"} /\ starter' \in {"patching", "connecting"})
    BY <1>8 DEF DialReady, PatchReady, servervars
  <2>3. (Stopped' <=> Stopped) /\ (Between' <=> Between)
    BY <2>1, <2>2 DEF Stopped, Between
  <2>4. BeforeServing' /\ OneRestarts' /\ CrashIsHeard' /\ DownIsKnown'
    BY <2>1, <2>2, <2>3 DEF BeforeServing, OneRestarts, CrashIsHeard, DownIsKnown, OneServerInv
  <2> QED  BY <1>0, <2>1, <2>2, <2>3, <2>4, SameServers
<1>9. CASE RegisterCrash
  <2>1. /\ starter = "connecting" /\ starter' = "serving" /\ objects' = [objects EXCEPT ![llama].hook = TRUE]
        /\ UNCHANGED <<servers, monitors, slots, updater, llamaMu, unheard>>
    BY <1>9 DEF RegisterCrash
  <2>2. /\ ~ Stopped /\ ~ Between /\ ~ Stopped' /\ llama > 0
        /\ \A u \in Updates : updater[u] # "waiting"
    BY <1>0, <1>1, <2>1 DEF Between, Stopped
  <2>3. OneRestarts'
    BY <1>3, <2>1 DEF OneRestarts
  <2> QED  BY <1>0, <2>1, <2>2, <2>3, HookKeeps
<1>10. ASSUME NEW s \in 1 .. Len(servers), ServerLoads(s) PROVE OneServerInv'
  <2>1. Serving(s) /\ servers' = [servers EXCEPT ![s].life = "ready"]
    BY <1>10 DEF ServerLoads, Serving
  <2> QED  BY <1>10, <2>1, LifeKeeps DEF ServerLoads
<1>11. ASSUME NEW s \in 1 .. Len(servers), ServerDies(s) PROVE OneServerInv'
  BY <1>11, LifeKeeps DEF ServerDies
<1>12. ASSUME NEW s \in 1 .. Len(servers), MonitorWakes(s) \/ CrashRestart(s) PROVE OneServerInv'
  BY <1>12, WakeKeeps, RestartKeeps
<1>13. ASSUME NEW s \in 1 .. Len(servers), CrashRecovered(s) PROVE OneServerInv'
  <2>1. /\ monitors[s] = "restarts" /\ starter # "exited" /\ llamaMu' = "free"
        /\ monitors' = [monitors EXCEPT ![s] = "over"] /\ llama' = llama
        /\ UNCHANGED <<objects, servers, starter, slots, updater, swapped, unheard>>
    BY <1>13 DEF CrashRecovered, llama
  <2>2. /\ monitors' \in Seq(MonitorStates) /\ Len(monitors') = Len(servers)
        /\ \A t \in 1 .. Len(servers) : monitors'[t] = IF t = s THEN "over" ELSE monitors[t]
    <3>1. "over" \in MonitorStates
      BY DEF MonitorStates
    <3> QED  BY <1>0, <2>1, <3>1, MonitorChanges
  <2>3. starter = "serving" /\ llamaMu = "crash" /\ \A u \in Updates : updater[u] \notin {"stopped", "waiting"}
    BY <1>1, <1>3, <2>1 DEF OneRestarts
  <2>4. BeforeServing' /\ OneRestarts' /\ (Between' <=> Between) /\ (Stopped' <=> Stopped)
    BY <1>3, <2>1, <2>2, <2>3 DEF BeforeServing, OneRestarts, Between, Stopped
  <2>5. CrashIsHeard' /\ DownIsKnown'
    BY <2>1, <2>2, <2>4 DEF CrashIsHeard, DownIsKnown, OneServerInv
  <2> QED  BY <1>0, <2>1, <2>2, <2>4, <2>5, SameServers
<1>14. ASSUME NEW u \in Updates, PolicyUpdate(u) PROVE OneServerInv'
  <2>1. /\ starter = "serving" /\ updater[u] = "idle" /\ llama' = llama
        /\ UNCHANGED <<objects, servers, monitors, slots, llamaMu, unheard>>
        /\ updater' \in [Updates -> {"idle", "queued", "stopped", "waiting", "over"}]
        /\ \A v \in Updates : updater'[v] # updater[v] => v = u /\ updater'[v] \in {"over", "queued"}
        /\ (starter' = "serving" /\ swapped' = swapped) \/ (starter' = "exited" /\ swapped')
    BY <1>0, <1>14 DEF PolicyUpdate, llama
  <2>2. \A v \in Updates : (updater'[v] = "stopped" <=> updater[v] = "stopped")
                          /\ (updater'[v] = "waiting" <=> updater[v] = "waiting")
    BY <2>1
  <2>3. (Stopped' <=> Stopped) /\ (Between => Between') /\ BeforeServing' /\ OneRestarts'
    BY <1>3, <2>1, <2>2 DEF Stopped, Between, BeforeServing, OneRestarts
  <2>4. CrashIsHeard' /\ DownIsKnown'
    BY <2>1, <2>2, <2>3 DEF CrashIsHeard, DownIsKnown, OneServerInv
  <2> QED  BY <1>0, <2>1, <2>3, <2>4, SameServers
<1>15. ASSUME NEW u \in Updates, UpdateStop(u) PROVE OneServerInv'
  <2>1. /\ updater[u] = "queued" /\ llamaMu = "free" /\ starter # "exited" /\ StopServer(llama)
        /\ updater' = [updater EXCEPT ![u] = "stopped"] /\ llamaMu' = "update"
        /\ UNCHANGED <<monitors, starter, slots, unheard>>
    BY <1>15 DEF UpdateStop
  <2>2. starter = "serving" /\ llama > 0
    BY <1>0, <1>1, <2>1
  <2>3. updater' \in [Updates -> {"idle", "queued", "stopped", "waiting", "over"}] /\ updater'[u] = "stopped"
        /\ \A v \in Updates : v # u => updater'[v] = updater[v]
    BY <1>0, <2>1
  <2>4. Between'
    BY <2>3 DEF Between, Stopped
  <2>5. OneRestarts'
    <3>1. Len(servers') = Len(servers)
      BY <2>1, <2>2, StopEffect
    <3> QED  BY <1>3, <2>1, <2>3, <3>1 DEF OneRestarts
  <2> QED  BY <1>2, <2>1, <2>2, <2>3, <2>4, <2>5, StopKeeps
<1>16. ASSUME NEW u \in Updates, UpdateStart(u) PROVE OneServerInv'
  <2>1. /\ updater[u] = "stopped" /\ starter # "exited" /\ UNCHANGED <<starter, slots>>
    BY <1>16 DEF UpdateStart
  <2>2. /\ starter = "serving" /\ llamaMu = "update" /\ NoneServes
        /\ \A v \in Updates : updater[v] \in {"stopped", "waiting"} => v = u
    BY <1>1, <1>3, <2>1 DEF OneRestarts, Stopped, QuietBetween, OneServerInv
  <2>3. CASE Spawn(llama + 1, NewObject(FALSE)) /\ updater' = [updater EXCEPT ![u] = "waiting"]
             /\ UNCHANGED <<llamaMu, unheard>>
    <3>1. /\ updater' \in [Updates -> {"idle", "queued", "stopped", "waiting", "over"}] /\ updater'[u] = "waiting"
          /\ \A v \in Updates : v # u => updater'[v] = updater[v]
      BY <1>0, <2>3
    <3>2. ~ Stopped' /\ \A v \in Updates : updater'[v] \in {"stopped", "waiting"} <=> updater[v] \in {"stopped", "waiting"}
      BY <2>1, <2>2, <3>1 DEF Stopped
    <3> QED  BY <1>2, <2>1, <2>2, <2>3, <3>1, <3>2, SpawnKeeps
  <2>4. CASE /\ objects' = NewObject(FALSE) /\ updater' = [updater EXCEPT ![u] = "over"] /\ llamaMu' = "free"
             /\ unheard' = TRUE /\ UNCHANGED <<servers, monitors>>
    <3>1. /\ updater' \in [Updates -> {"idle", "queued", "stopped", "waiting", "over"}] /\ updater'[u] = "over"
          /\ \A v \in Updates : v # u => updater'[v] = updater[v]
      BY <1>0, <2>4
    <3>2. OneRestarts'
      BY <1>3, <2>2, <2>4, <3>1 DEF OneRestarts
    <3> QED  BY <1>2, <2>1, <2>2, <2>4, <3>1, <3>2, NewKeeps
  <2> QED  BY <1>16, <2>3, <2>4 DEF UpdateStart
<1>17. ASSUME NEW u \in Updates, UpdateReady(u) PROVE OneServerInv'
  <2>1. /\ updater[u] = "waiting" /\ starter # "exited" /\ llamaMu' = "free"
        /\ updater' = [updater EXCEPT ![u] = "over"]
        /\ UNCHANGED <<servers, monitors, starter, slots, swapped>>
    BY <1>17 DEF UpdateReady
  <2>2. /\ starter = "serving" /\ llamaMu = "update" /\ llama > 0 /\ ~ Stopped /\ ~ Between
        /\ \A v \in Updates : updater[v] \in {"stopped", "waiting"} => v = u
    BY <1>0, <1>1, <1>3, <2>1 DEF OneRestarts, Stopped, Between
  <2>3. /\ updater' \in [Updates -> {"idle", "queued", "stopped", "waiting", "over"}] /\ updater'[u] = "over"
        /\ \A v \in Updates : v # u => updater'[v] = updater[v]
    BY <1>0, <2>1
  <2>4. ~ Stopped' /\ OneRestarts'
    BY <1>3, <2>1, <2>2, <2>3 DEF Stopped, OneRestarts
  <2>5. CASE IsReady(llama) /\ objects' = [objects EXCEPT ![llama].hook = TRUE] /\ UNCHANGED unheard
    <3>1. \E s \in 1 .. Len(servers) : servers[s].obj = llama /\ servers[s].life = "ready"
      BY <2>5 DEF IsReady, ServersOf
    <3> QED  BY <2>1, <2>2, <2>3, <2>4, <2>5, <3>1, HookKeeps
  <2>6. CASE unheard' = TRUE /\ UNCHANGED objects
    <3>1. BeforeServing' /\ CrashIsHeard' /\ DownIsKnown'
      BY <2>1, <2>2, <2>6 DEF BeforeServing, CrashIsHeard, DownIsKnown
    <3> QED  BY <1>0, <2>1, <2>2, <2>3, <2>4, <2>6, <3>1, SameServers
  <2> QED  BY <1>17, <2>5, <2>6 DEF UpdateReady
<1>18. CASE PatchReady
  BY <1>6, <1>8, <1>18 DEF PatchReady
<1> QED
  BY <1>4, <1>5, <1>6, <1>7, <1>8, <1>9, <1>10, <1>11, <1>12, <1>13, <1>14, <1>15, <1>16, <1>17, <1>18
     DEF ServerNext

LEMMA OneServerInvStarts == ServerInit => OneServerInv
<1> SUFFICES ASSUME ServerInit PROVE OneServerInv
  OBVIOUS
<1>1. slots \in 1 .. MaxSlots
  <2>1. slots = MaxSlots \/ slots = 1
    BY DEF ServerInit
  <2> QED  BY <2>1, ServerAssumption
<1>2. ~ unheard /\ unheard \in BOOLEAN
  BY DEF ServerInit
<1>3. /\ objects = <<>> /\ servers = <<>> /\ monitors = <<>>
      /\ Len(objects) = 0 /\ Len(servers) = 0 /\ Len(monitors) = 0
      /\ starter = "dialing" /\ updater = [u \in Updates |-> "idle"] /\ llamaMu = "free"
  BY DEF ServerInit
<1>4. ServerTyped
  BY <1>1, <1>2, <1>3, EmptySeq DEF ServerTyped, llama
<1>5. ServingIsWatched /\ OneIsWatched /\ DownIsSeen /\ QuietBetween /\ KilledIsReplaced
  BY <1>3 DEF ServingIsWatched, OneIsWatched, DownIsSeen, QuietBetween, NoneServes, KilledIsReplaced, llama
<1>6. BeforeServing /\ OneRestarts /\ CrashIsHeard /\ DownIsKnown
  BY <1>3 DEF BeforeServing, OneRestarts, CrashIsHeard, DownIsKnown, Between, llama
<1> QED
  BY <1>4, <1>5, <1>6 DEF OneServerInv

\* However the worker dials down its slots, restarts its server with another
\* template, after a crash or for a policy, and leaves: two servers never share
\* the GPU, and none is left behind unless the worker leaves amid a restart.
THEOREM OneServerAtATime == ServerSpec => []OneServer
<1>1. OneServerInv => OneServer
  <2> SUFFICES ASSUME OneServerInv PROVE OneServer
    OBVIOUS
  <2>1. \A s, t \in 1 .. Len(servers) : Serving(s) /\ Serving(t) => s = t
    BY ServerFacts DEF OneServerInv, ServingIsWatched, OneIsWatched, Watched
  <2>2. Cardinality({s \in 1 .. Len(servers) : Serving(s)}) <= 1
    <3>1. PICK S : S = {s \in 1 .. Len(servers) : Serving(s)}
      OBVIOUS
    <3>2. CASE S = {}
      BY <3>1, <3>2, FS_EmptySet
    <3>3. CASE S # {}
      <4>1. PICK s \in S : TRUE
        BY <3>3
      <4>2. S = {s}
        BY <2>1, <3>1, <4>1
      <4>3. Cardinality(S) = 1
        BY <4>2, FS_Singleton
      <4> QED  BY <3>1, <4>3
    <3> QED  BY <3>2, <3>3
  <2>3. starter = "exited" /\ ~ swapped => \A s \in 1 .. Len(servers) : ~ Serving(s)
    BY DEF OneServerInv, QuietBetween, NoneServes
  <2> QED  BY <2>2, <2>3 DEF OneServer
<1> QED
  BY <1>1, OneServerInvStarts, OneServerInvKept, PTL DEF ServerSpec

\* A worker that takes jobs without a server is bringing one up, or gave up: a
\* crash came before the callback was registered, or a restart failed.
THEOREM ServersComeBack == ServerSpec => []DownHasReason
<1>1. OneServerInv => DownHasReason
  <2>1. SUFFICES ASSUME OneServerInv, starter = "serving", ~ (\E s \in 1 .. Len(servers) : Serving(s)), ~ Recovering
                 PROVE  unheard
    BY DEF DownHasReason
  <2>2. /\ ~ Between /\ \A u \in Updates : updater[u] # "waiting"
        /\ \A s \in 1 .. Len(servers) : monitors[s] # "sleeps"
    BY <2>1 DEF Recovering, Between, Stopped
  <2>3. ~ objects[llama].running
    <3>1. SUFFICES ASSUME objects[llama].running PROVE FALSE
      OBVIOUS
    <3>2. PICK s \in 1 .. Len(servers) : Watched(s)
      BY <2>1, <3>1 DEF OneServerInv, ServerTyped, OneIsWatched
    <3>3. servers[s].life = "killed"
      <4>1. servers[s] \in ServerRecords
        BY <2>1, ServerFacts DEF OneServerInv
      <4> QED  BY <2>1, <3>2, <4>1 DEF Recovering, Watched, Serving, ServerRecords
    <3> QED  BY <2>1, <2>2, <3>2, <3>3 DEF OneServerInv, KilledIsReplaced, Watched
  <2> QED  BY <2>1, <2>2, <2>3 DEF OneServerInv, DownIsKnown
<1> QED
  BY <1>1, OneServerInvStarts, OneServerInvKept, PTL DEF ServerSpec
-----------------------------------------------------------------------------
(* Files of a model and the archive of the server.                           *)

Blocks == Nat \X Nat
LoaderRecords == [stage : {"idle", "check", "ask", "copy", "binary", "unpack", "ready"}, at : Files,
                  file : {"none", "temp", "dest", "gone"}, body : Seq(Blocks), offset : Nat, append : BOOLEAN]
DlTypes ==
  /\ temp \in [Files -> Seq(Blocks)] /\ dest \in [Files -> Seq(Blocks)] /\ loader \in [Loaders -> LoaderRecords]
  /\ published \in Nat \ {0} /\ bundle \in Steps /\ torn \in BOOLEAN

\* What stands for the first blocks of a version, and for those after the first k.
PartOf(s, v) == Len(s) <= FileBlocks /\ \A n \in 1 .. Len(s) : s[n] = <<v, n>>
RestOf(s, k, v) == Len(s) + k = FileBlocks /\ \A n \in 1 .. Len(s) : s[n] = <<v, k + n>>
\* A file that no two processes wrote at once, and that was resumed from its own
\* version only, has one writer at most, and what is there and what comes are halves
\* of one version; under its final name it is whole.
Fits(u, f, v) ==
  /\ loader[u].offset = Len(temp[f])
  /\ loader[u].stage = "copy" => loader[u].file = "temp" /\ RestOf(loader[u].body, Len(temp[f]), v)
FileWhole(f) ==
  f \notin tainted =>
    /\ \A u, w \in Fetching(f) : u = w
    /\ \E v \in 1 .. published : PartOf(temp[f], v) /\ \A u \in Fetching(f) : Fits(u, f, v)
    /\ dest[f] # <<>> => \E v \in 1 .. published : dest[f] = Whole(v)
\* A loader goes on to the second file, and is ready, only with the files there.
StageInOrder(w) ==
  /\ loader[w].stage \in {"binary", "unpack"} => plan = "server"
  /\ loader[w].stage \in {"check", "ask", "copy"} => plan # "server"
  /\ loader[w].stage \in {"ask", "copy"} => plan # "local"
  /\ loader[w].file # "none" <=> loader[w].stage = "copy"
  /\ loader[w].at = 2 => dest[1] # <<>>
  /\ loader[w].stage = "ready" /\ plan # "server" => \A f \in Files : dest[f] # <<>>
\* A server directory that nobody tore is as far as the process unpacking it; and
\* one that is unpacked in part still has that process.
ServerWhole ==
  plan = "server" /\ ~ torn =>
    /\ \A w \in Loaders : loader[w].stage = "unpack" => bundle = loader[w].offset
    /\ \A w \in Loaders : loader[w].stage = "ready" => bundle # 0
    /\ bundle = 1 => \E w \in Loaders : loader[w].stage = "unpack"
DownloadsInv ==
  DlTypes /\ (\A f \in Files : FileWhole(f)) /\ (\A w \in Loaders : StageInOrder(w)) /\ ServerWhole

LEMMA WholeFile ==
  ASSUME NEW v \in Nat
  PROVE  /\ Whole(v) \in Seq(Blocks) /\ Len(Whole(v)) = FileBlocks /\ Whole(v) # <<>>
         /\ \A n \in 1 .. FileBlocks : Whole(v)[n] = <<v, n>>
<1>1. /\ FileBlocks \in Nat /\ FileBlocks > 0
  BY DownloadsAssumption
<1>2. \A n \in 1 .. FileBlocks : <<v, n>> \in Blocks
  BY <1>1 DEF Blocks
<1>3. Whole(v) \in Seq(Blocks) /\ Len(Whole(v)) = FileBlocks
  BY <1>1, <1>2, LenProperties DEF Whole
<1> QED
  BY <1>1, <1>3 DEF Whole

LEMMA PartIsWhole ==
  ASSUME NEW s \in Seq(Blocks), NEW v \in Nat, PartOf(s, v), Len(s) >= FileBlocks
  PROVE  s = Whole(v)
<1>1. Len(s) = FileBlocks
  BY DownloadsAssumption, LenProperties DEF PartOf
<1>2. s = [n \in 1 .. FileBlocks |-> s[n]]
  BY <1>1, LenProperties
<1> QED
  BY <1>1, <1>2 DEF Whole, PartOf

\* What the repository sends after the first k blocks, and what those were.
LEMMA ReplyFits ==
  ASSUME NEW v \in Nat, NEW k \in 0 .. FileBlocks
  PROVE  /\ SubSeq(Whole(v), k + 1, FileBlocks) \in Seq(Blocks) /\ RestOf(SubSeq(Whole(v), k + 1, FileBlocks), k, v)
         /\ PartOf(SubSeq(Whole(v), 1, k), v)
<1>1. FileBlocks \in Nat /\ k \in Nat /\ k <= FileBlocks
  BY DownloadsAssumption
<1>2. PICK s : s = SubSeq(Whole(v), k + 1, FileBlocks)
  OBVIOUS
<1>3. /\ s \in Seq(Blocks) /\ Len(s) = FileBlocks - k
      /\ \A n \in 1 .. FileBlocks - k : s[n] = Whole(v)[k + 1 + n - 1]
  <2>1. \A n \in k + 1 .. FileBlocks : n \in 1 .. Len(Whole(v))
    BY <1>1, WholeFile
  <2>2. FileBlocks - (k + 1) + 1 = FileBlocks - k
    BY <1>1
  <2> QED  BY <1>1, <1>2, <2>1, <2>2, WholeFile, SubSeqProperties
<1>4. \A n \in 1 .. Len(s) : s[n] = <<v, k + n>>
  <2> SUFFICES ASSUME NEW n \in 1 .. Len(s) PROVE s[n] = <<v, k + n>>
    OBVIOUS
  <2>1. k + n \in 1 .. FileBlocks /\ k + 1 + n - 1 = k + n /\ n \in 1 .. FileBlocks - k
    BY <1>1, <1>3
  <2> QED  BY <1>3, <2>1, WholeFile
<1>5. RestOf(s, k, v)
  BY <1>1, <1>3, <1>4 DEF RestOf
<1>6. PICK p : p = SubSeq(Whole(v), 1, k)
  OBVIOUS
<1>7. Len(p) = k /\ \A n \in 1 .. k : p[n] = Whole(v)[n]
  <2>1. \A n \in 1 .. k : n \in 1 .. Len(Whole(v))
    BY <1>1, WholeFile
  <2> QED  BY <1>1, <1>6, <2>1, WholeFile, SubSeqProperties
<1>8. PartOf(p, v)
  <2>1. \A n \in 1 .. k : n \in 1 .. FileBlocks
    BY <1>1
  <2> QED  BY <1>1, <1>7, <2>1, WholeFile DEF PartOf
<1> QED
  BY <1>2, <1>3, <1>5, <1>6, <1>8

\* The next block goes where it belongs.
LEMMA BlockFits ==
  ASSUME NEW s \in Seq(Blocks), NEW body \in Seq(Blocks), NEW v \in Nat, body # <<>>,
         PartOf(s, v), RestOf(body, Len(s), v)
  PROVE  /\ Append(s, Head(body)) \in Seq(Blocks) /\ Tail(body) \in Seq(Blocks)
         /\ Len(Append(s, Head(body))) = Len(s) + 1
         /\ PartOf(Append(s, Head(body)), v) /\ RestOf(Tail(body), Len(s) + 1, v)
<1>1. FileBlocks \in Nat /\ Len(s) \in Nat /\ Len(body) \in Nat /\ Len(body) > 0
  BY DownloadsAssumption, LenProperties, EmptySeq
<1>2. Head(body) = <<v, Len(s) + 1>> /\ Head(body) \in Blocks
  <2>1. 1 \in 1 .. Len(body) /\ Head(body) = body[1]
    BY <1>1
  <2> QED  BY <1>1, <2>1 DEF RestOf, Blocks
<1>3. PICK t : t = Tail(body)
  OBVIOUS
<1>4. t \in Seq(Blocks) /\ Len(t) = Len(body) - 1 /\ \A n \in 1 .. Len(t) : t[n] = body[n + 1]
  BY <1>1, <1>3, HeadTailProperties
<1>5. RestOf(t, Len(s) + 1, v)
  <2>1. \A n \in 1 .. Len(t) : n + 1 \in 1 .. Len(body) /\ Len(s) + (n + 1) = Len(s) + 1 + n
    BY <1>1, <1>4
  <2>2. Len(t) + (Len(s) + 1) = FileBlocks
    <3>1. Len(body) + Len(s) = FileBlocks
      BY DEF RestOf
    <3>2. Len(t) = Len(body) - 1
      BY <1>4
    <3> QED  BY <1>1, <3>1, <3>2
  <2> QED  BY <1>4, <2>1, <2>2 DEF RestOf
<1>6. PICK a : a = Append(s, Head(body))
  OBVIOUS
<1>7. /\ a \in Seq(Blocks) /\ Len(a) = Len(s) + 1 /\ a[Len(s) + 1] = Head(body)
      /\ \A n \in 1 .. Len(s) : a[n] = s[n]
  BY <1>2, <1>6, AppendProperties
<1>8. PartOf(a, v)
  <2>1. Len(a) <= FileBlocks
    BY <1>1, <1>7 DEF RestOf
  <2>2. \A n \in 1 .. Len(a) : n \in 1 .. Len(s) \/ n = Len(s) + 1
    BY <1>1, <1>7
  <2> QED  BY <1>2, <1>7, <2>1, <2>2 DEF PartOf
<1> QED
  BY <1>3, <1>4, <1>5, <1>6, <1>7, <1>8

LEMMA PutAt ==
  ASSUME DlTypes, NEW w \in Loaders, NEW s \in LoaderRecords, Put(w, s)
  PROVE  /\ loader' \in [Loaders -> LoaderRecords] /\ loader'[w] = s
         /\ \A u \in Loaders : u # w => loader'[u] = loader[u]
BY DEF DlTypes, Put

\* A file nobody starts to fetch, or writes.
LEMMA FileKept ==
  ASSUME NEW f \in Files, FileWhole(f), tainted \subseteq tainted', {published, published'} \subseteq Nat,
         published <= published',
         temp'[f] = temp[f], dest'[f] = dest[f],
         \A u \in Loaders : u \in Fetching(f)' => u \in Fetching(f) /\ loader'[u] = loader[u]
  PROVE  FileWhole(f)'
<1> SUFFICES ASSUME f \notin tainted' PROVE FileWhole(f)'
  BY DEF FileWhole
<1>1. f \notin tainted /\ 1 .. published \subseteq 1 .. published'
  OBVIOUS
<1>2. \A u \in Fetching(f)' : u \in Loaders /\ u \in Fetching(f) /\ loader'[u] = loader[u]
  BY DEF Fetching
<1>3. PICK v \in 1 .. published : PartOf(temp[f], v) /\ \A u \in Fetching(f) : Fits(u, f, v)
  BY <1>1 DEF FileWhole
<1>4. PartOf(temp[f], v)' /\ \A u \in Fetching(f)' : Fits(u, f, v)'
  <2>1. PartOf(temp'[f], v)
    BY <1>3
  <2>2. ASSUME NEW u \in Fetching(f)' PROVE Fits(u, f, v)'
    <3>1. Fits(u, f, v) /\ loader'[u] = loader[u] /\ temp'[f] = temp[f]
      BY <1>2, <1>3, <2>2
    <3>2. PICK b, k : b = loader[u].body /\ k = Len(temp[f])
      OBVIOUS
    <3>3. RestOf(loader[u].body, Len(temp[f]), v)' <=> RestOf(b, k, v)
      BY <3>1, <3>2 DEF RestOf
    <3> QED  BY <3>1, <3>2, <3>3 DEF Fits
  <2> QED  BY <2>1, <2>2 DEF PartOf
<1>5. dest'[f] # <<>> => \E x \in 1 .. published' : dest'[f] = Whole(x)
  BY <1>1 DEF FileWhole
<1>6. \A u, w \in Fetching(f)' : u = w
  BY <1>1, <1>2 DEF FileWhole
<1>7. v \in 1 .. published'
  BY <1>1
<1> QED
  BY <1>4, <1>5, <1>6, <1>7 DEF FileWhole, Whole

\* A loader that stays where it is, while no file goes away.
LEMMA StageKept ==
  ASSUME NEW u, StageInOrder(u), plan' = plan, \A f \in Files : dest[f] # <<>> => dest'[f] # <<>>,
         loader'[u].stage = loader[u].stage, loader'[u].at = loader[u].at,
         loader'[u].file = "none" <=> loader[u].file = "none"
  PROVE  StageInOrder(u)'
BY DEF StageInOrder, Files

\* The records a loader is set to.
LEMMA IdleBecomes ==
  ASSUME NEW st \in {"idle", "check", "ask", "copy", "binary", "unpack", "ready"}
  PROVE  LET s == [IdleLoader EXCEPT !.stage = st]
             t == [IdleLoader EXCEPT !.stage = "check", !.at = 2] IN
         /\ s \in LoaderRecords /\ s.stage = st /\ s.at = 1 /\ s.file = "none" /\ s.offset = 0
         /\ t \in LoaderRecords /\ t.stage = "check" /\ t.at = 2 /\ t.file = "none"
         /\ IdleLoader \in LoaderRecords /\ IdleLoader.stage = "idle" /\ IdleLoader.at = 1 /\ IdleLoader.file = "none"
<1>1. <<>> \in Seq(Blocks)
  OBVIOUS
<1>2. PICK s : s = [IdleLoader EXCEPT !.stage = st]
  OBVIOUS
<1>3. PICK t : t = [IdleLoader EXCEPT !.stage = "check", !.at = 2]
  OBVIOUS
<1>4. /\ IdleLoader \in LoaderRecords /\ IdleLoader.stage = "idle" /\ IdleLoader.at = 1 /\ IdleLoader.file = "none"
  BY <1>1 DEF IdleLoader, LoaderRecords, Files
<1>5. s \in LoaderRecords /\ s.stage = st /\ s.at = 1 /\ s.file = "none" /\ s.offset = 0
  <2>1. IdleLoader.offset = 0
    BY DEF IdleLoader
  <2> QED  BY <1>2, <1>4, <2>1 DEF LoaderRecords
<1>6. t \in LoaderRecords /\ t.stage = "check" /\ t.at = 2 /\ t.file = "none"
  <2>1. 2 \in Files
    BY DEF Files
  <2> QED  BY <1>3, <1>4, <2>1 DEF LoaderRecords
<1> QED
  BY <1>2, <1>3, <1>4, <1>5, <1>6

LEMMA AdvanceBecomes ==
  ASSUME DlTypes, NEW w \in Loaders, StageInOrder(w), plan # "server", plan # "local", plan' = plan,
         dest[loader[w].at] # <<>> \/ dest'[loader[w].at] # <<>>,
         \A f \in Files : dest[f] # <<>> => dest'[f] # <<>>, loader'[w] = Advance(w)
  PROVE  /\ Advance(w) \in LoaderRecords /\ Advance(w).stage \in {"check", "ready"}
         /\ StageInOrder(w)'
<1>1. loader[w].at \in Files /\ 2 \in Files
  BY DEF DlTypes, LoaderRecords, Files
<1>2. CASE loader[w].at = 2
  <2>1. Advance(w) = [IdleLoader EXCEPT !.stage = "ready"]
    BY <1>2 DEF Advance
  <2>2. /\ Advance(w) \in LoaderRecords /\ Advance(w).stage = "ready" /\ Advance(w).at = 1 /\ Advance(w).file = "none"
    BY <1>1, <2>1, IdleBecomes
  <2>3. \A f \in Files : dest'[f] # <<>>
    <3>1. dest'[1] # <<>> /\ dest'[2] # <<>>
      BY <1>1, <1>2 DEF StageInOrder, Files
    <3> QED  BY <3>1 DEF Files
  <2> QED  BY <2>2, <2>3 DEF StageInOrder
<1>3. CASE loader[w].at # 2
  <2>1. loader[w].at = 1 /\ loader[w].at + 1 = 2
    BY <1>1, <1>3 DEF Files
  <2>2. /\ Advance(w) \in LoaderRecords /\ Advance(w).stage = "check" /\ Advance(w).at = 2 /\ Advance(w).file = "none"
    <3>1. Advance(w) = [IdleLoader EXCEPT !.stage = "check", !.at = loader[w].at + 1]
      BY <1>3 DEF Advance
    <3>2. Advance(w) = [IdleLoader EXCEPT !.stage = "check", !.at = 2]
      BY <2>1, <3>1
    <3> QED  BY <3>2, IdleBecomes
  <2>3. dest'[1] # <<>>
    BY <1>1, <2>1
  <2> QED  BY <2>2, <2>3 DEF StageInOrder
<1> QED
  BY <1>2, <1>3

\* A loader that fetches nothing afterwards, and writes nothing now.
LEMMA LoaderMoves ==
  ASSUME DownloadsInv, NEW w \in Loaders, NEW s \in LoaderRecords, Put(w, s), s.stage \notin {"ask", "copy"},
         UNCHANGED <<plan, published, temp, dest>>, tainted' = tainted,
         bundle' \in Steps, torn' \in BOOLEAN, StageInOrder(w)', ServerWhole'
  PROVE  DownloadsInv'
<1>1. /\ loader' \in [Loaders -> LoaderRecords] /\ loader'[w] = s
      /\ \A u \in Loaders : u # w => loader'[u] = loader[u]
  BY PutAt DEF DownloadsInv
<1>2. DlTypes'
  BY <1>1 DEF DownloadsInv, DlTypes
<1>3. ASSUME NEW f \in Files PROVE FileWhole(f)'
  <2>1. \A u \in Loaders : u \in Fetching(f)' => u \in Fetching(f) /\ loader'[u] = loader[u]
    BY <1>1 DEF Fetching
  <2>2. published \in Nat /\ published <= published' /\ published' \in Nat
    BY DEF DownloadsInv, DlTypes
  <2> QED  BY <2>1, <2>2, FileKept DEF DownloadsInv
<1>4. ASSUME NEW u \in Loaders PROVE StageInOrder(u)'
  <2>1. CASE u = w
    BY <2>1
  <2>2. CASE u # w
    BY <1>1, <2>2, StageKept DEF DownloadsInv
  <2> QED  BY <2>1, <2>2
<1> QED
  BY <1>2, <1>3, <1>4 DEF DownloadsInv

\* The file under its own name is a whole version.
LEMMA RenameKeeps ==
  ASSUME DownloadsInv, NEW w \in Loaders, loader[w].stage \in {"ask", "copy"},
         loader[w].stage = "ask" => loader[w].offset >= FileBlocks,
         loader[w].stage = "copy" => loader[w].body = <<>>,
         Rename(w), UNCHANGED <<plan, published, bundle, tainted, torn>>
  PROVE  DownloadsInv'
<1>f. PICK f : f = loader[w].at
  OBVIOUS
<1>0. /\ DlTypes /\ StageInOrder(w) /\ plan # "server" /\ plan # "local" /\ f \in Files /\ ServerWhole'
  <2>1. loader[w] \in LoaderRecords
    BY DEF DownloadsInv, DlTypes
  <2> QED  BY <1>f, <2>1 DEF DownloadsInv, StageInOrder, ServerWhole, LoaderRecords
<1>1. CASE temp[f] = <<>>
  <2>1. Put(w, IdleLoader) /\ UNCHANGED <<temp, dest>>
    BY <1>f, <1>1 DEF Rename
  <2>2. IdleLoader \in LoaderRecords /\ IdleLoader.stage = "idle" /\ IdleLoader.at = 1 /\ IdleLoader.file = "none"
    BY <1>0, IdleBecomes
  <2>3. loader'[w] = IdleLoader
    BY <1>0, <2>1, <2>2, PutAt
  <2>4. StageInOrder(w)'
    BY <2>2, <2>3 DEF StageInOrder
  <2>5. bundle' \in Steps /\ torn' \in BOOLEAN
    BY <1>0 DEF DlTypes
  <2> QED  BY <1>0, <2>1, <2>2, <2>4, <2>5, LoaderMoves
<1>2. CASE temp[f] # <<>>
  <2>1. dest' = [dest EXCEPT ![f] = temp[f]] /\ temp' = [temp EXCEPT ![f] = <<>>] /\ loader' = Renamed(w, f)
    BY <1>f, <1>2 DEF Rename
  <2>2. /\ dest'[f] = temp[f] /\ temp'[f] = <<>>
        /\ \A g \in Files : g # f => dest'[g] = dest[g] /\ temp'[g] = temp[g]
        /\ dest' \in [Files -> Seq(Blocks)] /\ temp' \in [Files -> Seq(Blocks)]
    BY <1>0, <2>1 DEF DlTypes
  <2>3. \A g \in Files : dest[g] # <<>> => dest'[g] # <<>>
    BY <1>2, <2>2
  <2>4. loader'[w] = Advance(w)
    BY <2>1 DEF Renamed
  <2>5. Advance(w) \in LoaderRecords /\ Advance(w).stage \in {"check", "ready"} /\ StageInOrder(w)'
    BY <1>f, <1>0, <1>2, <2>2, <2>3, <2>4, AdvanceBecomes
  <2>6. ASSUME NEW u \in Loaders, u # w
        PROVE  /\ loader'[u] \in LoaderRecords /\ loader'[u].stage = loader[u].stage /\ loader'[u].at = loader[u].at
               /\ loader'[u].file = "none" <=> loader[u].file = "none"
               /\ (loader[u].at # f \/ loader[u].file = "none" => loader'[u] = loader[u])
    <3>1. loader'[u] = IF loader[u].at # f \/ loader[u].file = "none" THEN loader[u]
                       ELSE IF loader[u].file = "temp" THEN [loader[u] EXCEPT !.file = "dest"]
                       ELSE [loader[u] EXCEPT !.file = "gone"]
      BY <2>1, <2>6 DEF Renamed
    <3>2. loader[u] \in LoaderRecords
      BY <1>0 DEF DlTypes
    <3> QED  BY <3>1, <3>2 DEF LoaderRecords
  <2>7. DlTypes'
    <3>1. \A u \in Loaders : loader'[u] \in LoaderRecords
      BY <2>4, <2>5, <2>6
    <3>2. loader' \in [Loaders -> LoaderRecords]
      BY <2>1, <3>1 DEF Renamed
    <3> QED  BY <1>0, <2>2, <3>2 DEF DlTypes
  <2>8. ASSUME NEW g \in Files, g # f PROVE FileWhole(g)'
    <3>1. \A u \in Loaders : u \in Fetching(g)' => u \in Fetching(g) /\ loader'[u] = loader[u]
      <4> SUFFICES ASSUME NEW u \in Loaders, u \in Fetching(g)' PROVE u \in Fetching(g) /\ loader'[u] = loader[u]
        OBVIOUS
      <4>1. u # w
        BY <2>4, <2>5 DEF Fetching
      <4> QED  BY <2>6, <2>8, <4>1 DEF Fetching
    <3>2. published \in Nat /\ published' = published /\ published <= published'
      BY <1>0 DEF DlTypes
    <3> QED  BY <2>2, <2>8, <3>1, <3>2, FileKept DEF DownloadsInv
  <2>9. FileWhole(f)'
    <3> SUFFICES ASSUME f \notin tainted PROVE FileWhole(f)'
      BY DEF FileWhole
    <3>1. w \in Fetching(f) /\ FileWhole(f) /\ (\A u \in Fetching(f) : u = w)
      <4>1. w \in Fetching(f) /\ FileWhole(f)
        BY <1>f, <1>0 DEF DownloadsInv, Fetching
      <4> QED  BY <4>1 DEF FileWhole
    <3>2. Fetching(f)' = {}
      <4> SUFFICES ASSUME NEW u \in Loaders, u \in Fetching(f)' PROVE FALSE
        BY DEF Fetching
      <4>1. u # w
        BY <2>4, <2>5 DEF Fetching
      <4> QED  BY <2>6, <3>1, <4>1 DEF Fetching
    <3>3. PICK v \in 1 .. published : PartOf(temp[f], v) /\ Fits(w, f, v)
      BY <3>1 DEF FileWhole
    <3>4. v \in Nat /\ temp[f] \in Seq(Blocks) /\ Len(temp[f]) \in Nat /\ v \in 1 .. published'
      BY <1>0, <3>3 DEF DlTypes
    <3>5. Len(temp[f]) >= FileBlocks
      <4>1. CASE loader[w].stage = "ask"
        BY <3>3, <4>1 DEF Fits
      <4>2. CASE loader[w].stage = "copy"
        <5>1. RestOf(<<>>, Len(temp[f]), v)
          BY <3>3, <4>2 DEF Fits
        <5>2. 0 + Len(temp[f]) = FileBlocks
          BY <5>1 DEF RestOf
        <5> QED  BY <3>4, <5>2
      <4> QED  BY <4>1, <4>2
    <3>6. dest'[f] = Whole(v)
      BY <2>2, <3>3, <3>4, <3>5, PartIsWhole
    <3>7. PartOf(<<>>, v)
      BY DownloadsAssumption DEF PartOf
    <3> QED  BY <2>2, <3>2, <3>4, <3>6, <3>7 DEF FileWhole, PartOf, Whole
  <2>10. ASSUME NEW u \in Loaders PROVE StageInOrder(u)'
    <3>1. CASE u = w
      BY <2>5, <3>1
    <3>2. CASE u # w
      BY <2>3, <2>6, <3>2, StageKept DEF DownloadsInv
    <3> QED  BY <3>1, <3>2
  <2>11. \A g \in Files : FileWhole(g)'
    BY <2>8, <2>9
  <2> QED  BY <1>0, <2>7, <2>10, <2>11 DEF DownloadsInv
<1> QED
  BY <1>1, <1>2

\* A loader asks for its file, or writes it.
LEMMA FetcherMoves ==
  ASSUME DownloadsInv, NEW w \in Loaders, NEW f \in Files, f = loader[w].at,
         NEW s \in LoaderRecords, Put(w, s), s.at = f, s.stage \in {"ask", "copy"}, s.file = "none" <=> s.stage = "ask",
         plan # "server", plan # "local", UNCHANGED <<plan, published, bundle, torn>>, tainted \subseteq tainted',
         temp' \in [Files -> Seq(Blocks)], dest' \in [Files -> Seq(Blocks)],
         \A g \in Files : g # f => temp'[g] = temp[g] /\ dest'[g] = dest[g],
         dest[f] # <<>> => dest'[f] # <<>>,
         f \notin tainted' =>
           /\ dest'[f] = dest[f] /\ \A u \in Fetching(f) : u = w
           /\ s.offset = Len(temp'[f])
           /\ \E v \in 1 .. published : /\ PartOf(temp'[f], v)
                                        /\ s.stage = "copy" => s.file = "temp" /\ RestOf(s.body, Len(temp'[f]), v)
  PROVE  DownloadsInv'
<1>1. /\ loader' \in [Loaders -> LoaderRecords] /\ loader'[w] = s
      /\ \A u \in Loaders : u # w => loader'[u] = loader[u]
  BY PutAt DEF DownloadsInv
<1>2. DlTypes'
  BY <1>1 DEF DownloadsInv, DlTypes
<1>3. published \in Nat /\ published' = published /\ published <= published'
  BY DEF DownloadsInv, DlTypes
<1>4. ASSUME NEW g \in Files, g # f PROVE FileWhole(g)'
  <2>1. \A u \in Loaders : u \in Fetching(g)' => u \in Fetching(g) /\ loader'[u] = loader[u]
    BY <1>1, <1>4 DEF Fetching
  <2> QED  BY <1>3, <1>4, <2>1, FileKept DEF DownloadsInv
<1>5. FileWhole(f)'
  <2> SUFFICES ASSUME f \notin tainted' PROVE FileWhole(f)'
    BY DEF FileWhole
  <2>1. \A u \in Fetching(f)' : u = w
    BY <1>1 DEF Fetching
  <2>2. PICK v \in 1 .. published : /\ PartOf(temp'[f], v)
                                    /\ s.stage = "copy" => s.file = "temp" /\ RestOf(s.body, Len(temp'[f]), v)
    OBVIOUS
  <2>3. \A u \in Fetching(f)' : Fits(u, f, v)'
    BY <1>1, <2>1, <2>2 DEF Fits, RestOf
  <2>4. dest'[f] # <<>> => \E x \in 1 .. published' : dest'[f] = Whole(x)
    BY <1>3 DEF DownloadsInv, FileWhole
  <2>5. PartOf(temp[f], v)' /\ v \in 1 .. published'
    BY <1>3, <2>2 DEF PartOf
  <2> QED  BY <2>1, <2>3, <2>4, <2>5 DEF FileWhole, Whole
<1>6. ASSUME NEW u \in Loaders PROVE StageInOrder(u)'
  <2>1. \A g \in Files : dest[g] # <<>> => dest'[g] # <<>>
    OBVIOUS
  <2>2. CASE u = w
    <3>1. StageInOrder(w)
      BY DEF DownloadsInv
    <3>2. loader'[w].at = 2 => dest'[1] # <<>>
      BY <1>1, <2>1, <3>1 DEF StageInOrder, Files
    <3> QED  BY <1>1, <2>2, <3>2 DEF StageInOrder
  <2>3. CASE u # w
    BY <1>1, <2>1, <2>3, StageKept DEF DownloadsInv
  <2> QED  BY <2>2, <2>3
<1>7. \A g \in Files : FileWhole(g)'
  BY <1>4, <1>5
<1> QED
  BY <1>2, <1>6, <1>7 DEF DownloadsInv, ServerWhole

\* The facts about a loader that fetches.
LEMMA FetcherFacts ==
  ASSUME DownloadsInv, NEW w \in Loaders, loader[w].stage \in {"ask", "copy"}, NEW f, f = loader[w].at
  PROVE  /\ plan # "server" /\ plan # "local" /\ f \in Files /\ DlTypes /\ loader[w] \in LoaderRecords
         /\ (loader[w].file = "none" <=> loader[w].stage = "ask")
         /\ f \notin tainted =>
              /\ \A u \in Fetching(f) : u = w
              /\ loader[w].offset = Len(temp[f])
              /\ \E v \in 1 .. published :
                   /\ PartOf(temp[f], v)
                   /\ loader[w].stage = "copy" => loader[w].file = "temp" /\ RestOf(loader[w].body, Len(temp[f]), v)
<1>1. DlTypes /\ loader[w] \in LoaderRecords /\ StageInOrder(w) /\ f \in Files /\ FileWhole(f) /\ w \in Fetching(f)
  <2>1. DlTypes /\ loader[w] \in LoaderRecords /\ StageInOrder(w)
    BY DEF DownloadsInv, DlTypes
  <2>2. f \in Files
    BY <2>1 DEF LoaderRecords
  <2> QED  BY <2>1, <2>2 DEF DownloadsInv, Fetching
<1>2. plan # "server" /\ plan # "local" /\ (loader[w].file = "none" <=> loader[w].stage = "ask")
  BY <1>1 DEF StageInOrder
<1> QED
  BY <1>1, <1>2 DEF FileWhole, Fits

LEMMA ReplyKeeps ==
  ASSUME DownloadsInv, NEW w \in Loaders, loader[w].stage = "ask", NEW append \in BOOLEAN,
         append => loader[w].offset \in 1 .. FileBlocks - 1,
         OpenReply(w, append), UNCHANGED <<plan, published, bundle, torn>>
  PROVE  DownloadsInv'
<1>f. PICK f : f = loader[w].at
  OBVIOUS
<1>1. /\ plan # "server" /\ plan # "local" /\ f \in Files /\ DlTypes /\ loader[w] \in LoaderRecords
      /\ f \notin tainted => \A u \in Fetching(f) : u = w
  BY <1>f, FetcherFacts
<1>2. PICK k : k = IF append THEN loader[w].offset ELSE 0
  OBVIOUS
<1>3. k \in 0 .. FileBlocks /\ k \in Nat /\ published \in Nat /\ published \in 1 .. published
  BY <1>1, <1>2, DownloadsAssumption DEF DlTypes, LoaderRecords
<1>4. PICK rest : rest = SubSeq(Whole(published), k + 1, FileBlocks)
  OBVIOUS
<1>5. rest \in Seq(Blocks) /\ RestOf(rest, k, published) /\ PartOf(SubSeq(Whole(published), 1, k), published)
  BY <1>3, <1>4, ReplyFits
<1>6. PICK s : s = [loader[w] EXCEPT !.stage = "copy", !.file = "temp", !.body = rest, !.append = append, !.offset = k]
  OBVIOUS
<1>7. /\ s \in LoaderRecords /\ s.at = f /\ s.stage = "copy" /\ s.file = "temp" /\ s.body = rest /\ s.offset = k
  BY <1>f, <1>1, <1>3, <1>5, <1>6 DEF LoaderRecords
<1>8. Put(w, s)
  <2>1. rest = SubSeq(Whole(published), IF append THEN loader[w].offset + 1 ELSE 1, FileBlocks)
    <3>1. k + 1 = IF append THEN loader[w].offset + 1 ELSE 1
      BY <1>2
    <3> QED  BY <1>4, <3>1
  <2> QED  BY <1>2, <1>6, <2>1 DEF OpenReply
<1>9. /\ temp' = (IF append THEN temp ELSE [temp EXCEPT ![f] = <<>>]) /\ dest' = dest
      /\ tainted' = IF append /\ temp[f] # SubSeq(Whole(published), 1, loader[w].offset)
                    THEN tainted \union {f} ELSE tainted
  BY <1>f DEF OpenReply
<1>10. /\ temp' \in [Files -> Seq(Blocks)] /\ dest' \in [Files -> Seq(Blocks)]
       /\ \A g \in Files : g # f => temp'[g] = temp[g]
  <2>1. <<>> \in Seq(Blocks)
    OBVIOUS
  <2> QED  BY <1>1, <1>9, <2>1 DEF DlTypes
<1>11. f \notin tainted' => PartOf(temp'[f], published) /\ k = Len(temp'[f])
  <2>1. CASE append
    <3>1. SUFFICES ASSUME f \notin tainted' PROVE PartOf(temp'[f], published) /\ k = Len(temp'[f])
      OBVIOUS
    <3>2. temp'[f] = SubSeq(Whole(published), 1, k) /\ temp'[f] = temp[f] /\ f \notin tainted
      BY <1>2, <1>9, <2>1, <3>1
    <3>3. k = Len(temp[f])
      BY <1>f, <1>2, <2>1, <3>2, FetcherFacts
    <3> QED  BY <1>5, <3>2, <3>3
  <2>2. CASE ~ append
    <3>1. temp'[f] = <<>> /\ k = 0
      BY <1>1, <1>2, <1>9, <2>2 DEF DlTypes
    <3> QED  BY <3>1, DownloadsAssumption DEF PartOf
  <2> QED  BY <2>1, <2>2
<1>12. tainted \subseteq tainted' /\ (f \notin tainted' => f \notin tainted)
  BY <1>9
<1>13. f \notin tainted' =>
         /\ dest'[f] = dest[f] /\ \A u \in Fetching(f) : u = w
         /\ s.offset = Len(temp'[f])
         /\ \E v \in 1 .. published : /\ PartOf(temp'[f], v)
                                      /\ s.stage = "copy" => s.file = "temp" /\ RestOf(s.body, Len(temp'[f]), v)
  BY <1>1, <1>3, <1>5, <1>7, <1>9, <1>11, <1>12
<1> QED
  BY <1>f, <1>1, <1>7, <1>8, <1>9, <1>10, <1>12, <1>13, FetcherMoves

LEMMA CopyKeeps ==
  ASSUME DownloadsInv, NEW w \in Loaders, Copy(w)
  PROVE  DownloadsInv'
<1>f. PICK f : f = loader[w].at
  OBVIOUS
<1>0. loader[w].stage = "copy" /\ loader[w].body # <<>>
  BY DEF Copy, Copying
<1>1. /\ plan # "server" /\ plan # "local" /\ f \in Files /\ DlTypes /\ loader[w] \in LoaderRecords
      /\ loader[w].file # "none"
  BY <1>f, <1>0, FetcherFacts
<1>2. PICK body : body = loader[w].body
  OBVIOUS
<1>3. /\ body \in Seq(Blocks) /\ body # <<>> /\ Head(body) \in Blocks /\ Tail(body) \in Seq(Blocks)
      /\ loader[w].offset \in Nat
  <2>1. body \in Seq(Blocks) /\ body # <<>> /\ loader[w].offset \in Nat
    BY <1>0, <1>1, <1>2 DEF LoaderRecords
  <2> QED  BY <2>1, HeadTailProperties
<1>4. PICK s : s = [loader[w] EXCEPT !.body = Tail(body), !.offset = loader[w].offset + 1]
  OBVIOUS
<1>5. /\ s \in LoaderRecords /\ s.at = f /\ s.stage = "copy" /\ s.file = loader[w].file
      /\ s.body = Tail(body) /\ s.offset = loader[w].offset + 1
  <2>1. loader[w].offset + 1 \in Nat
    BY <1>3
  <2> QED  BY <1>f, <1>0, <1>1, <1>3, <1>4, <2>1 DEF LoaderRecords
<1>6. Put(w, s)
  BY <1>2, <1>4 DEF Copy
<1>7. /\ UNCHANGED <<plan, published, bundle, torn>> /\ tainted' = tainted
      /\ loader[w].file = "temp" => temp' = [temp EXCEPT ![f] = WrittenBlock(w, @)] /\ dest' = dest
      /\ loader[w].file = "dest" => dest' = [dest EXCEPT ![f] = WrittenBlock(w, @)] /\ temp' = temp
      /\ loader[w].file \notin {"temp", "dest"} => temp' = temp /\ dest' = dest
  BY <1>f DEF Copy
<1>8. ASSUME NEW old \in Seq(Blocks) PROVE WrittenBlock(w, old) \in Seq(Blocks) /\ WrittenBlock(w, old) # <<>>
  <2>1. Len(old) \in Nat
    BY LenProperties
  <2>2. CASE loader[w].append \/ loader[w].offset >= Len(old)
    <3>1. Append(old, Head(body)) \in Seq(Blocks) /\ Append(old, Head(body)) # <<>>
      BY <1>3, AppendProperties
    <3> QED  BY <1>2, <2>2, <3>1 DEF WrittenBlock
  <2>3. CASE ~ (loader[w].append \/ loader[w].offset >= Len(old))
    <3>1. PICK new : new = [old EXCEPT ![loader[w].offset + 1] = Head(body)]
      OBVIOUS
    <3>2. new \in Seq(Blocks) /\ Len(new) = Len(old)
      <4>1. loader[w].offset + 1 \in 1 .. Len(old)
        BY <1>3, <2>1, <2>3
      <4> QED  BY <1>3, <3>1, <4>1, ExceptSeq
    <3>3. new # <<>>
      BY <1>3, <2>1, <2>3, <3>2
    <3> QED  BY <1>2, <2>3, <3>1, <3>2, <3>3 DEF WrittenBlock
  <2> QED  BY <2>2, <2>3
<1>9. /\ temp' \in [Files -> Seq(Blocks)] /\ dest' \in [Files -> Seq(Blocks)]
      /\ \A g \in Files : g # f => temp'[g] = temp[g] /\ dest'[g] = dest[g]
      /\ dest[f] # <<>> => dest'[f] # <<>>
  <2>1. WrittenBlock(w, temp[f]) \in Seq(Blocks) /\ WrittenBlock(w, dest[f]) \in Seq(Blocks) /\ WrittenBlock(w, dest[f]) # <<>>
    BY <1>1, <1>8 DEF DlTypes
  <2> QED  BY <1>1, <1>7, <2>1 DEF DlTypes
<1>10. f \notin tainted =>
         /\ dest'[f] = dest[f] /\ \A u \in Fetching(f) : u = w
         /\ s.offset = Len(temp'[f])
         /\ \E v \in 1 .. published : /\ PartOf(temp'[f], v)
                                      /\ s.stage = "copy" => s.file = "temp" /\ RestOf(s.body, Len(temp'[f]), v)
  <2> SUFFICES ASSUME f \notin tainted
               PROVE  /\ dest'[f] = dest[f] /\ \A u \in Fetching(f) : u = w
                      /\ s.offset = Len(temp'[f])
                      /\ \E v \in 1 .. published : /\ PartOf(temp'[f], v)
                                                   /\ s.file = "temp" /\ RestOf(s.body, Len(temp'[f]), v)
    OBVIOUS
  <2>1. (\A u \in Fetching(f) : u = w) /\ loader[w].offset = Len(temp[f])
    BY <1>f, <1>0, FetcherFacts
  <2>2. PICK v \in 1 .. published : PartOf(temp[f], v) /\ loader[w].file = "temp" /\ RestOf(body, Len(temp[f]), v)
    BY <1>f, <1>0, <1>2, FetcherFacts
  <2>3. temp[f] \in Seq(Blocks) /\ v \in Nat /\ Len(temp[f]) \in Nat
    BY <1>1, <2>2, LenProperties DEF DlTypes
  <2>4. WrittenBlock(w, temp[f]) = Append(temp[f], Head(body))
    BY <1>2, <2>1, <2>3 DEF WrittenBlock
  <2>5. temp'[f] = Append(temp[f], Head(body)) /\ dest' = dest
    BY <1>1, <1>7, <2>2, <2>4 DEF DlTypes
  <2>6. /\ Len(temp'[f]) = Len(temp[f]) + 1 /\ PartOf(temp'[f], v) /\ RestOf(Tail(body), Len(temp[f]) + 1, v)
    BY <1>3, <2>2, <2>3, <2>5, BlockFits
  <2> QED  BY <1>5, <2>1, <2>2, <2>5, <2>6
<1> QED
  BY <1>f, <1>1, <1>5, <1>6, <1>7, <1>9, <1>10, FetcherMoves

\* What a process does to the directory of the server, and to nothing else.
LEMMA ServerMoves ==
  ASSUME DownloadsInv, NEW w \in Loaders, NEW s \in LoaderRecords, Put(w, s), s.stage \notin {"ask", "copy"},
         s.file = "none", s.at = 2 => loader[w].at = 2, s.stage \notin {"check", "ask", "copy"},
         UNCHANGED <<plan, published, temp, dest, tainted>>, bundle' \in Steps, torn' \in BOOLEAN,
         plan = "server", ServerWhole'
  PROVE  DownloadsInv'
<1>1. loader'[w] = s
  BY PutAt DEF DownloadsInv
<1>2. StageInOrder(w)'
  BY <1>1 DEF DownloadsInv, StageInOrder
<1> QED
  BY <1>2, LoaderMoves

LEMMA DownloadsInvKept ==
  ASSUME DownloadsInv, [DownloadsNext]_dlvars
  PROVE  DownloadsInv'
<1>0. DlTypes
  BY DEF DownloadsInv
<1>idle. ASSUME NEW w \in Loaders, Put(w, IdleLoader) PROVE StageInOrder(w)'
  <2>1. loader'[w] = IdleLoader /\ IdleLoader.stage = "idle" /\ IdleLoader.at = 1 /\ IdleLoader.file = "none"
    BY <1>0, <1>idle, PutAt, IdleBecomes
  <2> QED  BY <2>1 DEF StageInOrder
<1>back. ASSUME NEW w \in Loaders, Put(w, IdleLoader), UNCHANGED <<plan, published, temp, dest, tainted>>,
                bundle' \in Steps, torn' \in BOOLEAN, ServerWhole'
         PROVE  DownloadsInv'
  <2>1. IdleLoader \in LoaderRecords /\ IdleLoader.stage = "idle"
    BY IdleBecomes
  <2> QED  BY <1>idle, <1>back, <2>1, LoaderMoves
<1>none. UNCHANGED <<bundle, torn>> => bundle' \in Steps /\ torn' \in BOOLEAN
  BY <1>0 DEF DlTypes
<1>1. ASSUME NEW w \in Loaders, Begin(w) PROVE DownloadsInv'
  <2>1. PICK st \in {"binary", "check"} : /\ Put(w, [IdleLoader EXCEPT !.stage = st])
                                           /\ st = IF plan = "server" THEN "binary" ELSE "check"
    BY <1>1 DEF Begin
  <2>2. PICK s : s = [IdleLoader EXCEPT !.stage = st]
    OBVIOUS
  <2>3. s \in LoaderRecords /\ s.stage = st /\ s.at = 1 /\ s.file = "none"
    BY <2>2, IdleBecomes
  <2>4. /\ loader[w].stage = "idle" /\ UNCHANGED <<plan, published, temp, dest, bundle, tainted, torn>>
        /\ Put(w, s) /\ loader'[w] = s /\ \A u \in Loaders : u # w => loader'[u] = loader[u]
    BY <1>0, <1>1, <2>1, <2>2, <2>3, PutAt DEF Begin
  <2>5. StageInOrder(w)'
    BY <2>1, <2>3, <2>4 DEF StageInOrder
  <2>6. ServerWhole'
    <3> SUFFICES ASSUME plan = "server", ~ torn PROVE ServerWhole'
      BY <2>4 DEF ServerWhole
    <3>1. ServerWhole /\ st = "binary"
      BY <2>1 DEF DownloadsInv
    <3> QED  BY <2>3, <2>4, <3>1 DEF ServerWhole
  <2> QED  BY <1>none, <2>1, <2>3, <2>4, <2>5, <2>6, LoaderMoves
<1>2. ASSUME NEW w \in Loaders, Local(w) PROVE DownloadsInv'
  <2>1. /\ loader[w].stage = "check" /\ plan = "local" /\ UNCHANGED <<plan, published, temp, dest, bundle, tainted, torn>>
        /\ ServerWhole'
    BY <1>2 DEF Local, ServerWhole
  <2>2. CASE \A f \in Files : dest[f] # <<>>
    <3>1. PICK s : s = [IdleLoader EXCEPT !.stage = "ready"]
      OBVIOUS
    <3>2. s \in LoaderRecords /\ s.stage = "ready" /\ s.at = 1 /\ s.file = "none"
      BY <3>1, IdleBecomes
    <3>3. Put(w, s) /\ loader'[w] = s
      BY <1>0, <1>2, <2>2, <3>1, <3>2, PutAt DEF Local
    <3>4. StageInOrder(w)'
      BY <2>1, <2>2, <3>2, <3>3 DEF StageInOrder
    <3> QED  BY <1>none, <2>1, <3>2, <3>3, <3>4, LoaderMoves
  <2>3. CASE ~ \A f \in Files : dest[f] # <<>>
    <3>1. Put(w, IdleLoader)
      BY <1>2, <2>3 DEF Local
    <3> QED  BY <1>back, <1>none, <2>1, <3>1
  <2> QED  BY <2>2, <2>3
<1>3. ASSUME NEW w \in Loaders, Check(w) PROVE DownloadsInv'
  <2>f. PICK f : f = loader[w].at
    OBVIOUS
  <2>1. /\ loader[w].stage = "check" /\ plan # "local" /\ StageInOrder(w) /\ plan # "server"
        /\ loader[w] \in LoaderRecords /\ f \in Files /\ loader[w].file = "none"
        /\ UNCHANGED <<plan, published, temp, dest, bundle, torn>> /\ ServerWhole'
    <3>1. loader[w].stage = "check" /\ StageInOrder(w) /\ loader[w] \in LoaderRecords
      BY <1>0, <1>3 DEF Check, DownloadsInv, DlTypes
    <3> QED  BY <1>3, <2>f, <3>1 DEF Check, StageInOrder, LoaderRecords, ServerWhole
  <2>2. CASE Downloaded(f)
    <3>1. tainted' = tainted /\ Put(w, Advance(w)) /\ dest[f] # <<>>
      BY <1>3, <2>f, <2>2 DEF Check, Downloaded
    <3>2. Advance(w) \in LoaderRecords /\ loader'[w] = Advance(w)
      <4>1. loader'[w] = Advance(w)
        BY <1>0, <3>1 DEF Put, DlTypes
      <4> QED  BY <1>0, <2>f, <2>1, <3>1, <4>1, AdvanceBecomes
    <3>3. Advance(w).stage \in {"check", "ready"} /\ StageInOrder(w)'
      BY <1>0, <2>f, <2>1, <3>1, <3>2, AdvanceBecomes
    <3> QED  BY <1>none, <2>1, <3>1, <3>2, <3>3, LoaderMoves
  <2>3. CASE ~ Downloaded(f)
    <3>1. PICK s : s = [loader[w] EXCEPT !.stage = "ask", !.offset = Len(temp[f])]
      OBVIOUS
    <3>2. temp[f] \in Seq(Blocks) /\ Len(temp[f]) \in Nat
      BY <1>0, <2>1, LenProperties DEF DlTypes
    <3>3. s \in LoaderRecords /\ s.at = f /\ s.stage = "ask" /\ s.file = "none" /\ s.offset = Len(temp[f])
      BY <2>f, <2>1, <3>1, <3>2 DEF LoaderRecords
    <3>4. Put(w, s) /\ tainted' = IF Fetching(f) # {} THEN tainted \union {f} ELSE tainted
      BY <1>3, <2>f, <2>3, <3>1 DEF Check
    <3>5. f \notin tainted' => /\ \A u \in Fetching(f) : u = w
                               /\ \E v \in 1 .. published : PartOf(temp'[f], v)
      <4>1. f \notin tainted' => f \notin tainted /\ Fetching(f) = {}
        BY <3>4
      <4> QED  BY <2>1, <4>1 DEF DownloadsInv, FileWhole
    <3> QED  BY <1>0, <2>f, <2>1, <3>3, <3>4, <3>5, FetcherMoves DEF DlTypes
  <2> QED  BY <2>2, <2>3
<1>4. ASSUME NEW w \in Loaders, Ask(w) PROVE DownloadsInv'
  <2>1. loader[w].stage = "ask" /\ UNCHANGED <<plan, published, bundle, torn>> /\ plan # "server"
    BY <1>4, FetcherFacts DEF Ask
  <2>2. CASE loader[w].offset \in 1 .. FileBlocks - 1 /\ OpenReply(w, TRUE)
    BY <2>1, <2>2, ReplyKeeps
  <2>3. CASE OpenReply(w, FALSE)
    BY <2>1, <2>3, ReplyKeeps
  <2>4. CASE loader[w].offset >= FileBlocks /\ Rename(w) /\ UNCHANGED tainted
    BY <2>1, <2>4, RenameKeeps
  <2>5. CASE Put(w, IdleLoader) /\ UNCHANGED <<temp, dest, tainted>>
    <3>1. ServerWhole'
      BY <2>1 DEF ServerWhole
    <3> QED  BY <1>back, <1>none, <2>1, <2>5, <3>1
  <2> QED  BY <1>4, <2>2, <2>3, <2>4, <2>5 DEF Ask
<1>5. ASSUME NEW w \in Loaders, CopyEnds(w) PROVE DownloadsInv'
  BY <1>5, RenameKeeps DEF CopyEnds, Copying
<1>6. ASSUME NEW w \in Loaders, Cut(w) PROVE DownloadsInv'
  <2>1. /\ loader[w].stage \in {"copy", "unpack"} /\ Put(w, IdleLoader)
        /\ torn' = (torn \/ (loader[w].stage = "unpack" /\ loader[w].offset > 0))
        /\ UNCHANGED <<plan, published, temp, dest, bundle, tainted>>
    BY <1>6 DEF Cut
  <2>2. /\ IdleLoader \in LoaderRecords /\ IdleLoader.stage = "idle" /\ loader'[w] = IdleLoader
        /\ \A u \in Loaders : u # w => loader'[u] = loader[u]
    BY <1>0, <2>1, IdleBecomes, PutAt
  <2>3. ServerWhole'
    <3> SUFFICES ASSUME plan = "server", ~ torn, ~ (loader[w].stage = "unpack" /\ loader[w].offset > 0) PROVE ServerWhole'
      BY <2>1 DEF ServerWhole
    <3>1. ServerWhole /\ StageInOrder(w) /\ loader[w] \in LoaderRecords
      BY <1>0 DEF DownloadsInv, DlTypes
    <3>2. loader[w].stage = "unpack" /\ bundle = 0
      <4>1. loader[w].stage = "unpack" /\ bundle = loader[w].offset
        BY <2>1, <3>1 DEF StageInOrder, ServerWhole
      <4>2. loader[w].offset \in Nat
        BY <3>1 DEF LoaderRecords
      <4> QED  BY <4>1, <4>2
    <3>3. \A u \in Loaders : loader[u].stage # "ready"
      BY <3>1, <3>2 DEF ServerWhole
    <3> QED  BY <2>1, <2>2, <3>1, <3>3 DEF ServerWhole
  <2>4. bundle' \in Steps /\ torn' \in BOOLEAN
    BY <1>0, <2>1 DEF DlTypes
  <2> QED  BY <1>back, <2>1, <2>3, <2>4
<1>7. ASSUME NEW w \in Loaders, Cached(w) \/ Archive(w) PROVE DownloadsInv'
  <2>1. PICK st \in {"ready", "unpack", "idle"} :
          /\ loader[w].stage = "binary" /\ UNCHANGED <<plan, published, temp, dest, bundle, tainted, torn>>
          /\ Put(w, [IdleLoader EXCEPT !.stage = st])
          /\ st = "ready" => bundle > 0
          /\ st = "unpack" => bundle = 0
    <3>1. IdleLoader = [IdleLoader EXCEPT !.stage = "idle"]
      BY DEF IdleLoader
    <3> QED  BY <1>7, <3>1 DEF Cached, Archive
  <2>2. PICK s : s = [IdleLoader EXCEPT !.stage = st]
    OBVIOUS
  <2>3. s \in LoaderRecords /\ s.stage = st /\ s.at = 1 /\ s.file = "none" /\ s.offset = 0
    BY <2>2, IdleBecomes
  <2>4. Put(w, s) /\ loader'[w] = s /\ \A u \in Loaders : u # w => loader'[u] = loader[u]
    BY <1>0, <2>1, <2>2, <2>3, PutAt
  <2>5. plan = "server" /\ ServerWhole /\ bundle \in Steps
    BY <1>0, <2>1 DEF DownloadsInv, StageInOrder, DlTypes
  <2>6. ServerWhole'
    <3> SUFFICES ASSUME ~ torn PROVE ServerWhole'
      BY <2>1 DEF ServerWhole
    <3>1. bundle = 0 \/ bundle = 2 \/ bundle = 1
      BY <2>5 DEF Steps
    <3>2. \A u \in Loaders : loader'[u].stage = "unpack" => bundle = loader'[u].offset
      BY <2>1, <2>3, <2>4, <2>5 DEF ServerWhole
    <3>3. \A u \in Loaders : loader'[u].stage = "ready" => bundle # 0
      BY <2>1, <2>3, <2>4, <2>5, <3>1 DEF ServerWhole
    <3>4. bundle = 1 => \E u \in Loaders : loader'[u].stage = "unpack"
      BY <2>1, <2>4, <2>5 DEF ServerWhole
    <3> QED  BY <2>1, <3>2, <3>3, <3>4 DEF ServerWhole
  <2> QED  BY <1>none, <2>1, <2>3, <2>4, <2>5, <2>6, ServerMoves
<1>8. ASSUME NEW w \in Loaders, Unpack(w) PROVE DownloadsInv'
  <2>1. /\ loader[w].stage = "unpack" /\ loader[w].offset < 2
        /\ bundle' = loader[w].offset + 1 /\ Put(w, [loader[w] EXCEPT !.offset = @ + 1])
        /\ torn' = (torn \/ \E u \in Loaders \ {w} : loader[u].stage \in {"unpack", "ready"})
        /\ UNCHANGED <<plan, published, temp, dest, tainted>>
    BY <1>8 DEF Unpack
  <2>2. /\ loader[w] \in LoaderRecords /\ loader[w].offset \in Nat /\ loader[w].offset + 1 \in Nat
        /\ plan = "server" /\ loader[w].file = "none"
    <3>1. loader[w] \in LoaderRecords /\ StageInOrder(w)
      BY <1>0 DEF DownloadsInv, DlTypes
    <3>2. loader[w].offset \in Nat
      BY <3>1 DEF LoaderRecords
    <3> QED  BY <2>1, <3>1, <3>2 DEF StageInOrder
  <2>3. PICK s : s = [loader[w] EXCEPT !.offset = loader[w].offset + 1]
    OBVIOUS
  <2>4. /\ s \in LoaderRecords /\ s.stage = "unpack" /\ s.at = loader[w].at /\ s.file = "none"
        /\ s.offset = loader[w].offset + 1
    BY <2>1, <2>2, <2>3 DEF LoaderRecords
  <2>5. Put(w, s)
    BY <2>1, <2>3
  <2>6. loader'[w] = s /\ \A u \in Loaders : u # w => loader'[u] = loader[u]
    BY <1>0, <2>4, <2>5, PutAt
  <2>7. ServerWhole'
    <3> SUFFICES ASSUME \A u \in Loaders \ {w} : loader[u].stage \notin {"unpack", "ready"} PROVE ServerWhole'
      BY <2>1 DEF ServerWhole
    <3>1. \A u \in Loaders : loader'[u].stage \in {"unpack", "ready"} => u = w
      BY <2>6
    <3> QED  BY <2>1, <2>4, <2>6, <3>1 DEF ServerWhole
  <2>8. bundle' \in Steps /\ torn' \in BOOLEAN
    <3>1. bundle' \in Steps
      BY <2>1, <2>2 DEF Steps
    <3> QED  BY <1>0, <2>1, <3>1 DEF DlTypes
  <2> QED  BY <2>1, <2>2, <2>4, <2>5, <2>7, <2>8, ServerMoves
<1>9. ASSUME NEW w \in Loaders, Unpacked(w) PROVE DownloadsInv'
  <2>1. /\ loader[w].stage = "unpack" /\ loader[w].offset = 2 /\ Put(w, [IdleLoader EXCEPT !.stage = "ready"])
        /\ UNCHANGED <<plan, published, temp, dest, bundle, tainted, torn>>
    BY <1>9 DEF Unpacked
  <2>2. PICK s : s = [IdleLoader EXCEPT !.stage = "ready"]
    OBVIOUS
  <2>3. s \in LoaderRecords /\ s.stage = "ready" /\ s.at = 1 /\ s.file = "none"
    BY <2>2, IdleBecomes
  <2>4. Put(w, s) /\ loader'[w] = s /\ \A u \in Loaders : u # w => loader'[u] = loader[u]
    BY <1>0, <2>1, <2>2, <2>3, PutAt
  <2>5. plan = "server" /\ ServerWhole
    BY <2>1 DEF DownloadsInv, StageInOrder
  <2>6. ServerWhole'
    <3> SUFFICES ASSUME ~ torn PROVE ServerWhole'
      BY <2>1 DEF ServerWhole
    <3>1. bundle = 2 /\ 2 # 0 /\ 2 # 1
      BY <2>1, <2>5 DEF ServerWhole
    <3> QED  BY <2>1, <2>3, <2>4, <2>5, <3>1 DEF ServerWhole
  <2> QED  BY <1>none, <2>1, <2>3, <2>4, <2>5, <2>6, ServerMoves
<1>10. ASSUME Publish \/ UNCHANGED dlvars PROVE DownloadsInv'
  <2>1. UNCHANGED <<plan, temp, dest, loader, bundle, tainted, torn>> /\ published' \in {published, published + 1}
    BY <1>10 DEF Publish, dlvars
  <2>2. published \in Nat /\ published' \in Nat \ {0} /\ published <= published'
    BY <1>0, <2>1 DEF DlTypes
  <2>3. DlTypes'
    BY <1>0, <2>1, <2>2 DEF DlTypes
  <2>4. ASSUME NEW f \in Files PROVE FileWhole(f)'
    BY <2>1, <2>2, FileKept DEF DownloadsInv, Fetching
  <2>5. ASSUME NEW w \in Loaders PROVE StageInOrder(w)'
    BY <2>1 DEF DownloadsInv, StageInOrder
  <2>6. ServerWhole'
    BY <2>1 DEF DownloadsInv, ServerWhole
  <2> QED  BY <2>3, <2>4, <2>5, <2>6 DEF DownloadsInv
<1> QED
  BY <1>1, <1>2, <1>3, <1>4, <1>5, <1>6, <1>7, <1>8, <1>9, <1>10, CopyKeeps DEF DownloadsNext

LEMMA DownloadsInvStarts == DownloadsInit => DownloadsInv
<1> SUFFICES ASSUME DownloadsInit PROVE DownloadsInv
  OBVIOUS
<1>1. /\ published = 1 /\ 1 \in Nat \ {0} /\ 1 \in 1 .. published /\ bundle = 0 /\ torn = FALSE
      /\ temp = [f \in Files |-> <<>>] /\ loader = [w \in Loaders |-> IdleLoader]
      /\ \A f \in Files : dest[f] \in {<<>>, Whole(1)}
  BY DEF DownloadsInit
<1>2. <<>> \in Seq(Blocks) /\ Whole(1) \in Seq(Blocks) /\ PartOf(<<>>, 1)
  BY <1>1, WholeFile, DownloadsAssumption DEF PartOf
<1>3. /\ IdleLoader \in LoaderRecords /\ IdleLoader.stage = "idle" /\ IdleLoader.at = 1 /\ IdleLoader.file = "none"
  BY IdleBecomes
<1>4. DlTypes
  <2>1. dest \in [Files -> Seq(Blocks)]
    <3>1. dest \in [Files -> {<<>>, Whole(1)}]
      BY DEF DownloadsInit
    <3> QED  BY <1>2, <3>1
  <2>2. temp \in [Files -> Seq(Blocks)] /\ loader \in [Loaders -> LoaderRecords]
    BY <1>1, <1>2, <1>3
  <2>3. bundle \in Steps
    BY <1>1 DEF Steps
  <2> QED  BY <1>1, <2>1, <2>2, <2>3 DEF DlTypes
<1>5. ASSUME NEW f \in Files PROVE FileWhole(f)
  <2>1. Fetching(f) = {}
    BY <1>1, <1>3 DEF Fetching
  <2> QED  BY <1>1, <1>2, <2>1 DEF FileWhole
<1>6. ASSUME NEW w \in Loaders PROVE StageInOrder(w)
  BY <1>1, <1>3 DEF StageInOrder
<1>7. ServerWhole
  BY <1>1, <1>3 DEF ServerWhole
<1> QED
  BY <1>4, <1>5, <1>6, <1>7 DEF DownloadsInv

\* Whatever was cut short and resumed, and however many processes fetch into one
\* cache, a worker about to serve has whole files and a whole server, unless two
\* wrote one file, it was published anew in between, or an unpacking was torn
\* (download.go: downloadWithProgress; llamabin and sdbin: Ensure).
THEOREM FetchedWhole == DownloadsSpec => []LoadedIsWhole
<1>1. DownloadsInv => LoadedIsWhole
  <2> SUFFICES ASSUME DownloadsInv, NEW w \in Loaders, loader[w].stage = "ready"
               PROVE  IF plan = "server" THEN torn \/ bundle = 2 \/ \E u \in Loaders : loader[u].stage = "unpack"
                      ELSE \A f \in Files : f \in tainted \/ \E v \in 1 .. published : dest[f] = Whole(v)
    BY DEF LoadedIsWhole
  <2>1. CASE plan = "server"
    <3>1. bundle = 0 \/ bundle = 1 \/ bundle = 2
      BY DEF DownloadsInv, DlTypes, Steps
    <3> QED  BY <2>1, <3>1 DEF DownloadsInv, ServerWhole
  <2>2. CASE plan # "server"
    BY <2>2 DEF DownloadsInv, StageInOrder, FileWhole
  <2> QED  BY <2>1, <2>2
<1> QED
  BY DownloadsInvStarts, <1>1, DownloadsInvKept, PTL DEF DownloadsSpec

-----------------------------------------------------------------------------
(* The texts and the calls of an execution.                                  *)

LEMMA ChunkPieces ==
  /\ \A chunk \in ContentChunks : chunk \in Seq(Pieces)
  /\ \A chunk \in ReasoningChunks : chunk \in Seq(Pieces)
<1>1. PICK t \in Pieces, b \in Pieces, e \in Pieces, o \in Pieces, c \in Pieces, k \in Pieces, i \in Pieces :
        /\ t = "text" /\ b = "<think>" /\ e = "</think>" /\ o = "<tool" /\ c = "_call>" /\ k = "call" /\ i = "inline call"
  BY DEF Pieces
<1>2. /\ <<t>> \in Seq(Pieces) /\ <<b>> \in Seq(Pieces) /\ <<e>> \in Seq(Pieces) /\ <<o, c>> \in Seq(Pieces) /\ <<o>> \in Seq(Pieces)
      /\ <<c>> \in Seq(Pieces) /\ <<k>> \in Seq(Pieces) /\ <<i>> \in Seq(Pieces) /\ <<t, b, t, e, t>> \in Seq(Pieces)
  OBVIOUS
<1>3. \A chunk \in ContentChunks :
        chunk \in {<<t>>, <<b>>, <<e>>, <<o, c>>, <<o>>, <<c>>, <<k>>, <<i>>, <<t, b, t, e, t>>}
  BY <1>1 DEF ContentChunks, Opening
<1>4. \A chunk \in ReasoningChunks : chunk \in {<<t>>, <<o, c>>, <<k>>}
  BY <1>1 DEF ReasoningChunks, Opening
<1> QED  BY <1>2, <1>3, <1>4

LEMMA SplitPieces ==
  ASSUME NEW chunk \in Seq(Pieces), inThink \in BOOLEAN
  PROVE  Split(chunk).in \in BOOLEAN /\ Split(chunk).thinking \in Seq(Pieces) /\ Split(chunk).answer \in Seq(Pieces)
<1>1. \A P : At(chunk, P) \in Seq(Pieces)
  BY AtType
<1>2. Thinking(chunk, Len(chunk) + 1) \in BOOLEAN
  BY DEF Thinking
<1> QED  BY <1>1, <1>2 DEF Split

\* An opening that two texts make together is seen across their border.
LEMMA NoOpeningAcross ==
  ASSUME NEW s \in Seq(Pieces), NEW t \in Seq(Pieces), ~HasOpening(s), ~HasOpening(LastOf(s) \o t)
  PROVE  ~HasOpening(s \o t)
<1>1. PICK y : y = s \o t
  OBVIOUS
<1>2. /\ Len(y) = Len(s) + Len(t) /\ Len(s) \in Nat /\ Len(t) \in Nat
      /\ \A i \in 1 .. Len(s) : y[i] = s[i]
      /\ \A i \in 1 .. Len(t) : y[Len(s) + i] = t[i]
  BY <1>1
<1> SUFFICES ASSUME NEW k \in Openings(y) PROVE FALSE
  BY <1>1 DEF HasOpening
<1>3. k \in 1 .. Len(y) - 1 /\ y[k] = "<tool" /\ y[k + 1] = "_call>"
  BY DEF Openings
<1>4. CASE k + 1 <= Len(s)
  <2>1. k \in 1 .. Len(s) - 1 /\ s[k] = y[k] /\ s[k + 1] = y[k + 1]
    BY <1>2, <1>3, <1>4
  <2> QED  BY <1>3, <2>1 DEF HasOpening, Openings
<1>5. CASE k + 1 > Len(s) /\ s = <<>>
  <2>1. y = t /\ LastOf(s) \o t = t
    BY <1>1, <1>5 DEF LastOf
  <2> QED  BY <2>1 DEF HasOpening
<1>6. CASE k + 1 > Len(s) /\ s # <<>>
  <2>1. PICK x \in Pieces : x = s[Len(s)]
    BY <1>2, <1>6
  <2>2. LastOf(s) = <<x>>
    BY <1>6, <2>1 DEF LastOf, Last
  <2>3. PICK z : z = <<x>> \o t
    OBVIOUS
  <2>4. Len(z) = 1 + Len(t) /\ z[1] = x /\ \A i \in 1 .. Len(t) : z[1 + i] = t[i]
    <3>1. PICK w \in Seq(Pieces) : w = <<x>> /\ Len(w) = 1 /\ w[1] = x
      <4>1. <<x>> \in Seq(Pieces) /\ Len(<<x>>) = 1 /\ <<x>>[1] = x
        OBVIOUS
      <4> QED  BY <4>1
    <3>2. /\ Len(w \o t) = 1 + Len(t) /\ (w \o t)[1] = x
          /\ \A i \in 1 .. Len(t) : (w \o t)[1 + i] = t[i]
      BY <3>1, <1>2
    <3> QED  BY <2>3, <3>1, <3>2
  <2>5. PICK m \in Nat : k = Len(s) + m
    <3>1. k - Len(s) \in Nat /\ k = Len(s) + (k - Len(s))
      BY <1>2, <1>3, <1>6
    <3> QED  BY <3>1
  <2>6. m + 1 \in 1 .. Len(t)
    BY <1>2, <1>3, <2>5
  <2>7. z[m + 1] = y[k] /\ z[m + 2] = y[k + 1]
    <3>1. z[m + 2] = t[m + 1] /\ y[k + 1] = t[m + 1]
      BY <1>2, <2>4, <2>5, <2>6
    <3>2. CASE m = 0
      <4>1. Len(s) \in 1 .. Len(s)
        BY <1>2, <1>6
      <4> QED  BY <1>2, <2>1, <2>4, <2>5, <3>1, <3>2, <4>1
    <3>3. CASE m # 0
      <4>1. m \in 1 .. Len(t)
        BY <1>2, <2>6, <3>3
      <4> QED  BY <1>2, <2>4, <2>5, <3>1, <4>1
    <3> QED  BY <3>2, <3>3
  <2>8. m + 1 \in Openings(z)
    BY <1>2, <1>3, <2>4, <2>6, <2>7 DEF Openings
  <2> QED  BY <2>2, <2>3, <2>8 DEF HasOpening
<1> QED
  BY <1>2, <1>3, <1>4, <1>5, <1>6

\* A text without an opening has no calls and is told as it is.
LEMMA NothingExtracted ==
  ASSUME NEW text \in Seq(Pieces), ~HasOpening(text)
  PROVE  Extracted(text).calls = <<>> /\ Extracted(text).rest = text
<1>1. Called(text) = {} /\ Inlines(text) = {}
  BY DEF Called, Inlines, HasOpening
<1>2. PICK none : none = {}
  OBVIOUS
<1>3. Closings(text) = none /\ Inlines(text) = none
  BY <1>1, <1>2 DEF Closings
<1>4. \A i \in 1 .. Len(text) : i \in Outside(text) /\ i \notin none
  BY <1>1, <1>2 DEF Outside
<1>5. At(text, none) = <<>>
  BY <1>4, AtNone, Zenon
<1>6. At(text, Outside(text)) = text
  BY <1>4, AtAll, Zenon
<1>7. <<>> \o <<>> = <<>>
  OBVIOUS
<1> QED  BY <1>3, <1>5, <1>6, <1>7 DEF Extracted

\* As many calls are found as are written, and text is left out exactly if there
\* are any.
LEMMA CallsExtracted ==
  ASSUME NEW text \in Seq(Pieces)
  PROVE  /\ Len(Extracted(text).calls) = WrittenCalls(text) /\ Extracted(text).calls \in Seq(Pieces)
         /\ WrittenCalls(text) \in Nat
         /\ Extracted(text).rest = text <=> Extracted(text).calls = <<>>
<1>1. PICK C : C = Closings(text)
  OBVIOUS
<1>2. PICK I : I = Inlines(text)
  OBVIOUS
<1>3. PICK O : O = Outside(text)
  OBVIOUS
<1>4. /\ Len(text) \in Nat /\ C \subseteq 1 .. Len(text) /\ I \subseteq 1 .. Len(text) /\ O \subseteq 1 .. Len(text)
  <2>1. Len(text) \in Nat
    OBVIOUS
  <2>2. C \subseteq 1 .. Len(text)
    BY <1>1 DEF Closings, Called
  <2>3. I \subseteq 1 .. Len(text)
    BY <1>2 DEF Inlines
  <2>4. O \subseteq 1 .. Len(text)
    BY <1>3 DEF Outside
  <2> QED  BY <2>1, <2>2, <2>3, <2>4
<1>5. C \cap (1 .. Len(text)) = C /\ I \cap (1 .. Len(text)) = I /\ O \cap (1 .. Len(text)) = O
  BY <1>4
<1>6. At(text, C) \in Seq(Pieces) /\ At(text, I) \in Seq(Pieces) /\ At(text, O) \in Seq(Pieces)
  BY AtType, Zenon
<1>7. PICK c \in Seq(Pieces) : c = At(text, C)
  BY <1>6, Zenon
<1>8. PICK i \in Seq(Pieces) : i = At(text, I)
  BY <1>6, Zenon
<1>9. PICK o \in Seq(Pieces) : o = At(text, O)
  BY <1>6, Zenon
<1>10. Len(c) = Cardinality(C) /\ Len(i) = Cardinality(I) /\ Len(o) = Cardinality(O)
  BY <1>5, <1>7, <1>8, <1>9, AtLen, Zenon
<1>11. Extracted(text).calls = c \o i /\ Extracted(text).rest = o
  BY <1>1, <1>2, <1>3, <1>7, <1>8, <1>9 DEF Extracted
<1>12. Len(c \o i) = Len(c) + Len(i) /\ c \o i \in Seq(Pieces) /\ Len(c) \in Nat /\ Len(i) \in Nat
  OBVIOUS
<1>13. Len(Extracted(text).calls) = WrittenCalls(text) /\ Extracted(text).calls \in Seq(Pieces) /\ WrittenCalls(text) \in Nat
  BY <1>1, <1>2, <1>10, <1>11, <1>12 DEF WrittenCalls
<1>14. Called(text) # {} => C # {}
  <2> SUFFICES ASSUME NEW p \in Called(text) PROVE C # {}
    OBVIOUS
  <2>1. PICK q \in Openings(text) :
          /\ q <= p /\ \A j \in q .. p - 1 : text[j] # "call"
          /\ \E d \in p .. Len(text) : text[d] = "call"
    BY DEF Called
  <2>2. p \in Nat /\ q \in Nat
    BY DEF Called, Openings
  <2>3. PICK S : S = {d \in p .. Len(text) : text[d] = "call"}
    OBVIOUS
  <2>4. S \subseteq Nat /\ S # {}
    BY <1>4, <2>1, <2>2, <2>3
  <2>5. PICK d \in S : \A e \in S : d <= e
    BY <2>4, LeastOf
  <2>6. d \in p .. Len(text) /\ text[d] = "call" /\ d \in 1 .. Len(text)
    BY <2>2, <2>3, <2>5 DEF Called
  <2>7. \A j \in q .. d - 1 : text[j] # "call"
    <3> SUFFICES ASSUME NEW j \in q .. d - 1 PROVE text[j] # "call"
      OBVIOUS
    <3>1. CASE j < p
      BY <2>1, <2>2, <2>6, <3>1
    <3>2. CASE j >= p
      <4>1. j \in p .. Len(text) /\ ~(d <= j)
        BY <1>4, <2>2, <2>6, <3>2
      <4> QED  BY <2>3, <2>5, <4>1
    <3> QED  BY <2>2, <2>6, <3>1, <3>2
  <2>8. d \in Called(text)
    <3>1. q <= d /\ d \in d .. Len(text)
      BY <1>4, <2>1, <2>2, <2>6
    <3> QED  BY <2>6, <2>7, <3>1 DEF Called
  <2> QED  BY <1>1, <2>6, <2>8 DEF Closings
<1>15. (C = {} /\ I = {}) <=> O = 1 .. Len(text)
  BY <1>1, <1>2, <1>3, <1>4, <1>14 DEF Outside, Closings, Called, Inlines
<1>16. c \o i = <<>> <=> C = {} /\ I = {}
  <2>1. c \o i = <<>> <=> Len(c) = 0 /\ Len(i) = 0
    BY <1>12
  <2>2. IsFiniteSet(C) /\ IsFiniteSet(I)
    <3>1. IsFiniteSet(1 .. Len(text))
      BY <1>4, FS_Interval
    <3> QED  BY <1>4, <3>1, FS_Subset
  <2>3. (Cardinality(C) = 0 <=> C = {}) /\ (Cardinality(I) = 0 <=> I = {})
    BY <2>2, FS_EmptySet
  <2> QED  BY <1>10, <2>1, <2>3
<1>17. o = text <=> O = 1 .. Len(text)
  <2>1. ASSUME O = 1 .. Len(text) PROVE o = text
    <3>1. \A j \in 1 .. Len(text) : j \in O
      BY <2>1
    <3> QED  BY <1>9, <3>1, AtAll, Zenon
  <2>2. ASSUME o = text PROVE O = 1 .. Len(text)
    <3>1. Cardinality(O) = Len(text)
      BY <1>10, <2>2
    <3>2. IsFiniteSet(1 .. Len(text)) /\ Cardinality(1 .. Len(text)) = Len(text)
      <4>1. PICK n \in Nat : n = Len(text)
        BY <1>4
      <4>2. IsFiniteSet(1 .. n) /\ Cardinality(1 .. n) = IF 1 > n THEN 0 ELSE n - 1 + 1
        BY FS_Interval
      <4>3. (IF 1 > n THEN 0 ELSE n - 1 + 1) = n
        OBVIOUS
      <4> QED  BY <4>1, <4>2, <4>3
    <3> QED  BY <1>4, <3>1, <3>2, FS_Subset
  <2> QED  BY <2>1, <2>2
<1> QED
  BY <1>11, <1>13, <1>15, <1>16, <1>17

\* A text that begins another, place by place.
Begins(s, t) == Len(s) <= Len(t) /\ \A i \in 1 .. Len(s) : s[i] = t[i]

\* What is shown begins the answer, with no opening in it, and is all of it until
\* a call was opened.
ShownInv ==
  effort # "none" => Begins(shown, fullResponse) /\ ~HasOpening(shown) /\ (inCall \/ shown = fullResponse)
\* Nothing is told before the job is over, and then what the accumulated texts
\* and calls make.
TellingInv ==
  /\ completion.is # "none" => phase = "over"
  /\ completion.is = "complete" /\ ~image => completion = CompleteJob
ExecInv ==
  /\ ExecTypeOK /\ \A i \in Indices : accToolCalls[i] <= chunks
  /\ phase = "new" => request = <<>>
  /\ ShownInv /\ TellingInv

LEMMA BeginsIsPrefix ==
  ASSUME NEW s \in Seq(Pieces), NEW t \in Seq(Pieces), Begins(s, t)
  PROVE  IsPrefix(s, t)
<1>1. PICK n \in Nat : n = Len(s)
  OBVIOUS
<1>2. n <= Len(t) /\ \A i \in 1 .. n : s[i] = t[i] /\ s[i] \in Pieces /\ t[i] \in Pieces
  BY <1>1 DEF Begins
<1>3. PICK u \in Seq(Pieces) : u = SubSeq(s, 1, n) /\ Len(u) = n /\ \A i \in 1 .. n : u[i] = s[i]
  <2>1. /\ SubSeq(s, 1, n) \in Seq(Pieces) /\ Len(SubSeq(s, 1, n)) = IF 1 <= n THEN n - 1 + 1 ELSE 0
        /\ \A i \in 1 .. n - 1 + 1 : SubSeq(s, 1, n)[i] = s[1 + i - 1]
    BY <1>2, SubSeqProperties
  <2>2. Len(SubSeq(s, 1, n)) = n /\ \A i \in 1 .. n : SubSeq(s, 1, n)[i] = s[i]
    BY <2>1
  <2> QED  BY <2>1, <2>2
<1>4. PICK v \in Seq(Pieces) : v = SubSeq(t, 1, n) /\ Len(v) = n /\ \A i \in 1 .. n : v[i] = t[i]
  <2>1. /\ SubSeq(t, 1, n) \in Seq(Pieces) /\ Len(SubSeq(t, 1, n)) = IF 1 <= n THEN n - 1 + 1 ELSE 0
        /\ \A i \in 1 .. n - 1 + 1 : SubSeq(t, 1, n)[i] = t[1 + i - 1]
    BY <1>2, SubSeqProperties
  <2>2. Len(SubSeq(t, 1, n)) = n /\ \A i \in 1 .. n : SubSeq(t, 1, n)[i] = t[i]
    BY <2>1
  <2> QED  BY <2>1, <2>2
<1>5. u = v
  BY <1>2, <1>3, <1>4, SeqEqual
<1> QED
  BY <1>1, <1>2, <1>3, <1>4, <1>5 DEF IsPrefix

LEMMA TextsJoin ==
  ASSUME NEW s \in Seq(Pieces), NEW t \in Seq(Pieces), NEW u \in Seq(Pieces)
  PROVE  s \o u \in Seq(Pieces) /\ (Begins(s, t) => Begins(s, t \o u))
<1>1. PICK y \in Seq(Pieces) : y = t \o u /\ Len(y) = Len(t) + Len(u) /\ \A i \in 1 .. Len(t) : y[i] = t[i]
  <2>1. t \o u \in Seq(Pieces) /\ Len(t \o u) = Len(t) + Len(u) /\ \A i \in 1 .. Len(t) : (t \o u)[i] = t[i]
    OBVIOUS
  <2> QED  BY <2>1
<1>2. Len(s) \in Nat /\ Len(t) \in Nat /\ Len(u) \in Nat /\ s \o u \in Seq(Pieces)
  OBVIOUS
<1> QED
  BY <1>1, <1>2 DEF Begins

LEMMA TextsStartEmpty ==
  /\ <<>> \in Seq(Pieces) /\ <<>> \in Seq(Turns) /\ Begins(<<>>, <<>>) /\ ~HasOpening(<<>>)
<1>1. PICK none \in Seq(Pieces) : none = <<>> /\ Len(none) = 0
  <2>1. <<>> \in Seq(Pieces) /\ Len(<<>>) = 0
    OBVIOUS
  <2> QED  BY <2>1
<1>2. Begins(none, none) /\ ~HasOpening(none)
  BY <1>1 DEF Begins, HasOpening, Openings
<1>3. <<>> \in Seq(Turns)
  OBVIOUS
<1> QED
  BY <1>1, <1>2, <1>3, Zenon

LEMMA HistoriesTyped ==
  Histories \subseteq Seq(Turns)
<1> SUFFICES ASSUME NEW n \in 0 .. LoopWindow PROVE <<"system", "user">> \o Rounds(n) \in Seq(Turns)
  BY Zenon DEF Histories
<1>0. n \in Nat
  BY ExecutorAssumption
<1>1. PICK m \in Nat : m = 2 * n
  BY <1>0
<1>2. \A k \in 1 .. m : (IF k % 2 = 1 THEN "call" ELSE "result") \in Turns
  BY DEF Turns
<1>3. [k \in 1 .. m |-> IF k % 2 = 1 THEN "call" ELSE "result"] \in [1 .. m -> Turns]
  BY <1>2
<1>4. Rounds(n) \in Seq(Turns)
  BY <1>1, <1>3 DEF Rounds
<1>5. PICK s \in Turns, u \in Turns : s = "system" /\ u = "user"
  BY DEF Turns
<1>6. PICK h \in Seq(Turns) : h = <<s, u>>
  <2>1. <<s, u>> \in Seq(Turns)
    OBVIOUS
  <2> QED  BY <2>1
<1>7. PICK r \in Seq(Turns) : r = Rounds(n)
  BY <1>4
<1>8. h \o r \in Seq(Turns)
  OBVIOUS
<1> QED
  BY <1>5, <1>6, <1>7, <1>8

\* What is left of a conversation is no longer than it was.
LEMMA TruncatedShortens ==
  ASSUME NEW h \in Seq(Turns)
  PROVE  Truncated(h) \in Seq(Turns) /\ Len(Truncated(h)) <= Len(h)
<1>1. PICK n \in Nat : n = Len(h)
  OBVIOUS
<1>2. Window \in Nat /\ Window >= 1
  BY ExecutorAssumption
<1>3. CASE n <= Window
  BY <1>1, <1>3 DEF Truncated
<1>4. CASE n > Window
  <2>1. PICK from \in Nat : from = IF Window > 1 THEN n - Window + 2 ELSE n
    <3>1. n - Window + 2 \in Nat
      BY <1>2, <1>4
    <3> QED  BY <3>1
  <2>2. 1 <= from /\ 2 <= n /\ n - from + 1 < n
    BY <1>2, <1>4, <2>1
  <2>3. \A i \in from .. n : h[i] \in Turns
    BY <1>1, <2>2
  <2>4. SubSeq(h, from, n) \in Seq(Turns) /\ Len(SubSeq(h, from, n)) < n
    <3>1. /\ SubSeq(h, from, n) \in Seq(Turns)
          /\ Len(SubSeq(h, from, n)) = IF from <= n THEN n - from + 1 ELSE 0
      BY <2>3, SubSeqProperties
    <3> QED  BY <2>2, <3>1
  <2>5. PICK t \in Seq(Turns) : t = SubSeq(h, from, n) /\ Len(t) < n
    BY <2>4
  <2>6. PICK s \in Seq(Turns) : s = <<h[1]>> /\ Len(s) = 1
    <3>1. h[1] \in Turns
      BY <1>1, <2>2
    <3>2. <<h[1]>> \in Seq(Turns) /\ Len(<<h[1]>>) = 1
      BY <3>1
    <3> QED  BY <3>2
  <2>7. s \o t \in Seq(Turns) /\ Len(s \o t) = 1 + Len(t) /\ Len(t) \in Nat
    BY <2>6
  <2>8. Truncated(h) = s \o t
    <3>1. ~(Len(h) <= Window)
      BY <1>1, <1>2, <1>4
    <3>2. SubSeq(h, IF Window > 1 THEN Len(h) - Window + 2 ELSE Len(h), Len(h)) = t
      BY <1>1, <2>1, <2>5
    <3> QED  BY <2>6, <3>1, <3>2, Zenon DEF Truncated
  <2> QED  BY <1>1, <2>5, <2>7, <2>8
<1> QED
  BY <1>1, <1>2, <1>3, <1>4

LEMMA AnswerIsText ==
  ASSUME ExecTypeOK
  PROVE  FinalResponse \in Seq(Pieces)
<1>1. fullResponse \in Seq(Pieces)
  BY DEF ExecTypeOK
<1> QED
  BY <1>1, AtType DEF FinalResponse

LEMMA CompleteIsComplete ==
  CompleteJob.is = "complete"
BY DEF CompleteJob

\* The completion is made of what does not change once the job is told.
LEMMA CompleteSame ==
  ASSUME UNCHANGED <<effort, fullResponse, reasoningContent, accToolCalls>>
  PROVE  CompleteJob' = CompleteJob
<1>1. Structured' = Structured
  BY DEF Structured
<1>2. FinalResponse' = FinalResponse
  BY DEF FinalResponse
<1> QED
  BY <1>1, <1>2 DEF CompleteJob

\* A step of a job that is not over, which says nothing.
LEMMA StillUntold ==
  ASSUME ExecInv, phase # "over", UNCHANGED completion
  PROVE  TellingInv'
<1>1. completion.is = "none" \/ completion.is # "none"
  OBVIOUS
<1>2. completion.is = "none"
  BY DEF ExecInv, TellingInv
<1>3. completion'.is = "none"
  BY <1>2
<1> QED
  BY <1>3 DEF TellingInv

LEMMA ShownAgain ==
  ASSUME ExecInv, UNCHANGED <<effort, shown, fullResponse, inCall>>
  PROVE  ShownInv'
BY DEF ExecInv, ShownInv

LEMMA ExecTyped ==
  ASSUME ExecInv
  PROVE  /\ image \in BOOLEAN /\ effort \in {"none", "high"} /\ history \in Seq(Turns) /\ request \in Seq(Turns)
         /\ Len(request) <= Len(history) /\ phase \in {"new", "streaming", "over"} /\ stopped \in {"no", "cancelled", "timeout"}
         /\ chunks \in Nat /\ chunks \in 0 .. MaxChunks /\ inThink \in BOOLEAN /\ inCall \in BOOLEAN /\ inCallThought \in BOOLEAN
         /\ fullResponse \in Seq(Pieces) /\ reasoningContent \in Seq(Pieces) /\ shown \in Seq(Pieces) /\ thought \in Seq(Pieces)
         /\ accToolCalls \in [Indices -> 0 .. MaxChunks] /\ \A i \in Indices : accToolCalls[i] <= chunks
BY ExecutorAssumption DEF ExecInv, ExecTypeOK

LEMMA ExecStarts ==
  ASSUME ExecutorInit PROVE ExecInv
<1>1. history \in Seq(Turns) /\ request \in Seq(Turns) /\ Len(request) <= Len(history)
  <2>1. history \in Seq(Turns) /\ request = <<>>
    BY HistoriesTyped DEF ExecutorInit
  <2>2. Len(<<>>) = 0 /\ <<>> \in Seq(Turns) /\ Len(history) \in Nat
    BY <2>1
  <2> QED  BY <2>1, <2>2
<1>2. /\ fullResponse \in Seq(Pieces) /\ reasoningContent \in Seq(Pieces) /\ shown \in Seq(Pieces) /\ thought \in Seq(Pieces)
  BY TextsStartEmpty DEF ExecutorInit
<1>3. /\ accToolCalls \in [Indices -> 0 .. MaxChunks] /\ chunks = 0 /\ \A i \in Indices : accToolCalls[i] <= chunks
  BY ExecutorAssumption DEF ExecutorInit
<1>4. completion.is = "none"
  BY DEF ExecutorInit
<1>5. ExecTypeOK
  <2>0. /\ phase = "new" /\ stopped = "no" /\ chunks = 0
        /\ image \in BOOLEAN /\ inThink = FALSE /\ inCall = FALSE /\ inCallThought = FALSE /\ effort \in {"none", "high"}
    BY Zenon DEF ExecutorInit
  <2>1. /\ phase \in {"new", "streaming", "over"} /\ stopped \in {"no", "cancelled", "timeout"} /\ chunks \in 0 .. MaxChunks
        /\ image \in BOOLEAN /\ inThink \in BOOLEAN /\ inCall \in BOOLEAN /\ inCallThought \in BOOLEAN /\ effort \in {"none", "high"}
    <3>1. 0 \in 0 .. MaxChunks
      BY ExecutorAssumption
    <3>2. inThink \in BOOLEAN /\ inCall \in BOOLEAN /\ inCallThought \in BOOLEAN
      BY <2>0
    <3>3. phase \in {"new", "streaming", "over"} /\ stopped \in {"no", "cancelled", "timeout"}
      BY <2>0
    <3> QED  BY <2>0, <3>1, <3>2, <3>3, Zenon
  <2> QED  BY <1>1, <1>2, <1>3, <1>4, <2>1 DEF ExecTypeOK
<1>6. ShownInv
  BY TextsStartEmpty DEF ShownInv, ExecutorInit
<1>7. TellingInv
  BY <1>4 DEF TellingInv
<1> QED
  BY <1>3, <1>5, <1>6, <1>7 DEF ExecInv, ExecutorInit

\* A chunk of content.
LEMMA ContentIsShown ==
  ASSUME ExecInv, NEW chunk \in ContentChunks, ContentChunk(chunk)
  PROVE  ExecInv'
<1> DEFINE parts == Split(chunk)
           answer == parts.answer
           hides == inCall \/ (answer # <<>> /\ Opens(LastOf(fullResponse) \o answer))
           thinks == IF effort = "none" THEN <<>> ELSE parts.thinking
<1>1. /\ phase = "streaming" /\ chunks < MaxChunks /\ chunks' = chunks + 1
      /\ UNCHANGED <<image, effort, history, request, phase, stopped, completion>>
      /\ inThink' = parts.in /\ inCall' = hides /\ fullResponse' = fullResponse \o answer
      /\ shown' = (IF hides THEN shown ELSE shown \o answer)
      /\ reasoningContent' = reasoningContent \o thinks
      /\ thought' = (IF inCallThought THEN thought ELSE thought \o thinks)
      /\ UNCHANGED <<inCallThought, accToolCalls>>
  BY DEF ContentChunk, Chunk
<1>2. parts.in \in BOOLEAN /\ parts.thinking \in Seq(Pieces) /\ answer \in Seq(Pieces)
  BY ChunkPieces, SplitPieces, ExecTyped
<1>3. thinks \in Seq(Pieces)
  BY <1>2, TextsStartEmpty
<1>4. hides \in BOOLEAN
  OBVIOUS
<1> HIDE DEF parts, answer, hides, thinks
<1>5. /\ fullResponse' \in Seq(Pieces) /\ shown' \in Seq(Pieces) /\ reasoningContent' \in Seq(Pieces) /\ thought' \in Seq(Pieces)
  <2>1. /\ fullResponse \o answer \in Seq(Pieces) /\ shown \o answer \in Seq(Pieces)
        /\ reasoningContent \o thinks \in Seq(Pieces) /\ thought \o thinks \in Seq(Pieces)
    BY <1>2, <1>3, ExecTyped, TextsJoin
  <2> QED  BY <1>1, <2>1, ExecTyped
<1>6. chunks' \in 0 .. MaxChunks /\ \A i \in Indices : accToolCalls'[i] <= chunks'
  BY <1>1, ExecTyped, ExecutorAssumption DEF Indices
<1>7. ExecTypeOK'
  <2>1. completion.is \in {"none", "error", "complete"}
    BY DEF ExecInv, ExecTypeOK
  <2> QED  BY <1>1, <1>2, <1>4, <1>5, <1>6, <2>1, ExecTyped DEF ExecTypeOK
<1>8. TellingInv'
  BY <1>1, StillUntold
<1>9. ShownInv'
  <2> SUFFICES ASSUME effort # "none"
      PROVE  Begins(shown', fullResponse') /\ ~HasOpening(shown') /\ (inCall' \/ shown' = fullResponse')
    BY <1>1 DEF ShownInv
  <2>1. Begins(shown, fullResponse) /\ ~HasOpening(shown) /\ (inCall \/ shown = fullResponse)
    BY DEF ExecInv, ShownInv
  <2>2. CASE hides
    <3>1. Begins(shown, fullResponse \o answer)
      BY <1>2, <2>1, ExecTyped, TextsJoin
    <3> QED  BY <1>1, <2>1, <2>2, <3>1
  <2>3. CASE ~hides
    <3>1. ~inCall /\ shown = fullResponse
      BY <2>1, <2>3 DEF hides
    <3>2. shown' = fullResponse' /\ shown' = shown \o answer
      BY <1>1, <2>3, <3>1
    <3>3. Begins(shown', fullResponse')
      BY <1>5, <3>2 DEF Begins
    <3>4. CASE answer = <<>>
      <4>1. shown \o <<>> = shown
        BY ExecTyped, ConcatEmptySeq
      <4> QED  BY <2>1, <3>2, <3>3, <3>4, <4>1
    <3>5. CASE answer # <<>>
      <4>1. ~HasOpening(LastOf(shown) \o answer)
        BY <2>3, <3>1, <3>5 DEF hides, Opens
      <4>2. ~HasOpening(shown \o answer)
        BY <1>2, <2>1, <4>1, ExecTyped, NoOpeningAcross
      <4> QED  BY <3>2, <3>3, <4>2
    <3> QED  BY <3>4, <3>5
  <2> QED  BY <2>2, <2>3
<1> QED
  BY <1>1, <1>6, <1>7, <1>8, <1>9 DEF ExecInv

\* A chunk of reasoning: where thinking is suppressed it joins the answer.
LEMMA ReasoningIsTold ==
  ASSUME ExecInv, NEW chunk \in ReasoningChunks, ReasoningChunk(chunk)
  PROVE  ExecInv'
<1>1. /\ phase = "streaming" /\ chunks < MaxChunks /\ chunks' = chunks + 1
      /\ UNCHANGED <<image, effort, history, request, phase, stopped, completion>>
      /\ UNCHANGED <<inThink, inCall, shown, accToolCalls>>
  BY DEF ReasoningChunk, Chunk
<1>2. chunk \in Seq(Pieces)
  BY ChunkPieces
<1>3. /\ fullResponse \o chunk \in Seq(Pieces) /\ reasoningContent \o chunk \in Seq(Pieces)
      /\ thought \o chunk \in Seq(Pieces)
  BY <1>2, ExecTyped, TextsJoin
<1>4. /\ fullResponse' = IF effort = "none" THEN fullResponse \o chunk ELSE fullResponse
      /\ reasoningContent' \in {reasoningContent, reasoningContent \o chunk}
      /\ thought' \in {thought, thought \o chunk}
      /\ inCallThought' \in BOOLEAN
  <2>1. CASE effort = "none"
    BY <2>1, ExecTyped DEF ReasoningChunk
  <2>2. CASE effort # "none"
    BY <2>2, ExecTyped DEF ReasoningChunk
  <2> QED  BY <2>1, <2>2
<1>5. /\ fullResponse' \in Seq(Pieces) /\ reasoningContent' \in Seq(Pieces) /\ thought' \in Seq(Pieces)
  BY <1>3, <1>4, ExecTyped
<1>6. chunks' \in 0 .. MaxChunks /\ \A i \in Indices : accToolCalls'[i] <= chunks'
  BY <1>1, ExecTyped, ExecutorAssumption DEF Indices
<1>7. ExecTypeOK'
  <2>1. completion.is \in {"none", "error", "complete"}
    BY DEF ExecInv, ExecTypeOK
  <2> QED  BY <1>1, <1>4, <1>5, <1>6, <2>1, ExecTyped DEF ExecTypeOK
<1>8. TellingInv'
  BY <1>1, StillUntold
<1>9. ShownInv'
  BY <1>1, <1>4 DEF ExecInv, ShownInv
<1> QED
  BY <1>1, <1>6, <1>7, <1>8, <1>9 DEF ExecInv

\* A fragment of a structured call.
LEMMA DeltaIsCounted ==
  ASSUME ExecInv, NEW i \in Indices, ToolCallDelta(i)
  PROVE  ExecInv'
<1>1. /\ phase = "streaming" /\ chunks < MaxChunks /\ chunks' = chunks + 1
      /\ UNCHANGED <<image, effort, history, request, phase, stopped, completion>>
      /\ accToolCalls' = [accToolCalls EXCEPT ![i] = @ + 1]
      /\ UNCHANGED <<inThink, inCall, inCallThought, fullResponse, reasoningContent, shown, thought>>
  BY DEF ToolCallDelta, Chunk
<1>2. /\ chunks' \in 0 .. MaxChunks /\ accToolCalls' \in [Indices -> 0 .. MaxChunks]
      /\ \A k \in Indices : accToolCalls'[k] <= chunks'
  <2>1. \A k \in Indices : accToolCalls[k] \in 0 .. MaxChunks /\ accToolCalls[k] <= chunks
    BY ExecTyped
  <2>2. /\ accToolCalls' \in [Indices -> Nat]
        /\ \A k \in Indices : accToolCalls'[k] = IF k = i THEN accToolCalls[k] + 1 ELSE accToolCalls[k]
    BY <1>1, <2>1, ExecTyped, ExecutorAssumption
  <2>3. \A k \in Indices : accToolCalls'[k] <= chunks' /\ accToolCalls'[k] \in 0 .. MaxChunks
    BY <1>1, <2>1, <2>2, ExecTyped, ExecutorAssumption
  <2> QED  BY <1>1, <2>2, <2>3, ExecTyped, ExecutorAssumption
<1>3. ExecTypeOK'
  <2>1. completion.is \in {"none", "error", "complete"}
    BY DEF ExecInv, ExecTypeOK
  <2> QED  BY <1>1, <1>2, <2>1, ExecTyped DEF ExecTypeOK
<1>4. TellingInv'
  BY <1>1, StillUntold
<1>5. ShownInv'
  BY <1>1, ShownAgain
<1> QED
  BY <1>1, <1>2, <1>3, <1>4, <1>5 DEF ExecInv

\* Any other step leaves the texts and the calls as they are.
LEMMA TextsStay ==
  ASSUME ExecInv, Streams \/ UNCHANGED execvars \/ (\E why \in {"cancelled", "timeout"} : StopStream(why)),
         UNCHANGED <<image, effort, history>>,
         stopped' \in {"no", "cancelled", "timeout"}, phase' \in {"new", "streaming", "over"},
         request' \in Seq(Turns), Len(request') <= Len(history), phase' = "new" => request' = <<>>,
         completion'.is \in {"none", "error", "complete"}, TellingInv'
  PROVE  ExecInv'
<1>1. UNCHANGED <<chunks, inThink, inCall, inCallThought, fullResponse, reasoningContent, shown, thought, accToolCalls>>
  BY DEF Streams, execvars, StopStream
<1>2. ExecTypeOK'
  BY <1>1, ExecTyped DEF ExecTypeOK
<1>3. ShownInv'
  BY <1>1, ShownAgain
<1> QED
  BY <1>1, <1>2, <1>3, ExecTyped DEF ExecInv

LEMMA ToldOnce ==
  ASSUME ExecInv, NEW answer, Tell(answer), image => answer.is \in {"none", "error", "complete"},
         ~image => answer.is \in {"none", "error"} \/ answer = CompleteJob, Streams, UNCHANGED <<image, effort>>
  PROVE  completion'.is \in {"none", "error", "complete"} /\ phase' = "over" /\ TellingInv'
<1>1. phase' = "over" /\ completion' = answer
  BY DEF Tell
<1>2. CompleteJob' = CompleteJob
  BY CompleteSame DEF Streams
<1> QED
  BY <1>1, <1>2, CompleteIsComplete, ExecTyped DEF TellingInv

LEMMA ExecSteps ==
  ASSUME ExecInv, ExecutorNext
  PROVE  ExecInv'
<1>1. ASSUME ExecuteJob PROVE ExecInv'
  <2>1. phase = "new" /\ ~image /\ Streams /\ UNCHANGED <<image, effort, history>>
    BY <1>1 DEF ExecuteJob
  <2>2. request' \in Seq(Turns) /\ Len(request') <= Len(history)
    <3>1. request' = request \/ request' = Truncated(history)
      BY <1>1 DEF ExecuteJob
    <3> QED  BY <3>1, ExecTyped, TruncatedShortens
  <2>3. Fail \/ (phase' = "streaming" /\ UNCHANGED completion)
    BY <1>1 DEF ExecuteJob
  <2>4. CASE Fail
    <3>1. Tell([is |-> "error"])
      BY <2>4 DEF Fail
    <3>2. completion'.is \in {"none", "error", "complete"} /\ phase' = "over" /\ TellingInv'
      <4>1. PICK answer : answer = [is |-> "error"]
        OBVIOUS
      <4>2. answer.is = "error"
        BY <4>1
      <4> QED  BY <2>1, <3>1, <4>1, <4>2, ToldOnce
    <3> QED  BY <2>1, <2>2, <3>2, ExecTyped, TextsStay DEF Streams
  <2>5. CASE phase' = "streaming" /\ UNCHANGED completion
    <3>1. TellingInv'
      BY <2>1, <2>5, StillUntold
    <3>2. completion'.is \in {"none", "error", "complete"}
      BY <2>5 DEF ExecInv, ExecTypeOK
    <3> QED  BY <2>1, <2>2, <2>5, <3>1, <3>2, ExecTyped, TextsStay DEF Streams
  <2> QED  BY <2>3, <2>4, <2>5
<1>2. ASSUME NEW answer, Tell(answer), image => answer.is \in {"none", "error", "complete"},
             ~image => answer.is \in {"none", "error"} \/ answer = CompleteJob, Streams, UNCHANGED inputs
      PROVE ExecInv'
  <2>1. completion'.is \in {"none", "error", "complete"} /\ phase' = "over" /\ TellingInv'
    BY <1>2, ToldOnce DEF inputs
  <2> QED  BY <1>2, <2>1, ExecTyped, TextsStay DEF Streams, inputs
<1>3. ASSUME ExecuteImage PROVE ExecInv'
  <2>1. PICK error : error = [is |-> "error"]
    OBVIOUS
  <2>10. error.is = "error"
    BY <2>1
  <2>2. PICK picture : picture = [is |-> "complete", response |-> <<"image">>, reasoning |-> <<>>, calls |-> <<>>]
    OBVIOUS
  <2>20. picture.is = "complete"
    BY <2>2
  <2>3. (Tell(picture) \/ Tell(error)) /\ image /\ Streams /\ UNCHANGED inputs
    BY <1>3, <2>1, <2>2 DEF ExecuteImage, Fail
  <2> QED  BY <1>2, <2>10, <2>20, <2>3
<1>4. ASSUME StreamError PROVE ExecInv'
  <2>1. PICK error : error = [is |-> "error"]
    OBVIOUS
  <2>10. error.is = "error"
    BY <2>1
  <2>2. Tell(error) /\ Streams /\ UNCHANGED inputs
    BY <1>4, <2>1 DEF StreamError, Fail
  <2> QED  BY <1>2, <2>10, <2>2
<1>5. ASSUME SendComplete PROVE ExecInv'
  <2>1. PICK answer : answer = IF stopped = "no" THEN CompleteJob ELSE [is |-> "none"]
    OBVIOUS
  <2>2. Tell(answer) /\ Streams /\ UNCHANGED inputs
    BY <1>5, <2>1 DEF SendComplete
  <2>3. answer.is \in {"none", "complete"} /\ (answer.is = "none" \/ answer = CompleteJob)
    BY <2>1, CompleteIsComplete
  <2> QED  BY <1>2, <2>2, <2>3
<1>6. ASSUME NEW why \in {"cancelled", "timeout"}, StopStream(why) PROVE ExecInv'
  <2>1. /\ phase = "streaming" /\ stopped' = why
        /\ UNCHANGED <<image, effort, history, request, phase, completion>>
    BY <1>6 DEF StopStream
  <2>2. TellingInv'
    BY <2>1, StillUntold
  <2>3. completion'.is \in {"none", "error", "complete"}
    BY <2>1 DEF ExecInv, ExecTypeOK
  <2>4. \E reason \in {"cancelled", "timeout"} : StopStream(reason)
    BY <1>6
  <2>5. stopped' \in {"no", "cancelled", "timeout"} /\ phase' \in {"new", "streaming", "over"} /\ phase' # "new"
        /\ request' \in Seq(Turns) /\ Len(request') <= Len(history)
    BY <2>1, ExecTyped
  <2> QED  BY <2>1, <2>2, <2>3, <2>4, <2>5, TextsStay
<1> QED
  BY <1>1, <1>3, <1>4, <1>5, <1>6, ContentIsShown, ReasoningIsTold, DeltaIsCounted DEF ExecutorNext

LEMMA ExecStutters ==
  ASSUME ExecInv, UNCHANGED execvars
  PROVE  ExecInv'
<1>1. /\ UNCHANGED <<image, effort, history, request, phase, stopped, completion>>
      /\ UNCHANGED <<effort, fullResponse, reasoningContent, accToolCalls>>
  BY DEF execvars
<1>2. TellingInv'
  <2>1. CompleteJob' = CompleteJob
    BY <1>1, CompleteSame
  <2>2. TellingInv
    BY DEF ExecInv
  <2> QED  BY <1>1, <2>1, <2>2 DEF TellingInv
<1>3. completion'.is \in {"none", "error", "complete"}
  BY <1>1 DEF ExecInv, ExecTypeOK
<1>4. phase' = "new" => request' = <<>>
  BY <1>1 DEF ExecInv
<1> QED
  BY <1>1, <1>2, <1>3, <1>4, ExecTyped, TextsStay

LEMMA ExecInductive ==
  ExecutorSpec => []ExecInv
<1>1. ExecInv /\ [ExecutorNext]_execvars => ExecInv'
  BY ExecSteps, ExecStutters
<1> QED
  BY <1>1, ExecStarts, PTL DEF ExecutorSpec

\* What the caller is shown begins the answer the router is told, is all of it
\* until a call was opened, and shows no opening of a call, in whatever pieces the
\* model's text arrives (Executor.Execute, its look-back over the chunk border).
THEOREM TokensAreTheAnswer == ExecutorSpec => []ShownIsAnswered
<1>1. ASSUME ExecInv PROVE ShownIsAnswered
  <2> SUFFICES ASSUME effort # "none" PROVE
        /\ IsPrefix(shown, fullResponse) /\ ~HasOpening(shown) /\ (inCall \/ shown = fullResponse)
        /\ completion.is = "complete" /\ ~image /\ ~inCall => completion.response = shown
    BY DEF ShownIsAnswered
  <2>1. Begins(shown, fullResponse) /\ ~HasOpening(shown) /\ (inCall \/ shown = fullResponse)
    BY <1>1 DEF ExecInv, ShownInv
  <2>2. IsPrefix(shown, fullResponse)
    BY <1>1, <2>1, ExecTyped, BeginsIsPrefix
  <2>3. ASSUME completion.is = "complete", ~image, ~inCall PROVE completion.response = shown
    <3>1. FinalResponse = shown /\ completion = CompleteJob
      BY <1>1, <2>1, <2>3 DEF FinalResponse, ExecInv, TellingInv
    <3>2. Extracted(FinalResponse).rest = FinalResponse
      BY <1>1, <2>1, <3>1, ExecTyped, NothingExtracted
    <3> QED  BY <3>1, <3>2 DEF CompleteJob
  <2> QED  BY <2>1, <2>2, <2>3
<1> QED
  BY <1>1, ExecInductive, PTL

\* A call the model wrote is taken out of its text if and only if it is reported,
\* in whichever of the three forms it came (Executor.Execute, executor.go:497-560).
THEOREM CallsAreAccounted == ExecutorSpec => []CallsAccounted
<1>1. ASSUME ExecInv PROVE CallsAccounted
  <2> SUFFICES ASSUME completion.is = "complete", ~image PROVE
        /\ Len(completion.calls) = IF Structured # <<>> THEN Len(Structured)
                                  ELSE TakenOut(FinalResponse, completion.response) + TakenOut(reasoningContent, completion.reasoning)
        /\ completion.response = FinalResponse \/ completion.reasoning = reasoningContent
        /\ Structured # <<>> => completion.response = FinalResponse /\ completion.reasoning = reasoningContent
        /\ completion.calls = <<>> => WrittenCalls(FinalResponse) + WrittenCalls(reasoningContent) = 0
    BY DEF CallsAccounted
  <2>1. completion = CompleteJob
    BY <1>1 DEF ExecInv, TellingInv
  <2>2. PICK a \in Seq(Pieces) : a = FinalResponse
    BY <1>1, AnswerIsText DEF ExecInv
  <2>3. PICK r \in Seq(Pieces) : r = reasoningContent
    BY <1>1, ExecTyped
  <2>4. PICK m \in Nat : m = WrittenCalls(a)
    BY CallsExtracted
  <2>5. PICK n \in Nat : n = WrittenCalls(r)
    BY CallsExtracted
  <2>6. PICK A : A = Extracted(a)
    OBVIOUS
  <2>7. PICK R : R = Extracted(r)
    OBVIOUS
  <2>8. Len(A.calls) = m /\ (A.rest = a <=> A.calls = <<>>) /\ (A.calls = <<>> <=> m = 0)
    <3>1. Len(A.calls) = m /\ (A.rest = a <=> A.calls = <<>>) /\ A.calls \in Seq(Pieces)
      BY <2>4, <2>6, CallsExtracted
    <3> QED  BY <3>1
  <2>9. Len(R.calls) = n /\ (R.rest = r <=> R.calls = <<>>) /\ (R.calls = <<>> <=> n = 0)
    <3>1. Len(R.calls) = n /\ (R.rest = r <=> R.calls = <<>>) /\ R.calls \in Seq(Pieces)
      BY <2>5, <2>7, CallsExtracted
    <3> QED  BY <3>1
  <2>10. PICK T : T = Structured
    OBVIOUS
  <2>11. CASE T # <<>>
    <3>1. completion.response = a /\ completion.reasoning = r /\ completion.calls = T
      BY <2>1, <2>2, <2>3, <2>10, <2>11 DEF CompleteJob
    <3> QED  BY <2>2, <2>3, <2>10, <2>11, <3>1
  <2>12. CASE T = <<>> /\ R.calls # <<>>
    <3>1. completion.response = a /\ completion.reasoning = R.rest /\ completion.calls = R.calls
      BY <2>1, <2>2, <2>3, <2>7, <2>10, <2>12 DEF CompleteJob
    <3>2. TakenOut(a, completion.response) = 0 /\ TakenOut(r, completion.reasoning) = n
      BY <2>5, <2>9, <2>12, <3>1 DEF TakenOut
    <3> QED  BY <2>2, <2>3, <2>9, <2>10, <2>12, <3>1, <3>2
  <2>13. CASE T = <<>> /\ R.calls = <<>>
    <3>1. completion.response = A.rest /\ completion.reasoning = r /\ completion.calls = A.calls
      BY <2>1, <2>2, <2>3, <2>6, <2>7, <2>10, <2>13 DEF CompleteJob
    <3>2. TakenOut(a, completion.response) = m /\ TakenOut(r, completion.reasoning) = 0
      BY <2>4, <2>8, <3>1 DEF TakenOut
    <3>3. A.calls = <<>> => m + n = 0
      BY <2>8, <2>9, <2>13
    <3> QED  BY <2>2, <2>3, <2>4, <2>5, <2>8, <2>10, <2>13, <3>1, <3>2, <3>3
  <2> QED  BY <2>11, <2>12, <2>13
<1> QED
  BY <1>1, ExecInductive, PTL
=============================================================================
