------------------------------ MODULE Dispatch ------------------------------
(***************************************************************************)
(* How the router gives GPU jobs to workers: the Redis job stream and its  *)
(* consumer group, one job reader and one message loop per worker          *)
(* connection, the heartbeat keys, and the sweeper that moves the pending  *)
(* entries of dead consumers to live ones.  The configuration modelled is  *)
(* the one without a tools key (h.tools = nil), in which a completion is   *)
(* always final; the continuation pipeline has a module of its own.        *)
(*                                                                         *)
(* Job n is the n-th XADD, so a job, its stream entry and its position in  *)
(* the stream are one number.  A connection has a random id of its own     *)
(* (newWorkerID), so a worker that reconnects is a new member of Conns.    *)
(* Every Redis command is atomic; a step of a goroutine contains at most   *)
(* one command, or the local updates between two commands.  One step reads *)
(* more: the sweeper's XPENDING and IsAlive checks, which write nothing.   *)
(***************************************************************************)
EXTENDS Naturals, FiniteSets

CONSTANTS
  Conns,        \* worker connections, live one after or beside the other
  NoConn,       \* no consumer: the entry is in nobody's pending list
  NumJobs,      \* bound: jobs the API handlers enqueue
  SlowJobs,     \* bound: jobs that may stay unanswered beyond JobTimeout,
                \* the router's and the worker's
  SlotCounts,   \* parallelism a worker may announce (TotalSlots)
  PendingBatch, \* COUNT of ReadPending
  ClaimBatch,   \* COUNT of the sweeper's XPENDING
  Timely        \* the timing the comments promise: a connected worker always
                \* has its heartbeat key, and cancelling a reader's context
                \* ends its blocking read at once

ASSUME ConnsAssumption == NoConn \notin Conns
ASSUME JobsAssumption  == NumJobs \in Nat
ASSUME SlowAssumption  == SlowJobs \subseteq 1 .. NumJobs
ASSUME SlotsAssumption == SlotCounts \subseteq Nat \ {0}
ASSUME BatchAssumption == PendingBatch \in Nat \ {0} /\ ClaimBatch \in Nat \ {0}
ASSUME TimelyAssumption == Timely \in BOOLEAN

Jobs == 1 .. NumJobs

VARIABLES
  added,          \* XADDs so far
  lastDelivered,  \* the group's last-delivered-id
  inStream,       \* entries XADDed and not yet XDELed
  pel,            \* the consumer whose pending list holds the entry
  beat,           \* consumers whose heartbeat key exists
  answered,       \* the terminal event the caller reads, the first published;
                  \* "unsent" when the router dropped the job without one
  status,         \* life of a connection
  slots,          \* wc.maxSlots and the pool's MaxSlots
  active,         \* wc.activeJobs
  stale,          \* active jobs assigned longer than JobTimeout ago
  poolConns,      \* the workers in gpu.Pool
  poolJobs,       \* their ActiveJobs
  reader,         \* the jobReaderLoop goroutine
  handler,        \* the messageLoop goroutine
  running,        \* jobs the worker process holds and has not answered
  sweeper         \* the sweep goroutine

redisVars   == <<added, lastDelivered, inStream, pel>>
trackVars   == <<slots, active, stale, poolConns, poolJobs>>
vars == <<redisVars, beat, answered, status, trackVars, reader, handler,
          running, sweeper>>

Statuses == {"absent", "connected", "broken", "closing", "closed"}
Replies  == {"done", "error", "timeout", "unsent"}
ReaderPCs  == {"off", "top", "expire", "expireXack", "expireXdel",
               "expirePublish", "pending", "dispatch", "send", "block"}
HandlerPCs == {"idle", "untrack", "xack", "xdel", "publish"}
SweeperPCs == {"idle", "live", "list", "claim", "delete"}

NoJob == 0

\* The n smallest of a finite set of numbers: what a ranged read with COUNT n
\* returns, in the order of the stream ids.
First(n, S)   == {j \in S : Cardinality({k \in S : k < j}) < n}
IsFirst(j, S) == j \in S /\ \A k \in S : j <= k

Cancelled(w)   == status[w] \in {"closing", "closed"}
HasCapacity(w) == Cardinality(active[w]) < slots[w]
PendingOf(w)   == {j \in Jobs : pel[j] = w}

Init ==
  /\ added = 0
  /\ lastDelivered = 0
  /\ inStream = {}
  /\ pel = [j \in Jobs |-> NoConn]
  /\ beat = {}
  /\ answered = [j \in Jobs |-> "none"]
  /\ status = [w \in Conns |-> "absent"]
  /\ slots = [w \in Conns |-> 0]
  /\ active = [w \in Conns |-> {}]
  /\ stale = [w \in Conns |-> {}]
  /\ poolConns = {}
  /\ poolJobs = [w \in Conns |-> {}]
  /\ reader = [w \in Conns |-> [pc |-> "off", todo |-> {}, job |-> NoJob]]
  /\ handler = [w \in Conns |-> [pc |-> "idle", job |-> NoJob, kind |-> "done"]]
  /\ running = [w \in Conns |-> {}]
  /\ sweeper = [pc |-> "idle", dead |-> {}, live |-> {}, from |-> NoConn, ids |-> {}]

-----------------------------------------------------------------------------
(* Pieces the steps share.                                                 *)

\* Publish of a terminal event; the caller stops at the first.
Publish(j, reply) ==
  answered' = [answered EXCEPT ![j] = IF @ = "none" THEN reply ELSE @]

\* The two commands of JobQueue.Ack.
XAck(j) == pel' = [pel EXCEPT ![j] = NoConn]
XDel(j) == inStream' = inStream \ {j}

\* wc.completeJob: forget the assignment.
Untrack(w, j) ==
  /\ active' = [active EXCEPT ![w] = @ \ {j}]
  /\ stale'  = [stale EXCEPT ![w] = @ \ {j}]

\* pool.AssignJob, whose error the caller drops, and pool.CompleteJob.
PoolAssign(w, j) ==
  poolJobs' = IF w \in poolConns /\ Cardinality(poolJobs[w]) < slots[w]
              THEN [poolJobs EXCEPT ![w] = @ \cup {j}]
              ELSE poolJobs
PoolComplete(w, j) == poolJobs' = [poolJobs EXCEPT ![w] = @ \ {j}]

ReaderAt(w, pc, todo, j) ==
  reader' = [reader EXCEPT ![w] = [pc |-> pc, todo |-> todo, job |-> j]]
HandlerAt(w, pc, j, kind) ==
  handler' = [handler EXCEPT ![w] = [pc |-> pc, job |-> j, kind |-> kind]]
HandlerGoes(w, pc) == HandlerAt(w, pc, handler[w].job, handler[w].kind)

-----------------------------------------------------------------------------
(* The API side and the connection.                                        *)

\* enqueueJob: XADD, when a request arrives.
Enqueue ==
  /\ added < NumJobs
  /\ added' = added + 1
  /\ inStream' = inStream \cup {added + 1}
  /\ UNCHANGED <<lastDelivered, pel, beat, answered, status, trackVars, reader,
                 handler, running, sweeper>>

\* A worker's hello: it enters the pool and the goroutines start.  The first
\* Ping runs in a goroutine started after the reader's.
Connect(w, n) ==
  /\ status[w] = "absent"
  /\ status' = [status EXCEPT ![w] = "connected"]
  /\ slots' = [slots EXCEPT ![w] = n]
  /\ poolConns' = poolConns \cup {w}
  /\ ReaderAt(w, "top", {}, NoJob)
  /\ beat' = IF Timely THEN beat \cup {w} ELSE beat
  /\ UNCHANGED <<redisVars, answered, active, stale, poolJobs, handler,
                 running, sweeper>>

\* The same, when hello_ack cannot be sent: cleanup without any goroutine.
ConnectFails(w, n) ==
  /\ status[w] = "absent"
  /\ status' = [status EXCEPT ![w] = "closing"]
  /\ slots' = [slots EXCEPT ![w] = n]
  /\ poolConns' = poolConns \cup {w}
  /\ UNCHANGED <<redisVars, beat, answered, active, stale, poolJobs, reader,
                 handler, running, sweeper>>

\* Mutant: the heartbeat key is removed as soon as the link fails, before the
\* reader's context is cancelled.
LinkBreaksKeyFirst(w) ==
  /\ status[w] = "connected"
  /\ status' = [status EXCEPT ![w] = "broken"]
  /\ running' = [running EXCEPT ![w] = {}]
  /\ beat' = beat \ {w}
  /\ UNCHANGED <<redisVars, answered, trackVars, reader, handler, sweeper>>

\* The worker process or the network fails: its executions are gone.
LinkBreaks(w) ==
  /\ status[w] = "connected"
  /\ status' = [status EXCEPT ![w] = "broken"]
  /\ running' = [running EXCEPT ![w] = {}]
  /\ UNCHANGED <<redisVars, beat, answered, trackVars, reader, handler, sweeper>>

\* ReadMessage fails and cleanup begins: the goroutines' context is cancelled.
Disconnect(w) ==
  /\ status[w] = "broken"
  /\ handler[w].pc = "idle"
  /\ status' = [status EXCEPT ![w] = "closing"]
  /\ UNCHANGED <<redisVars, beat, answered, trackVars, reader, handler,
                 running, sweeper>>

\* The rest of cleanup: the heartbeat key, then the pool.
Cleanup(w) ==
  /\ status[w] = "closing"
  /\ status' = [status EXCEPT ![w] = "closed"]
  /\ beat' = beat \ {w}
  /\ poolConns' = poolConns \ {w}
  /\ poolJobs' = [poolJobs EXCEPT ![w] = {}]
  /\ UNCHANGED <<redisVars, answered, slots, active, stale, reader, handler,
                 running, sweeper>>

\* heartbeatLoop's Ping: the first one, and one per tick until cleanup.
Ping(w) ==
  /\ status[w] \in {"connected", "broken"}
  /\ w \notin beat
  /\ beat' = beat \cup {w}
  /\ UNCHANGED <<redisVars, answered, status, trackVars, reader, handler,
                 running, sweeper>>

\* The key's TTL passes: Redis was unreachable or the router stalled for
\* longer than DeadWorkerTimeout.
HeartbeatLapses(w) ==
  /\ ~Timely
  /\ w \in beat
  /\ beat' = beat \ {w}
  /\ UNCHANGED <<redisVars, answered, status, trackVars, reader, handler,
                 running, sweeper>>

\* A job stays unanswered for longer than JobTimeout.
Ages(w, j) ==
  /\ j \in SlowJobs
  /\ j \in active[w] \ stale[w]
  /\ stale' = [stale EXCEPT ![w] = @ \cup {j}]
  /\ UNCHANGED <<redisVars, beat, answered, status, slots, active, poolConns,
                 poolJobs, reader, handler, running, sweeper>>

\* The worker's own AUXOT_JOB_TIMEOUT ends an execution: its context is over,
\* so the executor returns and sends neither a completion nor an error.
EndsInSilence(w, j) ==
  /\ j \in SlowJobs
  /\ j \in running[w]
  /\ running' = [running EXCEPT ![w] = @ \ {j}]
  /\ UNCHANGED <<redisVars, beat, answered, status, trackVars, reader, handler,
                 sweeper>>

-----------------------------------------------------------------------------
(* jobReaderLoop.                                                          *)

\* The context checks at the top, in ReadPending, between two entries of a
\* batch and after the blocking read.
ReaderStops(w) ==
  /\ reader[w].pc \in {"top", "pending", "dispatch", "block"}
  /\ Cancelled(w)
  /\ ReaderAt(w, "off", {}, NoJob)
  /\ UNCHANGED <<redisVars, beat, answered, status, trackVars, handler,
                 running, sweeper>>

\* A free slot: only then are the stale jobs listed (staleJobs).
ReaderTop(w) ==
  /\ reader[w].pc = "top"
  /\ ~Cancelled(w)
  /\ HasCapacity(w)
  /\ ReaderAt(w, IF stale[w] = {} THEN "pending" ELSE "expire", stale[w], NoJob)
  /\ UNCHANGED <<redisVars, beat, answered, status, trackVars, handler,
                 running, sweeper>>

\* Mutant: an overdue job is forgotten and nobody is told.
ExpireUntrackOnly(w) ==
  /\ reader[w].pc = "expire"
  /\ \E j \in reader[w].todo :
       /\ Untrack(w, j)
       /\ ReaderAt(w, IF reader[w].todo = {j} THEN "pending" ELSE "expire",
                   reader[w].todo \ {j}, NoJob)
  /\ UNCHANGED <<redisVars, beat, answered, status, slots, poolConns, poolJobs,
                 handler, running, sweeper>>

\* expireStaleJobs, one job of the list at a time: completeJob, the two
\* commands of Ack, the error event, pool.CompleteJob.
ExpireUntrack(w) ==
  /\ reader[w].pc = "expire"
  /\ \E j \in reader[w].todo :
       /\ Untrack(w, j)
       /\ ReaderAt(w, "expireXack", reader[w].todo \ {j}, j)
  /\ UNCHANGED <<redisVars, beat, answered, status, slots, poolConns, poolJobs,
                 handler, running, sweeper>>

\* These commands carry the reader's context: once it is cancelled they fail
\* and the loop goes on.
ExpireXack(w) ==
  /\ reader[w].pc = "expireXack"
  /\ ~Cancelled(w)
  /\ XAck(reader[w].job)
  /\ ReaderAt(w, "expireXdel", reader[w].todo, reader[w].job)
  /\ UNCHANGED <<added, lastDelivered, inStream, beat, answered, status,
                 trackVars, handler, running, sweeper>>

\* XDEL, which a failure leaves undone: the entry is then never removed.
ExpireXdel(w) ==
  /\ reader[w].pc = "expireXdel"
  /\ IF Cancelled(w) THEN UNCHANGED inStream ELSE XDel(reader[w].job)
  /\ ReaderAt(w, "expirePublish", reader[w].todo, reader[w].job)
  /\ UNCHANGED <<added, lastDelivered, pel, beat, answered, status, trackVars,
                 handler, running, sweeper>>

NextExpiry(w) ==
  ReaderAt(w, IF reader[w].todo = {} THEN "pending" ELSE "expire",
           reader[w].todo, NoJob)

\* Mutant: the pool is left out.
ExpirePoolKept(w) ==
  /\ reader[w].pc = "expirePublish"
  /\ Publish(reader[w].job, IF Cancelled(w) THEN "unsent" ELSE "timeout")
  /\ NextExpiry(w)
  /\ UNCHANGED <<redisVars, beat, status, slots, active, stale, poolConns,
                 poolJobs, handler, running, sweeper>>

ExpirePublish(w) ==
  /\ reader[w].pc = "expirePublish"
  /\ Publish(reader[w].job, IF Cancelled(w) THEN "unsent" ELSE "timeout")
  /\ PoolComplete(w, reader[w].job)
  /\ NextExpiry(w)
  /\ UNCHANGED <<redisVars, beat, status, slots, active, stale, poolConns,
                 handler, running, sweeper>>

\* Cancelled before the XACK: neither it nor the event gets through, and the
\* entry stays pending.
ExpireFails(w) ==
  /\ reader[w].pc = "expireXack"
  /\ Cancelled(w)
  /\ PoolComplete(w, reader[w].job)
  /\ NextExpiry(w)
  /\ UNCHANGED <<redisVars, beat, answered, status, slots, active, stale,
                 poolConns, handler, running, sweeper>>

\* XREADGROUP 0: the consumer's own pending entries, those in flight too.
ReadPending(w) ==
  /\ reader[w].pc = "pending"
  /\ ~Cancelled(w)
  /\ LET batch == First(PendingBatch, PendingOf(w)) IN
       ReaderAt(w, IF batch = {} THEN "block" ELSE "dispatch", batch, NoJob)
  /\ UNCHANGED <<redisVars, beat, answered, status, trackVars, handler,
                 running, sweeper>>

\* Mutant: the read does not look whether there is anything new.
ReadNewUnchecked(w) ==
  /\ reader[w].pc = "block"
  /\ lastDelivered < NumJobs
  /\ lastDelivered' = lastDelivered + 1
  /\ pel' = [pel EXCEPT ![lastDelivered + 1] = w]
  /\ ReaderAt(w, "dispatch", {lastDelivered + 1}, NoJob)
  /\ UNCHANGED <<added, inStream, beat, answered, status, trackVars, handler,
                 running, sweeper>>

\* XREADGROUP >: Redis delivers the oldest new entry to the blocked reader,
\* whether or not the router still wants it.
ReadNew(w) ==
  /\ reader[w].pc = "block"
  /\ Timely => ~Cancelled(w)
  /\ lastDelivered < added
  /\ lastDelivered' = lastDelivered + 1
  /\ pel' = [pel EXCEPT ![lastDelivered + 1] = w]
  /\ ReaderAt(w, "dispatch", {lastDelivered + 1}, NoJob)
  /\ UNCHANGED <<added, inStream, beat, answered, status, trackVars, handler,
                 running, sweeper>>

\* The blocking read ends empty-handed only while there is nothing new.
ReadTimeout(w) ==
  /\ reader[w].pc = "block"
  /\ ~Cancelled(w)
  /\ lastDelivered = added
  /\ ReaderAt(w, "top", {}, NoJob)
  /\ UNCHANGED <<redisVars, beat, answered, status, trackVars, handler,
                 running, sweeper>>

\* Where the loop goes on after one entry of the batch.
NextEntry(w, todo) ==
  ReaderAt(w, IF todo = {} THEN "top" ELSE "dispatch", todo, NoJob)

\* dispatchToWorker up to pool.AssignJob: a job already tracked or one that
\* finds no free slot is skipped, any other takes a slot.
DispatchSkip(w) ==
  /\ reader[w].pc = "dispatch"
  /\ ~Cancelled(w)
  /\ \E j \in Jobs :
       /\ IsFirst(j, reader[w].todo)
       /\ j \in active[w] \/ ~HasCapacity(w)
       /\ NextEntry(w, reader[w].todo \ {j})
  /\ UNCHANGED <<redisVars, beat, answered, status, trackVars, handler,
                 running, sweeper>>

DispatchAssign(w) ==
  /\ reader[w].pc = "dispatch"
  /\ ~Cancelled(w)
  /\ \E j \in Jobs :
       /\ IsFirst(j, reader[w].todo)
       /\ j \notin active[w]
       /\ HasCapacity(w)
       /\ active' = [active EXCEPT ![w] = @ \cup {j}]
       /\ PoolAssign(w, j)
       /\ ReaderAt(w, "send", reader[w].todo \ {j}, j)
  /\ UNCHANGED <<redisVars, beat, answered, status, slots, stale, poolConns,
                 handler, running, sweeper>>

\* sendMessage reaches the worker, or is lost with a link that has just
\* failed.
Send(w) ==
  /\ reader[w].pc = "send"
  /\ running' = IF status[w] = "connected"
                THEN [running EXCEPT ![w] = @ \cup {reader[w].job}]
                ELSE running
  /\ NextEntry(w, reader[w].todo)
  /\ UNCHANGED <<redisVars, beat, answered, status, trackVars, handler, sweeper>>

\* sendMessage fails: the assignment is rolled back, the entry stays pending.
SendFails(w) ==
  /\ reader[w].pc = "send"
  /\ status[w] # "connected"
  /\ Untrack(w, reader[w].job)
  /\ PoolComplete(w, reader[w].job)
  /\ NextEntry(w, reader[w].todo)
  /\ UNCHANGED <<redisVars, beat, answered, status, slots, poolConns, handler,
                 running, sweeper>>

ReaderStep(w) ==
  \/ ReaderStops(w) \/ ReaderTop(w)
  \/ ExpireUntrack(w) \/ ExpireXack(w) \/ ExpireXdel(w) \/ ExpirePublish(w)
  \/ ExpireFails(w)
  \/ ReadPending(w) \/ ReadNew(w) \/ ReadTimeout(w)
  \/ DispatchSkip(w) \/ DispatchAssign(w) \/ Send(w) \/ SendFails(w)

-----------------------------------------------------------------------------
(* messageLoop.                                                            *)

\* handleConfig: pool.UpdateCapabilities and wc.maxSlots.
Reconfigure(w, n) ==
  /\ status[w] = "connected"
  /\ handler[w].pc = "idle"
  /\ slots[w] # n
  /\ slots' = [slots EXCEPT ![w] = n]
  /\ UNCHANGED <<redisVars, beat, answered, status, active, stale, poolConns,
                 poolJobs, reader, handler, running, sweeper>>

\* A completion is read: handleComplete up to completeJob, which returns the
\* entry to ACK when the job is still tracked, else up to the pool.
ReceiveComplete(w, j) ==
  /\ status[w] = "connected"
  /\ handler[w].pc = "idle"
  /\ j \in running[w]
  /\ running' = [running EXCEPT ![w] = @ \ {j}]
  /\ Untrack(w, j)
  /\ IF j \in active[w]
     THEN /\ HandlerAt(w, "xack", j, "done")
          /\ UNCHANGED poolJobs
     ELSE /\ HandlerAt(w, "publish", j, "done")
          /\ PoolComplete(w, j)
  /\ UNCHANGED <<redisVars, beat, answered, status, slots, poolConns, reader,
                 sweeper>>

\* Mutant: the error event is left to a later step that no longer has it.
ReceiveErrorUnpublished(w, j) ==
  /\ status[w] = "connected"
  /\ handler[w].pc = "idle"
  /\ j \in running[w]
  /\ running' = [running EXCEPT ![w] = @ \ {j}]
  /\ HandlerAt(w, "untrack", j, "error")
  /\ UNCHANGED <<redisVars, beat, answered, status, trackVars, reader, sweeper>>

\* An error is read: handleWorkerError publishes before it untracks.
ReceiveError(w, j) ==
  /\ status[w] = "connected"
  /\ handler[w].pc = "idle"
  /\ j \in running[w]
  /\ running' = [running EXCEPT ![w] = @ \ {j}]
  /\ Publish(j, "error")
  /\ HandlerAt(w, "untrack", j, "error")
  /\ UNCHANGED <<redisVars, beat, status, trackVars, reader, sweeper>>

\* Mutant: an error gives the slot back and leaves the entry pending.
HandlerUntrackUnacked(w) ==
  /\ handler[w].pc = "untrack"
  /\ Untrack(w, handler[w].job)
  /\ HandlerGoes(w, "idle")
  /\ PoolComplete(w, handler[w].job)
  /\ UNCHANGED <<redisVars, beat, answered, status, slots, poolConns, reader,
                 running, sweeper>>

HandlerUntrack(w) ==
  /\ handler[w].pc = "untrack"
  /\ Untrack(w, handler[w].job)
  /\ IF handler[w].job \in active[w]
     THEN HandlerGoes(w, "xack") /\ UNCHANGED poolJobs
     ELSE HandlerGoes(w, "idle") /\ PoolComplete(w, handler[w].job)
  /\ UNCHANGED <<redisVars, beat, answered, status, slots, poolConns, reader,
                 running, sweeper>>

\* Mutant: the two commands of Ack in the other order.
HandlerXdelFirst(w) ==
  /\ handler[w].pc = "xack"
  /\ XDel(handler[w].job)
  /\ HandlerGoes(w, "xdel")
  /\ UNCHANGED <<added, lastDelivered, pel, beat, answered, status,
                 trackVars, reader, running, sweeper>>

HandlerXack(w) ==
  /\ handler[w].pc = "xack"
  /\ XAck(handler[w].job)
  /\ HandlerGoes(w, "xdel")
  /\ UNCHANGED <<added, lastDelivered, inStream, beat, answered, status,
                 trackVars, reader, running, sweeper>>

\* XDEL, then the pool; an error was published before, a completion is now.
HandlerXdel(w) ==
  /\ handler[w].pc = "xdel"
  /\ XDel(handler[w].job)
  /\ PoolComplete(w, handler[w].job)
  /\ HandlerGoes(w, IF handler[w].kind = "done" THEN "publish" ELSE "idle")
  /\ UNCHANGED <<added, lastDelivered, pel, beat, answered, status, slots, active,
                 stale, poolConns, reader, running, sweeper>>

HandlerPublish(w) ==
  /\ handler[w].pc = "publish"
  /\ Publish(handler[w].job, "done")
  /\ HandlerGoes(w, "idle")
  /\ UNCHANGED <<redisVars, beat, status, trackVars, reader, running, sweeper>>

HandlerStep(w) ==
  \/ HandlerUntrack(w) \/ HandlerXack(w) \/ HandlerXdel(w) \/ HandlerPublish(w)

-----------------------------------------------------------------------------
(* The sweeper.                                                            *)

\* Mutant: every consumer with pending entries counts as dead.
SweepFindAny ==
  /\ sweeper.pc = "idle"
  /\ LET dead == {w \in Conns : PendingOf(w) # {}} IN
       /\ dead # {}
       /\ sweeper' = [sweeper EXCEPT !.pc = "live", !.dead = dead]
  /\ UNCHANGED <<redisVars, beat, answered, status, trackVars, reader, handler,
                 running>>

\* XPENDING and the IsAlive checks: consumers with pending entries and no key.
SweepFindDead ==
  /\ sweeper.pc = "idle"
  /\ LET dead == {w \in Conns : PendingOf(w) # {} /\ w \notin beat} IN
       /\ dead # {}
       /\ sweeper' = [sweeper EXCEPT !.pc = "live", !.dead = dead]
  /\ UNCHANGED <<redisVars, beat, answered, status, trackVars, reader, handler,
                 running>>

SweepIdle == [pc |-> "idle", dead |-> {}, live |-> {}, from |-> NoConn, ids |-> {}]

\* LiveWorkerIDs, then the loop over the dead in no particular order.
SweepFindLive ==
  /\ sweeper.pc = "live"
  /\ sweeper' = IF beat = {} THEN SweepIdle
                ELSE [sweeper EXCEPT !.pc = "list", !.live = beat]
  /\ UNCHANGED <<redisVars, beat, answered, status, trackVars, reader, handler,
                 running>>

\* XPENDING of one dead consumer; an empty list goes straight to deletion.
SweepList(from) ==
  /\ sweeper.pc = "list"
  /\ from \in sweeper.dead
  /\ LET ids == First(ClaimBatch, PendingOf(from)) IN
       sweeper' = [sweeper EXCEPT !.pc = IF ids = {} THEN "delete" ELSE "claim",
                                  !.dead = @ \ {from}, !.from = from, !.ids = ids]
  /\ UNCHANGED <<redisVars, beat, answered, status, trackVars, reader, handler,
                 running>>

\* XCLAIM by id: every listed entry that is still in some pending list goes to
\* a worker of the live list (the round robin follows the order of a SCAN).
SweepClaim(to) ==
  /\ sweeper.pc = "claim"
  /\ to \in sweeper.live
  /\ pel' = [j \in Jobs |-> IF j \in sweeper.ids /\ pel[j] # NoConn
                            THEN to ELSE pel[j]]
  /\ sweeper' = [sweeper EXCEPT !.pc = "delete", !.ids = {}]
  /\ UNCHANGED <<added, lastDelivered, inStream, beat, answered, status,
                 trackVars, reader, handler, running>>

\* XGROUP DELCONSUMER destroys whatever the pending list still holds.
SweepDelete ==
  /\ sweeper.pc = "delete"
  /\ pel' = [j \in Jobs |-> IF pel[j] = sweeper.from THEN NoConn ELSE pel[j]]
  /\ sweeper' = IF sweeper.dead = {} THEN SweepIdle
                ELSE [sweeper EXCEPT !.pc = "list", !.from = NoConn]
  /\ UNCHANGED <<added, lastDelivered, inStream, beat, answered, status,
                 trackVars, reader, handler, running>>

SweeperStep ==
  \/ SweepFindDead \/ SweepFindLive \/ SweepDelete
  \/ \E w \in Conns : SweepList(w) \/ SweepClaim(w)

-----------------------------------------------------------------------------
Next ==
  \/ Enqueue
  \/ SweeperStep
  \/ \E w \in Conns :
       \/ LinkBreaks(w) \/ Disconnect(w) \/ Cleanup(w)
       \/ Ping(w) \/ HeartbeatLapses(w)
       \/ ReaderStep(w) \/ HandlerStep(w)
       \/ \E n \in SlotCounts : Connect(w, n) \/ ConnectFails(w, n) \/ Reconfigure(w, n)
       \/ \E j \in Jobs : \/ Ages(w, j) \/ EndsInSilence(w, j)
                        \/ ReceiveComplete(w, j) \/ ReceiveError(w, j)

Spec == Init /\ [][Next]_vars

-----------------------------------------------------------------------------
(* What must hold.                                                         *)

TypeOK ==
  /\ added \in 0 .. NumJobs
  /\ lastDelivered \in 0 .. added
  /\ inStream \subseteq Jobs
  /\ pel \in [Jobs -> Conns \cup {NoConn}]
  /\ beat \subseteq Conns
  /\ answered \in [Jobs -> Replies \cup {"none"}]
  /\ status \in [Conns -> Statuses]
  /\ slots \in [Conns -> SlotCounts \cup {0}]
  /\ active \in [Conns -> SUBSET Jobs]
  /\ stale \in [Conns -> SUBSET Jobs]
  /\ poolConns \subseteq Conns
  /\ poolJobs \in [Conns -> SUBSET Jobs]
  /\ reader \in [Conns -> [pc : ReaderPCs, todo : SUBSET Jobs, job : Jobs \cup {NoJob}]]
  /\ handler \in [Conns -> [pc : HandlerPCs, job : Jobs \cup {NoJob}, kind : {"done", "error"}]]
  /\ running \in [Conns -> SUBSET Jobs]
  /\ sweeper \in [pc : SweeperPCs, dead : SUBSET Conns, live : SUBSET Conns,
                  from : Conns \cup {NoConn}, ids : SUBSET Jobs]

\* The goroutine of w that will publish the terminal event of j, having
\* taken the entry out of the pending lists.
Settling(w, j) ==
  \/ /\ handler[w].job = j
     /\ handler[w].kind = "done"
     /\ handler[w].pc \in {"xack", "xdel", "publish"}
  \/ /\ reader[w].job = j
     /\ reader[w].pc \in {"expireXdel", "expirePublish"}

\* An entry in a pending list is still in the stream: XACK comes before XDEL
\* in every path, so a redelivery never returns an entry without a payload.
PendingInStream ==
  \A j \in Jobs : pel[j] # NoConn => j \in inStream /\ j <= lastDelivered

\* A job leaves the stream only when its terminal event is published or a
\* goroutine is on its way to publish it: no ACK is silent, but that of an
\* expiry whose connection broke between the ACK and the event ("unsent").
RemovedIsAnswered ==
  \A j \in 1 .. added : j \notin inStream =>
    answered[j] # "none" \/ \E w \in Conns : Settling(w, j)

\* A worker runs a job the router no longer counts against its slots only when
\* the caller has been, or is being, told that the job timed out, or the
\* connection broke before it could be ("unsent").
UntrackedIsAnswered ==
  \A w \in Conns : \A j \in running[w] \ active[w] :
    \/ answered[j] # "none"
    \/ reader[w].job = j /\ reader[w].pc \in {"expireXack", "expireXdel", "expirePublish"}

\* /health never counts a job the reader has forgotten, except while the
\* goroutine that forgot it has yet to tell the pool.
PoolNeverOvercounts ==
  \A w \in Conns : \A j \in poolJobs[w] \ active[w] :
    \/ handler[w].job = j /\ handler[w].pc \in {"xack", "xdel"}
    \/ reader[w].job = j /\ reader[w].pc \in {"expireXack", "expireXdel", "expirePublish"}

\* No job is lost: while the caller waits, the job is still to be delivered,
\* or in some consumer's pending list, or about to be answered.
NoLostJob ==
  \A j \in 1 .. added : answered[j] = "none" =>
    \/ j > lastDelivered
    \/ pel[j] # NoConn
    \/ \E w \in Conns : Settling(w, j)

\* Somebody who still runs has the job in hand and will run it, answer it or
\* give it up with a time-out.
InHand(w, j) ==
  /\ ~Cancelled(w)
  /\ j \in running[w] \cup active[w] \cup reader[w].todo \/ j = reader[w].job

\* cleanup's comment: the jobs of a worker that is gone get retried, not
\* failed.  While the caller waits his job is in the queue, or with a consumer
\* the sweeper looks after, or in the hands of a connection that still runs.
NoJobForgotten ==
  \A j \in 1 .. added : answered[j] = "none" =>
    \/ j > lastDelivered
    \/ pel[j] # NoConn
    \/ \E w \in Conns : Settling(w, j) \/ InHand(w, j)

\* A job is never on two live workers at once.
SingleExecutor ==
  \A v, w \in Conns : running[v] \cap running[w] # {} => v = w

\* Every slot of a worker is taken, one of them by an execution that has ended
\* without a word: the state in which slot_never_freed leaves a worker.
Clogged(w) ==
  /\ status[w] = "connected"
  /\ ~HasCapacity(w)
  /\ active[w] \ running[w] # {}

\* Every job the API enqueues is answered in the end, or given up by an expiry
\* that a broken connection cut short, and its entry is then out of the pending
\* lists for good: it is not executed again and again.
\* Only a worker found clogged again and again excuses the router.
EveryJobSettled ==
  \/ \E w \in Conns : []<>Clogged(w)
  \/ \A j \in Jobs : j <= added ~>
       [](answered[j] # "none" /\ j <= lastDelivered /\ pel[j] = NoConn)

\* The comment over expireStaleJobs: a job that outlives JobTimeout gives its
\* slot back even if the worker never says a word about it.
StuckJobExpires ==
  \A w \in Conns, j \in Jobs :
    status[w] = "connected" /\ j \in stale[w]
      ~> j \notin stale[w] \/ status[w] # "connected"

\* The README: a worker with Parallel > 1 handles concurrent requests without
\* queueing, so a queued job does not wait while a worker has a free slot.
FreeSlotTakesWork ==
  \A w \in Conns, j \in Jobs :
    status[w] = "connected" /\ HasCapacity(w) /\ lastDelivered < j /\ j <= added
      ~> lastDelivered >= j \/ ~HasCapacity(w) \/ status[w] # "connected"

\* Dispatch seen as leases.  A delivered job that is neither pending, nor
\* answered, nor about to be has no counterpart in JobLease.
LeaseState == [j \in Jobs |->
  IF j > added THEN "absent"
  ELSE IF j > lastDelivered THEN "waiting"
  ELSE IF pel[j] # NoConn THEN "leased"
  ELSE IF answered[j] # "none" THEN "over"
  ELSE IF \E w \in Conns : Settling(w, j) THEN "answering" ELSE "lost"]

Lease == INSTANCE JobLease WITH state <- LeaseState, holder <- pel,
           reply <- answered, Holders <- Conns, NoHolder <- NoConn,
           Answers <- Replies

\* The job queue keeps the promise of JobLease, given the timing.
LeaseSpec == Lease!Spec

\* What two of the guarantees above promise when the timing is as documented.
TimelyNoLostJob      == Timely => NoLostJob
TimelySingleExecutor == Timely => SingleExecutor

\* A job whose entry has been acknowledged is never sent to a worker again.
NeverRedispatched ==
  [][\A w \in Conns : \A j \in running'[w] \ running[w] : pel[j] # NoConn]_vars
=============================================================================
