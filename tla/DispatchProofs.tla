--------------------------- MODULE DispatchProofs ---------------------------
(***************************************************************************)
(* Proofs about Dispatch, for any number of connections and jobs.          *)
(***************************************************************************)
EXTENDS Dispatch, TLAPS, FiniteSetTheorems

(***************************************************************************)
(* The inductive invariant.  First what holds whatever the timing: nobody  *)
(* handles a job before Redis delivered it, XDEL comes after XACK, and an  *)
(* error is published before its entry is acknowledged.                    *)
(***************************************************************************)
Delivered == 1 .. lastDelivered

OnlyDelivered ==
  /\ \A w \in Conns :
       /\ active[w] \subseteq Delivered
       /\ running[w] \subseteq Delivered
       /\ stale[w] \subseteq active[w]
       /\ reader[w].todo \subseteq Delivered
       /\ reader[w].pc \in {"expireXack", "expireXdel", "expirePublish", "send"}
            => reader[w].job \in Delivered
       /\ handler[w].pc # "idle" => handler[w].job \in Delivered

UndeliveredInStream == (lastDelivered + 1) .. added \subseteq inStream

XackBeforeXdel ==
  \A w \in Conns :
    /\ handler[w].pc = "xdel" => pel[handler[w].job] = NoConn
    /\ reader[w].pc \in {"expireXdel", "expirePublish"} => pel[reader[w].job] = NoConn

ErrorsPublished ==
  \A w \in Conns : handler[w].kind = "error" /\ handler[w].pc # "idle"
    => answered[handler[w].job] # "none"

StreamInv == OnlyDelivered /\ PendingInStream /\ UndeliveredInStream /\ XackBeforeXdel

USE ConnsAssumption, JobsAssumption, SlowAssumption, SlotsAssumption

-----------------------------------------------------------------------------
(* Type correctness.                                                       *)

\* A reader about to send has a job to send.
TypeInv == TypeOK /\ \A w \in Conns : reader[w].pc = "send" => reader[w].job \in Jobs

\* First returns a part of what it is given.
LEMMA BatchType ==
  ASSUME NEW n, NEW S \in SUBSET Jobs
  PROVE  First(n, S) \in SUBSET Jobs
BY DEF First

\* The records the goroutines' steps write have the right types.
LEMMA ReaderType ==
  ASSUME TypeInv, NEW w \in Conns, NEW pc \in ReaderPCs, NEW todo \in SUBSET Jobs,
         NEW j \in Jobs \cup {NoJob}, pc = "send" => j \in Jobs,
         ReaderAt(w, pc, todo, j)
  PROVE  /\ reader' \in [Conns -> [pc : ReaderPCs, todo : SUBSET Jobs, job : Jobs \cup {NoJob}]]
         /\ \A v \in Conns : reader'[v].pc = "send" => reader'[v].job \in Jobs
BY DEF TypeInv, TypeOK, ReaderAt

LEMMA HandlerType ==
  ASSUME TypeInv, NEW w \in Conns, NEW pc \in HandlerPCs, NEW j \in Jobs \cup {NoJob},
         NEW kind \in {"done", "error"},
         HandlerAt(w, pc, j, kind)
  PROVE  handler' \in [Conns -> [pc : HandlerPCs, job : Jobs \cup {NoJob}, kind : {"done", "error"}]]
BY DEF TypeInv, TypeOK, HandlerAt

LEMMA PublishType ==
  ASSUME TypeInv, NEW j, NEW reply \in Replies, Publish(j, reply)
  PROVE  answered' \in [Jobs -> Replies \cup {"none"}]
BY DEF TypeInv, TypeOK, Publish

LEMMA PoolType ==
  ASSUME TypeInv, NEW w \in Conns, NEW j, PoolComplete(w, j)
  PROVE  poolJobs' \in [Conns -> SUBSET Jobs]
BY DEF TypeInv, TypeOK, PoolComplete

\* The connection's steps.
LEMMA TypeConnection ==
  ASSUME TypeInv, NEW w \in Conns,
         \/ \E n \in SlotCounts : Connect(w, n) \/ ConnectFails(w, n) \/ Reconfigure(w, n)
         \/ LinkBreaks(w) \/ Disconnect(w) \/ Cleanup(w) \/ Ping(w) \/ HeartbeatLapses(w)
  PROVE  TypeInv'
<1> USE DEF redisVars, trackVars, Statuses
<1>1. ASSUME NEW n \in SlotCounts, Connect(w, n) PROVE TypeInv'
  <2>1. ReaderAt(w, "top", {}, NoJob)
    BY <1>1 DEF Connect
  <2>2. /\ reader' \in [Conns -> [pc : ReaderPCs, todo : SUBSET Jobs, job : Jobs \cup {NoJob}]]
        /\ \A v \in Conns : reader'[v].pc = "send" => reader'[v].job \in Jobs
    BY <2>1, ReaderType DEF ReaderPCs
  <2> QED
    BY <1>1, <2>2 DEF TypeInv, TypeOK, Connect
<1>2. ASSUME NEW n \in SlotCounts, ConnectFails(w, n) PROVE TypeInv'
  BY <1>2 DEF TypeInv, TypeOK, ConnectFails
<1>3. ASSUME NEW n \in SlotCounts, Reconfigure(w, n) PROVE TypeInv'
  BY <1>3 DEF TypeInv, TypeOK, Reconfigure
<1>4. CASE LinkBreaks(w) \/ Disconnect(w) \/ Cleanup(w)
  <2>1. CASE LinkBreaks(w)
    BY <2>1 DEF TypeInv, TypeOK, LinkBreaks
  <2>2. CASE Disconnect(w)
    BY <2>2 DEF TypeInv, TypeOK, Disconnect
  <2>3. CASE Cleanup(w)
    BY <2>3 DEF TypeInv, TypeOK, Cleanup
  <2> QED  BY <1>4, <2>1, <2>2, <2>3
<1>5. CASE Ping(w) \/ HeartbeatLapses(w)
  BY <1>5 DEF TypeInv, TypeOK, Ping, HeartbeatLapses
<1> QED
  BY <1>1, <1>2, <1>3, <1>4, <1>5

\* The job reader's steps.
LEMMA TypeReader ==
  ASSUME TypeInv, NEW w \in Conns, ReaderStep(w)
  PROVE  TypeInv'
<1> DEFINE ReaderOK ==
      /\ reader' \in [Conns -> [pc : ReaderPCs, todo : SUBSET Jobs, job : Jobs \cup {NoJob}]]
      /\ \A v \in Conns : reader'[v].pc = "send" => reader'[v].job \in Jobs
<1> USE DEF redisVars, trackVars
<1>r. reader[w] \in [pc : ReaderPCs, todo : SUBSET Jobs, job : Jobs \cup {NoJob}]
  BY DEF TypeInv, TypeOK
<1>1. CASE ReaderStops(w)
  <2>1. ReaderOK
    BY <1>1, ReaderType DEF ReaderStops, ReaderPCs
  <2> QED  BY <1>1, <2>1 DEF TypeInv, TypeOK, ReaderStops
<1>2. CASE ReaderTop(w)
  <2>1. PICK pc \in {"pending", "expire"} : ReaderAt(w, pc, stale[w], NoJob)
    BY <1>2 DEF ReaderTop
  <2>2. stale[w] \in SUBSET Jobs
    BY DEF TypeInv, TypeOK
  <2>3. ReaderOK
    BY <2>1, <2>2, ReaderType DEF ReaderPCs
  <2> QED  BY <1>2, <2>3 DEF TypeInv, TypeOK, ReaderTop
<1>3. CASE ExpireUntrack(w)
  <2>1. PICK j \in reader[w].todo :
          /\ Untrack(w, j)
          /\ ReaderAt(w, "expireXack", reader[w].todo \ {j}, j)
    BY <1>3 DEF ExpireUntrack
  <2>2. j \in Jobs /\ reader[w].todo \ {j} \in SUBSET Jobs
    BY <1>r
  <2>3. ReaderOK
    BY <2>1, <2>2, ReaderType DEF ReaderPCs
  <2> QED  BY <1>3, <2>1, <2>3 DEF TypeInv, TypeOK, ExpireUntrack, Untrack
<1>4. CASE ExpireXack(w)
  <2>1. ReaderOK
    BY <1>4, <1>r, ReaderType DEF ExpireXack, ReaderPCs
  <2> QED  BY <1>4, <2>1 DEF TypeInv, TypeOK, ExpireXack, XAck
<1>5. CASE ExpireXdel(w)
  <2>1. ReaderOK
    BY <1>5, <1>r, ReaderType DEF ExpireXdel, ReaderPCs
  <2> QED  BY <1>5, <2>1 DEF TypeInv, TypeOK, ExpireXdel, XDel
<1>6. ASSUME NextExpiry(w) PROVE ReaderOK
  <2>1. PICK pc \in {"pending", "expire"} : ReaderAt(w, pc, reader[w].todo, NoJob)
    BY <1>6 DEF NextExpiry
  <2>2. reader[w].todo \in SUBSET Jobs
    BY <1>r
  <2> QED  BY <2>1, <2>2, ReaderType DEF ReaderPCs
<1>7. CASE ExpirePublish(w)
  <2>1. ReaderOK
    BY <1>6, <1>7 DEF ExpirePublish
  <2> QED  BY <1>7, <2>1 DEF TypeInv, TypeOK, ExpirePublish, Publish, PoolComplete, Replies
<1>8. CASE ExpireFails(w)
  <2>1. ReaderOK
    BY <1>6, <1>8 DEF ExpireFails
  <2> QED  BY <1>8, <2>1 DEF TypeInv, TypeOK, ExpireFails, PoolComplete
<1>9. CASE ReadPending(w)
  <2> DEFINE batch == First(PendingBatch, PendingOf(w))
  <2>1. PICK pc \in {"block", "dispatch"} : ReaderAt(w, pc, batch, NoJob)
    BY <1>9 DEF ReadPending
  <2>2. batch \in SUBSET Jobs
    BY BatchType DEF PendingOf
  <2>3. ReaderOK
    BY <2>1, <2>2, ReaderType DEF ReaderPCs
  <2> QED  BY <1>9, <2>3 DEF TypeInv, TypeOK, ReadPending
<1>10. CASE ReadNew(w)
  <2>1. lastDelivered + 1 \in Jobs
    BY <1>10 DEF ReadNew, TypeInv, TypeOK, Jobs
  <2>2. ReaderOK
    BY <1>10, <2>1, ReaderType DEF ReadNew, ReaderPCs
  <2> QED  BY <1>10, <2>1, <2>2 DEF TypeInv, TypeOK, ReadNew
<1>11. CASE ReadTimeout(w)
  <2>1. ReaderOK
    BY <1>11, ReaderType DEF ReadTimeout, ReaderPCs
  <2> QED  BY <1>11, <2>1 DEF TypeInv, TypeOK, ReadTimeout
<1>12. ASSUME NEW todo \in SUBSET Jobs, NextEntry(w, todo) PROVE ReaderOK
  <2>1. PICK pc \in {"top", "dispatch"} : ReaderAt(w, pc, todo, NoJob)
    BY <1>12 DEF NextEntry
  <2> QED  BY <2>1, ReaderType DEF ReaderPCs
<1>13. CASE DispatchSkip(w)
  <2>1. ReaderOK
    BY <1>12, <1>13, <1>r DEF DispatchSkip
  <2> QED  BY <1>13, <2>1 DEF TypeInv, TypeOK, DispatchSkip
<1>14. CASE DispatchAssign(w)
  <2>1. PICK j \in Jobs :
          /\ active' = [active EXCEPT ![w] = @ \cup {j}]
          /\ PoolAssign(w, j)
          /\ ReaderAt(w, "send", reader[w].todo \ {j}, j)
    BY <1>14 DEF DispatchAssign
  <2>2. ReaderOK
    BY <2>1, <1>r, ReaderType DEF ReaderPCs
  <2>3. poolJobs' \in [Conns -> SUBSET Jobs]
    BY <2>1 DEF PoolAssign, TypeInv, TypeOK
  <2>4. active' \in [Conns -> SUBSET Jobs]
    BY <2>1 DEF TypeInv, TypeOK
  <2>5. UNCHANGED <<redisVars, beat, answered, status, slots, stale, poolConns,
                    handler, running, sweeper>>
    BY <1>14 DEF DispatchAssign
  <2> QED  BY <2>2, <2>3, <2>4, <2>5 DEF TypeInv, TypeOK
<1>15. CASE Send(w)
  <2>1. ReaderOK
    BY <1>12, <1>15, <1>r DEF Send
  <2>2. reader[w].job \in Jobs
    BY <1>15 DEF Send, TypeInv
  <2>3. running' \in [Conns -> SUBSET Jobs]
    BY <1>15, <2>2 DEF Send, TypeInv, TypeOK
  <2> QED  BY <1>15, <2>1, <2>3 DEF TypeInv, TypeOK, Send
<1>16. CASE SendFails(w)
  <2>1. ReaderOK
    BY <1>12, <1>16, <1>r DEF SendFails
  <2> QED  BY <1>16, <2>1 DEF TypeInv, TypeOK, SendFails, Untrack, PoolComplete
<1> QED
  BY <1>1, <1>2, <1>3, <1>4, <1>5, <1>7, <1>8, <1>9, <1>10, <1>11, <1>13, <1>14,
     <1>15, <1>16 DEF ReaderStep

\* The steps of the message loop and of a job that grows old.
LEMMA TypeHandler ==
  ASSUME TypeInv, NEW w \in Conns,
         \/ HandlerStep(w)
         \/ \E j \in Jobs : \/ Ages(w, j) \/ EndsInSilence(w, j)
                            \/ ReceiveComplete(w, j) \/ ReceiveError(w, j)
  PROVE  TypeInv'
<1> DEFINE HandlerOK ==
      handler' \in [Conns -> [pc : HandlerPCs, job : Jobs \cup {NoJob}, kind : {"done", "error"}]]
<1> USE DEF redisVars, trackVars
<1>h. handler[w] \in [pc : HandlerPCs, job : Jobs \cup {NoJob}, kind : {"done", "error"}]
  BY DEF TypeInv, TypeOK
<1>g. ASSUME NEW pc \in HandlerPCs, HandlerGoes(w, pc) PROVE HandlerOK
  BY <1>g, <1>h, HandlerType DEF HandlerGoes
<1>1. CASE HandlerUntrack(w)
  <2>1. PICK pc \in {"xack", "idle"} : HandlerGoes(w, pc)
    BY <1>1 DEF HandlerUntrack
  <2>2. HandlerOK
    BY <2>1, <1>g DEF HandlerPCs
  <2>3. UNCHANGED poolJobs \/ PoolComplete(w, handler[w].job)
    <3>1. CASE handler[w].job \in active[w]
      BY <1>1, <3>1 DEF HandlerUntrack
    <3>2. CASE handler[w].job \notin active[w]
      BY <1>1, <3>2 DEF HandlerUntrack
    <3> QED  BY <3>1, <3>2
  <2>4. poolJobs' \in [Conns -> SUBSET Jobs]
    BY <2>3, PoolType DEF TypeInv, TypeOK
  <2>5. active' \in [Conns -> SUBSET Jobs] /\ stale' \in [Conns -> SUBSET Jobs]
    BY <1>1 DEF HandlerUntrack, Untrack, TypeInv, TypeOK
  <2>6. UNCHANGED <<redisVars, beat, answered, status, slots, poolConns, reader,
                    running, sweeper>>
    BY <1>1 DEF HandlerUntrack
  <2> QED  BY <2>2, <2>4, <2>5, <2>6 DEF TypeInv, TypeOK
<1>2. CASE HandlerXack(w)
  <2>1. HandlerOK
    BY <1>2, <1>g DEF HandlerXack, HandlerPCs
  <2> QED  BY <1>2, <2>1 DEF TypeInv, TypeOK, HandlerXack, XAck
<1>3. CASE HandlerXdel(w)
  <2>1. PICK pc \in {"publish", "idle"} : HandlerGoes(w, pc)
    BY <1>3 DEF HandlerXdel
  <2>2. HandlerOK
    BY <2>1, <1>g DEF HandlerPCs
  <2> QED  BY <1>3, <2>2 DEF TypeInv, TypeOK, HandlerXdel, XDel, PoolComplete
<1>4. CASE HandlerPublish(w)
  <2>1. HandlerOK
    BY <1>4, <1>g DEF HandlerPublish, HandlerPCs
  <2>2. answered' \in [Jobs -> Replies \cup {"none"}]
    BY <1>4, PublishType DEF HandlerPublish, Replies
  <2> QED  BY <1>4, <2>1, <2>2 DEF TypeInv, TypeOK, HandlerPublish
<1>5. ASSUME NEW j \in Jobs, Ages(w, j) PROVE TypeInv'
  BY <1>5 DEF TypeInv, TypeOK, Ages
<1>8. ASSUME NEW j \in Jobs, EndsInSilence(w, j) PROVE TypeInv'
  BY <1>8 DEF TypeInv, TypeOK, EndsInSilence
<1>6. ASSUME NEW j \in Jobs, ReceiveComplete(w, j) PROVE TypeInv'
  <2>1. PICK pc \in {"xack", "publish"} : HandlerAt(w, pc, j, "done")
    BY <1>6 DEF ReceiveComplete
  <2>2. HandlerOK
    BY <2>1, HandlerType DEF HandlerPCs
  <2>3. UNCHANGED poolJobs \/ PoolComplete(w, j)
    BY <1>6 DEF ReceiveComplete
  <2>4. poolJobs' \in [Conns -> SUBSET Jobs]
    BY <2>3, PoolType DEF TypeInv, TypeOK
  <2> QED  BY <1>6, <2>2, <2>4 DEF TypeInv, TypeOK, ReceiveComplete, Untrack
<1>7. ASSUME NEW j \in Jobs, ReceiveError(w, j) PROVE TypeInv'
  <2>1. HandlerOK
    BY <1>7, HandlerType DEF ReceiveError, HandlerPCs
  <2> QED  BY <1>7, <2>1 DEF TypeInv, TypeOK, ReceiveError, Publish, Replies
<1> QED
  BY <1>1, <1>2, <1>3, <1>4, <1>5, <1>6, <1>7, <1>8 DEF HandlerStep

\* The sweeper's steps.
LEMMA TypeSweeper ==
  ASSUME TypeInv, SweeperStep
  PROVE  TypeInv'
<1> USE DEF redisVars, trackVars, SweeperPCs
<1>1. CASE SweepFindDead
  BY <1>1 DEF TypeInv, TypeOK, SweepFindDead
<1>2. CASE SweepFindLive
  BY <1>2 DEF TypeInv, TypeOK, SweepFindLive, SweepIdle
<1>3. CASE SweepDelete
  BY <1>3 DEF TypeInv, TypeOK, SweepDelete, SweepIdle
<1>4. ASSUME NEW from \in Conns, SweepList(from) PROVE TypeInv'
  <2>1. First(ClaimBatch, PendingOf(from)) \in SUBSET Jobs
    BY BatchType DEF PendingOf
  <2> QED  BY <1>4, <2>1 DEF TypeInv, TypeOK, SweepList
<1>5. ASSUME NEW to \in Conns, SweepClaim(to) PROVE TypeInv'
  BY <1>5 DEF TypeInv, TypeOK, SweepClaim
<1> QED
  BY <1>1, <1>2, <1>3, <1>4, <1>5 DEF SweeperStep

LEMMA TypeStep == TypeInv /\ [Next]_vars => TypeInv'
<1> SUFFICES ASSUME TypeInv, [Next]_vars PROVE TypeInv'
  OBVIOUS
<1>1. CASE Enqueue
  BY <1>1 DEF TypeInv, TypeOK, Enqueue, Jobs, redisVars, trackVars
<1>2. CASE UNCHANGED vars
  BY <1>2 DEF TypeInv, TypeOK, vars, redisVars, trackVars
<1> QED
  BY <1>1, <1>2, TypeConnection, TypeReader, TypeHandler, TypeSweeper DEF Next

\* Every value the dispatcher holds has its type.
THEOREM TypeCorrect == Spec => []TypeOK
<1>1. Init => TypeInv
  BY DEF Init, TypeInv, TypeOK, Jobs, Statuses, Replies, ReaderPCs, HandlerPCs, SweeperPCs, NoJob
<1>2. TypeInv => TypeOK
  BY DEF TypeInv
<1> QED
  BY <1>1, <1>2, TypeStep, PTL DEF Spec

-----------------------------------------------------------------------------
(* What the stream holds.                                                  *)

\* What a step may do to the goroutine of another connection: nothing.
LEMMA ReaderFrame ==
  ASSUME TypeInv, NEW w \in Conns, NEW pc, NEW todo, NEW j, ReaderAt(w, pc, todo, j)
  PROVE  /\ reader'[w] = [pc |-> pc, todo |-> todo, job |-> j]
         /\ \A v \in Conns : v # w => reader'[v] = reader[v]
BY DEF TypeInv, TypeOK, ReaderAt

LEMMA HandlerFrame ==
  ASSUME TypeInv, NEW w \in Conns, NEW pc, NEW j, NEW kind, HandlerAt(w, pc, j, kind)
  PROVE  /\ handler'[w] = [pc |-> pc, job |-> j, kind |-> kind]
         /\ \A v \in Conns : v # w => handler'[v] = handler[v]
BY DEF TypeInv, TypeOK, HandlerAt

\* The pieces the steps share, connection by connection and job by job.
LEMMA UntrackFrame ==
  ASSUME TypeInv, NEW w \in Conns, NEW j, Untrack(w, j)
  PROVE  \A v \in Conns :
           /\ active'[v] = IF v = w THEN active[v] \ {j} ELSE active[v]
           /\ stale'[v] = IF v = w THEN stale[v] \ {j} ELSE stale[v]
BY DEF TypeInv, TypeOK, Untrack

LEMMA UntrackShrinks ==
  ASSUME TypeInv, OnlyDelivered, NEW w \in Conns, NEW j, Untrack(w, j)
  PROVE  \A v \in Conns : active'[v] \subseteq active[v] /\ stale'[v] \subseteq active'[v]
<1>1. \A v \in Conns : stale[v] \subseteq active[v]
  BY DEF OnlyDelivered
<1> QED
  BY <1>1, UntrackFrame

LEMMA XAckFrame ==
  ASSUME TypeInv, NEW j, XAck(j)
  PROVE  \A k \in Jobs : pel'[k] = IF k = j THEN NoConn ELSE pel[k]
BY DEF TypeInv, TypeOK, XAck

LEMMA PublishFrame ==
  ASSUME TypeInv, NEW j, NEW reply, Publish(j, reply)
  PROVE  \A k \in Jobs : answered'[k] = IF k = j /\ answered[k] = "none"
                                       THEN reply ELSE answered[k]
BY DEF TypeInv, TypeOK, Publish

EntryInv == StreamInv /\ ErrorsPublished

LEMMA DeliveredJobs ==
  ASSUME TypeInv
  PROVE  Delivered \subseteq Jobs /\ lastDelivered \in Nat /\ added \in Nat
BY DEF TypeInv, TypeOK, Delivered, Jobs

\* Steps that hand out no job and touch neither the stream nor a handler.
LEMMA EntryConnection ==
  ASSUME TypeInv, EntryInv, NEW w \in Conns,
         \/ \E n \in SlotCounts : Connect(w, n) \/ ConnectFails(w, n) \/ Reconfigure(w, n)
         \/ LinkBreaks(w) \/ Disconnect(w) \/ Cleanup(w) \/ Ping(w) \/ HeartbeatLapses(w)
  PROVE  EntryInv'
<1> USE DEF redisVars, trackVars, EntryInv, StreamInv, OnlyDelivered, Delivered,
            PendingInStream, UndeliveredInStream, XackBeforeXdel, ErrorsPublished
<1>1. ASSUME NEW n \in SlotCounts, Connect(w, n) PROVE EntryInv'
  <2>1. /\ reader'[w] = [pc |-> "top", todo |-> {}, job |-> NoJob]
        /\ \A v \in Conns : v # w => reader'[v] = reader[v]
    BY <1>1, ReaderFrame DEF Connect
  <2> QED  BY <1>1, <2>1 DEF Connect
<1>2. ASSUME NEW n \in SlotCounts, ConnectFails(w, n) \/ Reconfigure(w, n) PROVE EntryInv'
  BY <1>2 DEF ConnectFails, Reconfigure
<1>3. CASE LinkBreaks(w)
  BY <1>3 DEF LinkBreaks, TypeInv, TypeOK
<1>4. CASE Disconnect(w) \/ Cleanup(w) \/ Ping(w) \/ HeartbeatLapses(w)
  BY <1>4 DEF Disconnect, Cleanup, Ping, HeartbeatLapses
<1> QED
  BY <1>1, <1>2, <1>3, <1>4

\* What becomes of the reader's own record, and of the others'.
ReaderBecomes(w, pc, todo, j) ==
  /\ reader'[w] = [pc |-> pc, todo |-> todo, job |-> j]
  /\ \A v \in Conns : v # w => reader'[v] = reader[v]
HandlerBecomes(w, pc, j, kind) ==
  /\ handler'[w] = [pc |-> pc, job |-> j, kind |-> kind]
  /\ \A v \in Conns : v # w => handler'[v] = handler[v]

LEMMA EntryReader ==
  ASSUME TypeInv, EntryInv, NEW w \in Conns, ReaderStep(w)
  PROVE  EntryInv'
<1> USE DEF redisVars, trackVars, EntryInv, StreamInv, OnlyDelivered, Delivered,
            PendingInStream, UndeliveredInStream, XackBeforeXdel, ErrorsPublished
<1>f. ASSUME NEW pc, NEW todo, NEW j, ReaderAt(w, pc, todo, j)
      PROVE  ReaderBecomes(w, pc, todo, j)
  BY <1>f, ReaderFrame DEF ReaderBecomes
<1>1. CASE ReaderStops(w)
  <2>1. ReaderBecomes(w, "off", {}, NoJob)
    BY <1>1, <1>f DEF ReaderStops
  <2> QED  BY <1>1, <2>1 DEF ReaderStops, ReaderBecomes
<1>2. CASE ReaderTop(w)
  <2>1. PICK pc \in {"pending", "expire"} : ReaderBecomes(w, pc, stale[w], NoJob)
    BY <1>2, <1>f DEF ReaderTop
  <2> QED  BY <1>2, <2>1 DEF ReaderTop, ReaderBecomes
<1>3. CASE ExpireUntrack(w)
  <2>1. PICK j \in reader[w].todo :
          /\ Untrack(w, j)
          /\ ReaderBecomes(w, "expireXack", reader[w].todo \ {j}, j)
    BY <1>3, <1>f DEF ExpireUntrack
  <2>2. \A v \in Conns : active'[v] \subseteq active[v] /\ stale'[v] \subseteq active'[v]
    BY <2>1, UntrackShrinks
  <2> QED  BY <1>3, <2>1, <2>2 DEF ExpireUntrack, ReaderBecomes
<1>4. CASE ExpireXack(w)
  <2>1. ReaderBecomes(w, "expireXdel", reader[w].todo, reader[w].job)
    BY <1>4, <1>f DEF ExpireXack
  <2>2. \A k \in Jobs : pel'[k] = IF k = reader[w].job THEN NoConn ELSE pel[k]
    BY <1>4, XAckFrame DEF ExpireXack
  <2> QED  BY <1>4, <2>1, <2>2, DeliveredJobs DEF ExpireXack, ReaderBecomes
<1>5. CASE ExpireXdel(w)
  <2>1. ReaderBecomes(w, "expirePublish", reader[w].todo, reader[w].job)
    BY <1>5, <1>f DEF ExpireXdel
  <2> QED  BY <1>5, <2>1, DeliveredJobs DEF ExpireXdel, ReaderBecomes, XDel
<1>6. CASE ExpirePublish(w) \/ ExpireFails(w)
  <2>1. PICK pc \in {"pending", "expire"} : ReaderBecomes(w, pc, reader[w].todo, NoJob)
    BY <1>6, <1>f DEF ExpirePublish, ExpireFails, NextExpiry
  <2>2. \A j \in Jobs : answered[j] # "none" => answered'[j] # "none"
    BY <1>6, PublishFrame DEF ExpirePublish, ExpireFails
  <2> QED  BY <1>6, <2>1, <2>2, DeliveredJobs DEF ExpirePublish, ExpireFails, ReaderBecomes
<1>7. CASE ReadPending(w)
  <2> DEFINE batch == First(PendingBatch, PendingOf(w))
  <2>1. PICK pc \in {"block", "dispatch"} : ReaderBecomes(w, pc, batch, NoJob)
    BY <1>7, <1>f DEF ReadPending
  <2>2. batch \subseteq Delivered
    BY ConnsAssumption DEF First, PendingOf, Jobs
  <2> HIDE DEF batch
  <2> QED  BY <1>7, <2>1, <2>2 DEF ReadPending, ReaderBecomes
<1>8. CASE ReadNew(w)
  <2>1. ReaderBecomes(w, "dispatch", {lastDelivered + 1}, NoJob)
    BY <1>8, <1>f DEF ReadNew
  <2>2. \A k \in Jobs : pel'[k] = IF k = lastDelivered + 1 THEN w ELSE pel[k]
    BY <1>8 DEF ReadNew, TypeInv, TypeOK
  <2>3. lastDelivered + 1 \in inStream /\ lastDelivered + 1 \in Delivered'
    BY <1>8, DeliveredJobs DEF ReadNew
  <2>4. Delivered \subseteq Delivered'
    BY <1>8, DeliveredJobs DEF ReadNew
  <2>5. OnlyDelivered'
    BY <1>8, <2>1, <2>3, <2>4 DEF ReadNew, ReaderBecomes
  <2>6. PendingInStream'
    BY <1>8, <2>2, <2>3, DeliveredJobs DEF ReadNew, Jobs
  <2>7. UndeliveredInStream'
    BY <1>8, DeliveredJobs DEF ReadNew
  <2>8. \A k \in Delivered : pel'[k] = pel[k]
    BY <2>2, DeliveredJobs
  <2>9. XackBeforeXdel'
    BY <1>8, <2>1, <2>8 DEF ReadNew, ReaderBecomes
  <2> QED  BY <1>8, <2>5, <2>6, <2>7, <2>9 DEF ReadNew
<1>9. CASE ReadTimeout(w)
  <2>1. ReaderBecomes(w, "top", {}, NoJob)
    BY <1>9, <1>f DEF ReadTimeout
  <2> QED  BY <1>9, <2>1 DEF ReadTimeout, ReaderBecomes
<1>10. CASE DispatchSkip(w)
  <2>1. PICK j \in Jobs, pc \in {"top", "dispatch"} :
          ReaderBecomes(w, pc, reader[w].todo \ {j}, NoJob)
    BY <1>10, <1>f DEF DispatchSkip, NextEntry
  <2> QED  BY <1>10, <2>1 DEF DispatchSkip, ReaderBecomes
<1>11. CASE DispatchAssign(w)
  <2>1. PICK j \in Jobs :
          /\ j \in reader[w].todo
          /\ active' = [active EXCEPT ![w] = @ \cup {j}]
          /\ ReaderBecomes(w, "send", reader[w].todo \ {j}, j)
    BY <1>11, <1>f DEF DispatchAssign, IsFirst
  <2>2. \A v \in Conns : active'[v] = IF v = w THEN active[v] \cup {j} ELSE active[v]
    BY <2>1 DEF TypeInv, TypeOK
  <2> QED  BY <1>11, <2>1, <2>2 DEF DispatchAssign, ReaderBecomes
<1>12. CASE Send(w) \/ SendFails(w)
  <2>1. PICK pc \in {"top", "dispatch"} : ReaderBecomes(w, pc, reader[w].todo, NoJob)
    BY <1>12, <1>f DEF Send, SendFails, NextEntry
  <2>2. CASE Send(w)
    <3>1. \A v \in Conns : running'[v] \subseteq running[v] \cup {reader[w].job}
      BY <2>2 DEF Send, TypeInv, TypeOK
    <3> QED  BY <2>1, <2>2, <3>1 DEF Send, ReaderBecomes
  <2>3. CASE SendFails(w)
    <3>1. \A v \in Conns : active'[v] \subseteq active[v] /\ stale'[v] \subseteq active'[v]
      <4>1. Untrack(w, reader[w].job)
        BY <2>3 DEF SendFails
      <4> QED  BY <4>1, UntrackShrinks
    <3> QED  BY <2>1, <2>3, <3>1 DEF SendFails, ReaderBecomes
  <2> QED  BY <1>12, <2>2, <2>3
<1> QED
  BY <1>1, <1>2, <1>3, <1>4, <1>5, <1>6, <1>7, <1>8, <1>9, <1>10, <1>11, <1>12
  DEF ReaderStep

LEMMA EntryHandler ==
  ASSUME TypeInv, EntryInv, NEW w \in Conns,
         \/ HandlerStep(w)
         \/ \E j \in Jobs : \/ Ages(w, j) \/ EndsInSilence(w, j)
                            \/ ReceiveComplete(w, j) \/ ReceiveError(w, j)
  PROVE  EntryInv'
<1> USE DEF redisVars, trackVars, EntryInv, StreamInv, OnlyDelivered, Delivered,
            PendingInStream, UndeliveredInStream, XackBeforeXdel, ErrorsPublished
<1>f. ASSUME NEW pc, NEW j, NEW kind, HandlerAt(w, pc, j, kind)
      PROVE  HandlerBecomes(w, pc, j, kind)
  BY <1>f, HandlerFrame DEF HandlerBecomes
<1>g. ASSUME NEW pc, HandlerGoes(w, pc)
      PROVE  HandlerBecomes(w, pc, handler[w].job, handler[w].kind)
  BY <1>f, <1>g DEF HandlerGoes
<1>1. CASE HandlerUntrack(w)
  <2>1. PICK pc \in {"xack", "idle"} : HandlerBecomes(w, pc, handler[w].job, handler[w].kind)
    BY <1>1, <1>g DEF HandlerUntrack
  <2>2. \A v \in Conns : active'[v] \subseteq active[v] /\ stale'[v] \subseteq active'[v]
    <3>1. Untrack(w, handler[w].job)
      BY <1>1 DEF HandlerUntrack
    <3> QED  BY <3>1, UntrackShrinks
  <2> QED  BY <1>1, <2>1, <2>2 DEF HandlerUntrack, HandlerBecomes
<1>2. CASE HandlerXack(w)
  <2>1. HandlerBecomes(w, "xdel", handler[w].job, handler[w].kind)
    BY <1>2, <1>g DEF HandlerXack
  <2>2. \A k \in Jobs : pel'[k] = IF k = handler[w].job THEN NoConn ELSE pel[k]
    BY <1>2, XAckFrame DEF HandlerXack
  <2> QED  BY <1>2, <2>1, <2>2, DeliveredJobs DEF HandlerXack, HandlerBecomes
<1>3. CASE HandlerXdel(w)
  <2>1. PICK pc \in {"publish", "idle"} : HandlerBecomes(w, pc, handler[w].job, handler[w].kind)
    BY <1>3, <1>g DEF HandlerXdel
  <2> QED  BY <1>3, <2>1, DeliveredJobs DEF HandlerXdel, HandlerBecomes, XDel
<1>4. CASE HandlerPublish(w)
  <2>1. HandlerBecomes(w, "idle", handler[w].job, handler[w].kind)
    BY <1>4, <1>g DEF HandlerPublish
  <2>2. \A j \in Jobs : answered[j] # "none" => answered'[j] # "none"
    BY <1>4, PublishFrame DEF HandlerPublish
  <2> QED  BY <1>4, <2>1, <2>2, DeliveredJobs DEF HandlerPublish, HandlerBecomes
<1>5. ASSUME NEW j \in Jobs, Ages(w, j) PROVE EntryInv'
  BY <1>5 DEF Ages, TypeInv, TypeOK
<1>8. ASSUME NEW j \in Jobs, EndsInSilence(w, j) PROVE EntryInv'
  BY <1>8 DEF EndsInSilence, TypeInv, TypeOK
<1>6. ASSUME NEW j \in Jobs, ReceiveComplete(w, j) PROVE EntryInv'
  <2>1. PICK pc \in {"xack", "publish"} : HandlerBecomes(w, pc, j, "done")
    BY <1>6, <1>f DEF ReceiveComplete
  <2>2. \A v \in Conns : running'[v] \subseteq running[v]
    BY <1>6 DEF ReceiveComplete, TypeInv, TypeOK
  <2>3. \A v \in Conns : active'[v] \subseteq active[v] /\ stale'[v] \subseteq active'[v]
    BY <1>6, UntrackShrinks DEF ReceiveComplete
  <2> QED  BY <1>6, <2>1, <2>2, <2>3 DEF ReceiveComplete, HandlerBecomes
<1>7. ASSUME NEW j \in Jobs, ReceiveError(w, j) PROVE EntryInv'
  <2>1. HandlerBecomes(w, "untrack", j, "error")
    BY <1>7, <1>f DEF ReceiveError
  <2>2. /\ answered'[j] # "none"
        /\ \A k \in Jobs : answered[k] # "none" => answered'[k] # "none"
    BY <1>7, PublishFrame DEF ReceiveError
  <2>3. \A v \in Conns : running'[v] \subseteq running[v]
    BY <1>7 DEF ReceiveError, TypeInv, TypeOK
  <2> QED  BY <1>7, <2>1, <2>2, <2>3, DeliveredJobs DEF ReceiveError, HandlerBecomes
<1> QED
  BY <1>1, <1>2, <1>3, <1>4, <1>5, <1>6, <1>7, <1>8 DEF HandlerStep

\* The sweeper moves or drops pending entries and touches nothing else here.
LEMMA EntrySweeper ==
  ASSUME TypeInv, EntryInv, SweeperStep
  PROVE  EntryInv'
<1> USE DEF redisVars, trackVars, EntryInv, StreamInv, OnlyDelivered, Delivered,
            PendingInStream, UndeliveredInStream, XackBeforeXdel, ErrorsPublished
<1>1. CASE SweepFindDead
  BY <1>1 DEF SweepFindDead
<1>2. CASE SweepFindLive
  BY <1>2 DEF SweepFindLive
<1>3. ASSUME NEW from \in Conns, SweepList(from) PROVE EntryInv'
  BY <1>3 DEF SweepList
<1>4. ASSUME SweepDelete \/ \E to \in Conns : SweepClaim(to) PROVE EntryInv'
  <2>1. \A j \in Jobs : pel[j] = NoConn => pel'[j] = NoConn
    BY <1>4 DEF SweepDelete, SweepClaim
  <2>2. UNCHANGED <<added, lastDelivered, inStream, answered, active, stale,
                    running, reader, handler>>
    BY <1>4 DEF SweepDelete, SweepClaim
  <2> QED  BY <2>1, <2>2, DeliveredJobs
<1> QED
  BY <1>1, <1>2, <1>3, <1>4 DEF SweeperStep

LEMMA EntryStep == TypeInv /\ EntryInv /\ [Next]_vars => EntryInv'
<1> SUFFICES ASSUME TypeInv, EntryInv, [Next]_vars PROVE EntryInv'
  OBVIOUS
<1> USE DEF EntryInv, StreamInv, OnlyDelivered, Delivered,
            PendingInStream, UndeliveredInStream, XackBeforeXdel, ErrorsPublished
<1>1. CASE Enqueue
  BY <1>1 DEF Enqueue, TypeInv, TypeOK, Jobs, redisVars, trackVars
<1>2. CASE UNCHANGED vars
  BY <1>2 DEF vars, redisVars, trackVars
<1> QED
  BY <1>1, <1>2, EntryConnection, EntryReader, EntryHandler, EntrySweeper DEF Next

\* A redelivered entry always has its payload: whoever acknowledges an entry
\* removes it from the stream only afterwards, and nothing undelivered is
\* ever removed.
THEOREM PendingKeptInStream == Spec => []PendingInStream
<1>1. Init => TypeInv /\ EntryInv
  BY DEF Init, TypeInv, TypeOK, EntryInv, StreamInv, OnlyDelivered, Delivered,
         PendingInStream, UndeliveredInStream, XackBeforeXdel, ErrorsPublished,
         Jobs, Statuses, Replies, ReaderPCs, HandlerPCs, SweeperPCs, NoJob
<1>2. EntryInv => PendingInStream
  BY DEF EntryInv, StreamInv
<1> QED
  BY <1>1, <1>2, TypeStep, EntryStep, PTL DEF Spec

-----------------------------------------------------------------------------
(* Who is about to answer.                                                 *)

\* An answer, once given, stands, and a goroutine on its way to answer
\* answers: the two facts that every guarantee about answers rests on.
LEMMA AnswersKept ==
  ASSUME TypeInv, [Next]_vars, NEW j \in Jobs, answered[j] # "none"
  PROVE  answered'[j] # "none"
<1> USE DEF redisVars, trackVars
<1>1. ASSUME NEW w \in Conns, ExpirePublish(w) PROVE answered'[j] # "none"
  <2>1. \E reply : Publish(reader[w].job, reply)
    BY <1>1 DEF ExpirePublish
  <2> QED  BY <2>1, PublishFrame
<1>2. ASSUME NEW w \in Conns, HandlerPublish(w) PROVE answered'[j] # "none"
  <2>1. Publish(handler[w].job, "done")
    BY <1>2 DEF HandlerPublish
  <2> QED  BY <2>1, PublishFrame
<1>3. ASSUME NEW w \in Conns, NEW k \in Jobs, ReceiveError(w, k) PROVE answered'[j] # "none"
  <2>1. Publish(k, "error")
    BY <1>3 DEF ReceiveError
  <2> QED  BY <2>1, PublishFrame
<1>4. CASE UNCHANGED vars
  BY <1>4 DEF vars
<1>5. CASE Enqueue \/ SweeperStep
  BY <1>5 DEF Enqueue, SweeperStep, SweepFindDead, SweepFindLive, SweepDelete,
              SweepList, SweepClaim
<1>6. ASSUME NEW w \in Conns,
             \/ \E n \in SlotCounts : Connect(w, n) \/ ConnectFails(w, n) \/ Reconfigure(w, n)
             \/ LinkBreaks(w) \/ Disconnect(w) \/ Cleanup(w) \/ Ping(w) \/ HeartbeatLapses(w)
      PROVE  answered'[j] # "none"
  BY <1>6 DEF Connect, ConnectFails, Reconfigure, LinkBreaks, Disconnect, Cleanup,
              Ping, HeartbeatLapses
<1>7. ASSUME NEW w \in Conns, ReaderStep(w) PROVE answered'[j] # "none"
  BY <1>1, <1>7 DEF ReaderStep, ReaderStops, ReaderTop, ExpireUntrack, ExpireXack,
       ExpireXdel, ExpireFails, ReadPending, ReadNew, ReadTimeout, DispatchSkip,
       DispatchAssign, Send, SendFails
<1>8. ASSUME NEW w \in Conns,
             \/ HandlerStep(w)
             \/ \E k \in Jobs : \/ Ages(w, k) \/ EndsInSilence(w, k)
                                \/ ReceiveComplete(w, k) \/ ReceiveError(w, k)
      PROVE  answered'[j] # "none"
  BY <1>2, <1>3, <1>8 DEF HandlerStep, HandlerUntrack, HandlerXack, HandlerXdel,
       Ages, EndsInSilence, ReceiveComplete
<1> QED
  BY <1>4, <1>5, <1>6, <1>7, <1>8 DEF Next

\* A connection that has not said hello has no reader.
Fresh == \A w \in Conns : status[w] = "absent" => reader[w].pc = "off"

LEMMA FreshStep == TypeInv /\ Fresh /\ [Next]_vars => Fresh'
<1> SUFFICES ASSUME TypeInv, Fresh, [Next]_vars PROVE Fresh'
  OBVIOUS
<1> USE DEF redisVars, trackVars, Fresh
<1>1. CASE UNCHANGED vars
  BY <1>1 DEF vars
<1>2. CASE Enqueue \/ SweeperStep
  BY <1>2 DEF Enqueue, SweeperStep, SweepFindDead, SweepFindLive, SweepDelete,
              SweepList, SweepClaim
<1>3. ASSUME NEW w \in Conns,
             \/ Ping(w) \/ HeartbeatLapses(w) \/ HandlerStep(w)
             \/ \E n \in SlotCounts : Reconfigure(w, n)
             \/ \E j \in Jobs : \/ Ages(w, j) \/ EndsInSilence(w, j)
                                \/ ReceiveComplete(w, j) \/ ReceiveError(w, j)
      PROVE  Fresh'
  BY <1>3 DEF Ping, HeartbeatLapses, HandlerStep, Reconfigure, Ages, EndsInSilence,
       ReceiveComplete, ReceiveError, HandlerUntrack, HandlerXack, HandlerXdel, HandlerPublish
<1>4. ASSUME NEW w \in Conns, NEW n \in SlotCounts, Connect(w, n) PROVE Fresh'
  <2>1. \A v \in Conns : v # w => reader'[v] = reader[v]
    BY <1>4, ReaderFrame DEF Connect
  <2>2. \A v \in Conns : status'[v] = IF v = w THEN "connected" ELSE status[v]
    BY <1>4 DEF Connect, TypeInv, TypeOK
  <2> QED  BY <2>1, <2>2
<1>5. ASSUME NEW w \in Conns,
             \/ \E n \in SlotCounts : ConnectFails(w, n)
             \/ LinkBreaks(w) \/ Disconnect(w) \/ Cleanup(w)
      PROVE  Fresh'
  <2>1. \A v \in Conns : status'[v] = "absent" => status[v] = "absent"
    BY <1>5 DEF ConnectFails, LinkBreaks, Disconnect, Cleanup, TypeInv, TypeOK
  <2> QED  BY <1>5, <2>1 DEF ConnectFails, LinkBreaks, Disconnect, Cleanup
<1>6. ASSUME NEW w \in Conns, ReaderStep(w) PROVE Fresh'
  <2>1. reader[w].pc # "off" /\ UNCHANGED status
    BY <1>6 DEF ReaderStep, ReaderStops, ReaderTop, ExpireUntrack, ExpireXack,
         ExpireXdel, ExpirePublish, ExpireFails, ReadPending, ReadNew, ReadTimeout,
         DispatchSkip, DispatchAssign, Send, SendFails
  <2>2. \E pc, todo, j : ReaderAt(w, pc, todo, j)
    BY <1>6 DEF ReaderStep, ReaderStops, ReaderTop, ExpireUntrack, ExpireXack,
         ExpireXdel, ExpirePublish, ExpireFails, ReadPending, ReadNew, ReadTimeout,
         DispatchSkip, DispatchAssign, Send, SendFails, NextEntry, NextExpiry
  <2>3. \A v \in Conns : v # w => reader'[v] = reader[v]
    BY <2>2, ReaderFrame
  <2> QED  BY <2>1, <2>3
<1> QED
  BY <1>1, <1>2, <1>3, <1>4, <1>5, <1>6 DEF Next

LEMMA SettlingKept ==
  ASSUME TypeInv, Fresh, [Next]_vars, NEW w \in Conns, NEW j \in Jobs, Settling(w, j)
  PROVE  Settling(w, j)' \/ answered'[j] # "none"
<1> USE DEF redisVars, trackVars
<1>1. CASE UNCHANGED vars
  BY <1>1 DEF vars, Settling
<1>2. CASE Enqueue \/ SweeperStep
  BY <1>2 DEF Enqueue, SweeperStep, SweepFindDead, SweepFindLive, SweepDelete,
              SweepList, SweepClaim, Settling
<1>3. ASSUME NEW v \in Conns,
             \/ \E n \in SlotCounts : ConnectFails(v, n) \/ Reconfigure(v, n)
             \/ LinkBreaks(v) \/ Disconnect(v) \/ Cleanup(v) \/ Ping(v) \/ HeartbeatLapses(v)
             \/ \E k \in Jobs : Ages(v, k) \/ EndsInSilence(v, k)
      PROVE  Settling(w, j)'
  BY <1>3 DEF ConnectFails, Reconfigure, LinkBreaks, Disconnect, Cleanup,
              Ping, HeartbeatLapses, Ages, EndsInSilence, Settling
<1>r. ASSUME UNCHANGED handler, NEW v \in Conns, NEW pc, NEW todo, NEW k,
             ReaderAt(v, pc, todo, k),
             \/ reader[v].pc \notin {"expireXdel", "expirePublish"}
             \/ pc = "expirePublish" /\ k = reader[v].job
      PROVE  Settling(w, j)'
  <2>1. ReaderBecomes(v, pc, todo, k)
    BY <1>r, ReaderFrame DEF ReaderBecomes
  <2> QED  BY <1>r, <2>1 DEF ReaderBecomes, Settling
<1>h. ASSUME UNCHANGED reader, NEW v \in Conns, NEW pc, NEW k, NEW kind,
             HandlerAt(v, pc, k, kind),
             \/ handler[v].pc \notin {"xack", "xdel", "publish"}
             \/ handler[v].kind = "error"
             \/ pc \in {"xdel", "publish"} /\ k = handler[v].job /\ kind = handler[v].kind
      PROVE  Settling(w, j)'
  <2>1. HandlerBecomes(v, pc, k, kind)
    BY <1>h, HandlerFrame DEF HandlerBecomes
  <2> QED  BY <1>h, <2>1 DEF HandlerBecomes, Settling
<1>4. ASSUME NEW v \in Conns, NEW n \in SlotCounts, Connect(v, n)
      PROVE  Settling(w, j)'
  <2>1. reader[v].pc = "off"
    BY <1>4 DEF Connect, Fresh
  <2> QED  BY <1>4, <1>r, <2>1 DEF Connect
<1>5. ASSUME NEW v \in Conns, ReaderStep(v), ~ExpireXdel(v), ~ExpirePublish(v)
      PROVE  Settling(w, j)'
  <2>1. UNCHANGED handler /\ reader[v].pc \notin {"expireXdel", "expirePublish"}
    BY <1>5 DEF ReaderStep, ReaderStops, ReaderTop, ExpireUntrack, ExpireXack,
         ExpireFails, ReadPending, ReadNew, ReadTimeout, DispatchSkip, DispatchAssign,
         Send, SendFails
  <2>2. \E pc, todo, k : ReaderAt(v, pc, todo, k)
    BY <1>5 DEF ReaderStep, ReaderStops, ReaderTop, ExpireUntrack, ExpireXack,
         ExpireFails, ReadPending, ReadNew, ReadTimeout, DispatchSkip, DispatchAssign,
         Send, SendFails, NextEntry, NextExpiry
  <2> QED  BY <1>r, <2>1, <2>2
<1>6. ASSUME NEW v \in Conns, ExpireXdel(v) PROVE Settling(w, j)'
  BY <1>6, <1>r DEF ExpireXdel
<1>7. ASSUME NEW v \in Conns, ExpirePublish(v)
      PROVE  Settling(w, j)' \/ answered'[j] # "none"
  <2>1. PICK reply \in {"unsent", "timeout"} : Publish(reader[v].job, reply)
    BY <1>7 DEF ExpirePublish
  <2>2. reader[v].job = j => answered'[j] # "none"
    BY <2>1, PublishFrame
  <2>3. PICK pc \in {"pending", "expire"} : ReaderBecomes(v, pc, reader[v].todo, NoJob)
    BY <1>7, ReaderFrame DEF ExpirePublish, NextExpiry, ReaderBecomes
  <2> QED  BY <1>7, <2>2, <2>3 DEF ExpirePublish, ReaderBecomes, Settling
<1>8. ASSUME NEW v \in Conns, HandlerUntrack(v) \/ HandlerXack(v) PROVE Settling(w, j)'
  BY <1>8, <1>h DEF HandlerUntrack, HandlerXack, HandlerGoes
<1>9. ASSUME NEW v \in Conns, HandlerXdel(v) PROVE Settling(w, j)'
  <2>1. handler[v].kind \in {"done", "error"}
    BY DEF TypeInv, TypeOK
  <2>2. CASE handler[v].kind = "done"
    BY <1>9, <1>h, <2>2 DEF HandlerXdel, HandlerGoes
  <2>3. CASE handler[v].kind = "error"
    BY <1>9, <1>h, <2>3 DEF HandlerXdel, HandlerGoes
  <2> QED  BY <2>1, <2>2, <2>3
<1>10. ASSUME NEW v \in Conns, HandlerPublish(v)
       PROVE  Settling(w, j)' \/ answered'[j] # "none"
  <2>1. handler[v].job = j => answered'[j] # "none"
    BY <1>10, PublishFrame DEF HandlerPublish
  <2>2. HandlerBecomes(v, "idle", handler[v].job, handler[v].kind)
    BY <1>10, HandlerFrame DEF HandlerPublish, HandlerGoes, HandlerBecomes
  <2> QED  BY <1>10, <2>1, <2>2 DEF HandlerPublish, HandlerBecomes, Settling
<1>11. ASSUME NEW v \in Conns, NEW k \in Jobs, ReceiveComplete(v, k) \/ ReceiveError(v, k)
       PROVE  Settling(w, j)'
  BY <1>11, <1>h DEF ReceiveComplete, ReceiveError
<1> QED
  BY <1>1, <1>2, <1>3, <1>4, <1>5, <1>6, <1>7, <1>8, <1>9, <1>10, <1>11
  DEF Next, HandlerStep

-----------------------------------------------------------------------------
(* No acknowledgement is silent.                                           *)

LEMMA RemovedStep ==
  TypeInv /\ EntryInv /\ Fresh /\ RemovedIsAnswered /\ [Next]_vars => RemovedIsAnswered'
<1> SUFFICES ASSUME TypeInv, EntryInv, Fresh, RemovedIsAnswered, [Next]_vars,
                    NEW j \in 1 .. added', j \notin inStream'
             PROVE  \/ answered'[j] # "none"
                    \/ \E w \in Conns : Settling(w, j)'
  BY DEF RemovedIsAnswered
<1> USE DEF redisVars, trackVars
<1>k. ASSUME j \in 1 .. added, j \notin inStream
      PROVE  \/ answered'[j] # "none"
             \/ \E w \in Conns : Settling(w, j)'
  <2>1. j \in Jobs
    BY <1>k DEF TypeInv, TypeOK, Jobs
  <2>2. CASE answered[j] # "none"
    BY <2>1, <2>2, AnswersKept
  <2>3. ASSUME NEW w \in Conns, Settling(w, j)
        PROVE  \/ answered'[j] # "none"
               \/ \E v \in Conns : Settling(v, j)'
    BY <2>1, <2>3, SettlingKept
  <2> QED  BY <1>k, <2>2, <2>3 DEF RemovedIsAnswered
<1>1. CASE Enqueue
  <2>1. j \in 1 .. added /\ j \notin inStream
    BY <1>1 DEF Enqueue, TypeInv, TypeOK
  <2> QED  BY <1>k, <2>1
<1>2. ASSUME NEW w \in Conns, ExpireXdel(w)
      PROVE  \/ answered'[j] # "none"
             \/ \E v \in Conns : Settling(v, j)'
  <2>1. ReaderBecomes(w, "expirePublish", reader[w].todo, reader[w].job)
    BY <1>2, ReaderFrame DEF ExpireXdel, ReaderBecomes
  <2>2. j = reader[w].job => Settling(w, j)'
    BY <2>1 DEF ReaderBecomes, Settling
  <2>3. j # reader[w].job => j \notin inStream
    BY <1>2 DEF ExpireXdel, XDel
  <2>4. j \in 1 .. added
    BY <1>2 DEF ExpireXdel
  <2> QED  BY <1>k, <2>2, <2>3, <2>4
<1>3. ASSUME NEW w \in Conns, HandlerXdel(w)
      PROVE  \/ answered'[j] # "none"
             \/ \E v \in Conns : Settling(v, j)'
  <2>1. j \in 1 .. added /\ j \in Jobs
    BY <1>3 DEF HandlerXdel, TypeInv, TypeOK, Jobs
  <2>2. j # handler[w].job => j \notin inStream
    BY <1>3 DEF HandlerXdel, XDel
  <2>3. CASE j = handler[w].job /\ handler[w].kind = "done"
    <3>1. HandlerBecomes(w, "publish", j, "done")
      BY <1>3, <2>3, HandlerFrame DEF HandlerXdel, HandlerGoes, HandlerBecomes
    <3> QED  BY <3>1 DEF HandlerBecomes, Settling
  <2>4. CASE j = handler[w].job /\ handler[w].kind = "error"
    <3>1. answered[j] # "none"
      BY <1>3, <2>4 DEF HandlerXdel, EntryInv, ErrorsPublished
    <3> QED  BY <2>1, <3>1, AnswersKept
  <2>5. handler[w].kind \in {"done", "error"}
    BY DEF TypeInv, TypeOK
  <2> QED  BY <1>k, <2>1, <2>2, <2>3, <2>4, <2>5
<1>4. ASSUME UNCHANGED <<added, inStream>>
      PROVE  \/ answered'[j] # "none"
             \/ \E v \in Conns : Settling(v, j)'
  BY <1>k, <1>4
<1>5. CASE UNCHANGED vars \/ SweeperStep
  BY <1>4, <1>5 DEF vars, SweeperStep, SweepFindDead, SweepFindLive, SweepDelete,
              SweepList, SweepClaim
<1>6. ASSUME NEW w \in Conns,
             \/ \E n \in SlotCounts : Connect(w, n) \/ ConnectFails(w, n) \/ Reconfigure(w, n)
             \/ LinkBreaks(w) \/ Disconnect(w) \/ Cleanup(w) \/ Ping(w) \/ HeartbeatLapses(w)
      PROVE  UNCHANGED <<added, inStream>>
  BY <1>6 DEF Connect, ConnectFails, Reconfigure, LinkBreaks, Disconnect, Cleanup,
              Ping, HeartbeatLapses
<1>7. ASSUME NEW w \in Conns, ReaderStep(w), ~ExpireXdel(w) PROVE UNCHANGED <<added, inStream>>
  BY <1>7 DEF ReaderStep, ReaderStops, ReaderTop, ExpireUntrack, ExpireXack,
       ExpirePublish, ExpireFails, ReadPending, ReadNew, ReadTimeout, DispatchSkip,
       DispatchAssign, Send, SendFails
<1>8. ASSUME NEW w \in Conns, ~HandlerXdel(w),
             \/ HandlerStep(w)
             \/ \E k \in Jobs : \/ Ages(w, k) \/ EndsInSilence(w, k)
                                \/ ReceiveComplete(w, k) \/ ReceiveError(w, k)
      PROVE  UNCHANGED <<added, inStream>>
  BY <1>8 DEF HandlerStep, HandlerUntrack, HandlerXack, HandlerPublish,
       Ages, EndsInSilence, ReceiveComplete, ReceiveError
<1> QED
  BY <1>1, <1>2, <1>3, <1>4, <1>5, <1>6, <1>7, <1>8 DEF Next

\* A job that is out of the stream has an answer, or was given up by an expiry on
\* a broken connection, or has a goroutine that is past the acknowledgement and on
\* its way to publish one.
THEOREM RemovalIsAnswered == Spec => []RemovedIsAnswered
<1> DEFINE IInv == TypeInv /\ EntryInv /\ Fresh /\ RemovedIsAnswered
<1>1. Init => IInv
  BY DEF Init, TypeInv, TypeOK, EntryInv, StreamInv, OnlyDelivered, Delivered,
         PendingInStream, UndeliveredInStream, XackBeforeXdel, ErrorsPublished,
         Fresh, RemovedIsAnswered,
         Jobs, Statuses, Replies, ReaderPCs, HandlerPCs, SweeperPCs, NoJob
<1>2. IInv /\ [Next]_vars => IInv'
  BY TypeStep, EntryStep, FreshStep, RemovedStep
<1>3. IInv => RemovedIsAnswered
  OBVIOUS
<1> QED
  BY <1>1, <1>2, <1>3, PTL DEF Spec

-----------------------------------------------------------------------------
(* The books of a connection: what its worker runs, what counts against    *)
(* its slots, and what the pool reports.                                   *)

\* The goroutine that forgot the job has yet to say so.
Expiring(w, j) ==
  reader[w].job = j /\ reader[w].pc \in {"expireXack", "expireXdel", "expirePublish"}
Acking(w, j) == handler[w].job = j /\ handler[w].pc \in {"xack", "xdel"}

\* A job about to be sent is on the books, and no older execution of it is
\* left that could take it off; unless its caller is answered already.
Books(w) ==
  /\ status[w] # "connected" => running[w] = {}
  /\ \A j \in running[w] \ active[w] : answered[j] # "none" \/ Expiring(w, j)
  /\ \A j \in poolJobs[w] \ active[w] : Acking(w, j) \/ Expiring(w, j)
  /\ reader[w].pc = "send" =>
       answered[reader[w].job] # "none" \/ reader[w].job \in active[w] \ running[w]
  /\ handler[w].pc = "untrack" => handler[w].kind = "error"
BooksInv == \A w \in Conns : Books(w)

\* The books of v, and their owner's goroutines, are as they were.
Alike(v) ==
  /\ running'[v] = running[v] /\ active'[v] = active[v] /\ poolJobs'[v] = poolJobs[v]
  /\ reader'[v] = reader[v] /\ handler'[v] = handler[v]
  /\ status'[v] = status[v]

\* A step of one connection leaves the others' books alone.
LEMMA BooksOfOthers ==
  ASSUME TypeInv, [Next]_vars, NEW v \in Conns, Books(v), Alike(v)
  PROVE  Books(v)'
<1>1. \A j \in Jobs : answered[j] # "none" => answered'[j] # "none"
  BY AnswersKept
<1>2. /\ running[v] \subseteq Jobs
      /\ reader[v].pc = "send" => reader[v].job \in Jobs
  BY DEF TypeInv, TypeOK
<1> QED
  BY <1>1, <1>2 DEF Books, Alike, Expiring, Acking

LEMMA PoolFrame ==
  ASSUME TypeInv, NEW w \in Conns, NEW j, PoolComplete(w, j)
  PROVE  /\ poolJobs'[w] = poolJobs[w] \ {j}
         /\ \A v \in Conns : v # w => poolJobs'[v] = poolJobs[v]
BY DEF TypeInv, TypeOK, PoolComplete

LEMMA Untracked ==
  ASSUME TypeInv, NEW w \in Conns, NEW j, Untrack(w, j)
  PROVE  /\ active'[w] = active[w] \ {j}
         /\ \A v \in Conns : v # w => active'[v] = active[v]
BY DEF TypeInv, TypeOK, Untrack

LEMMA BooksConnection ==
  ASSUME TypeInv, Fresh, BooksInv, NEW w \in Conns, [Next]_vars,
         \/ \E n \in SlotCounts : Connect(w, n) \/ ConnectFails(w, n) \/ Reconfigure(w, n)
         \/ LinkBreaks(w) \/ Disconnect(w) \/ Cleanup(w) \/ Ping(w) \/ HeartbeatLapses(w)
  PROVE  BooksInv'
<1> USE DEF redisVars, trackVars
<1>1. ASSUME NEW n \in SlotCounts, Connect(w, n) PROVE BooksInv'
  <2>1. ReaderBecomes(w, "top", {}, NoJob)
    BY <1>1, ReaderFrame DEF Connect, ReaderBecomes
  <2>2. \A v \in Conns : status'[v] = IF v = w THEN "connected" ELSE status[v]
    BY <1>1 DEF Connect, TypeInv, TypeOK
  <2>3. reader[w].pc = "off"
    BY <1>1 DEF Connect, Fresh
  <2>4. Books(w)'
    BY <1>1, <2>1, <2>2, <2>3 DEF Connect, BooksInv, Books, ReaderBecomes, Expiring, Acking
  <2>5. \A v \in Conns : v # w => Alike(v)
    BY <1>1, <2>1, <2>2 DEF Connect, ReaderBecomes, Alike
  <2> QED  BY <2>4, <2>5, BooksOfOthers DEF BooksInv
<1>2. ASSUME NEW n \in SlotCounts, ConnectFails(w, n) PROVE BooksInv'
  <2>1. \A v \in Conns : status'[v] = IF v = w THEN "closing" ELSE status[v]
    BY <1>2 DEF ConnectFails, TypeInv, TypeOK
  <2> QED  BY <1>2, <2>1 DEF ConnectFails, BooksInv, Books, Expiring, Acking
<1>3. CASE LinkBreaks(w)
  <2>1. \A v \in Conns : /\ status'[v] = IF v = w THEN "broken" ELSE status[v]
                         /\ running'[v] = IF v = w THEN {} ELSE running[v]
    BY <1>3 DEF LinkBreaks, TypeInv, TypeOK
  <2> QED  BY <1>3, <2>1 DEF LinkBreaks, BooksInv, Books, Expiring, Acking
<1>4. CASE Disconnect(w)
  <2>1. \A v \in Conns : status'[v] = IF v = w THEN "closing" ELSE status[v]
    BY <1>4 DEF Disconnect, TypeInv, TypeOK
  <2> QED  BY <1>4, <2>1 DEF Disconnect, BooksInv, Books, Expiring, Acking
<1>5. CASE Cleanup(w)
  <2>1. \A v \in Conns : /\ status'[v] = IF v = w THEN "closed" ELSE status[v]
                         /\ poolJobs'[v] = IF v = w THEN {} ELSE poolJobs[v]
    BY <1>5 DEF Cleanup, TypeInv, TypeOK
  <2> QED  BY <1>5, <2>1 DEF Cleanup, BooksInv, Books, Expiring, Acking
<1>6. ASSUME \/ Ping(w) \/ HeartbeatLapses(w)
             \/ \E n \in SlotCounts : Reconfigure(w, n)
      PROVE  BooksInv'
  BY <1>6 DEF Ping, HeartbeatLapses, Reconfigure, BooksInv, Books, Expiring, Acking
<1> QED
  BY <1>1, <1>2, <1>3, <1>4, <1>5, <1>6

\* The reader's steps.  A cancelled reader's worker runs nothing, so that an
\* expiry which fails half-way leaves no execution behind.
LEMMA BooksReader ==
  ASSUME TypeInv, BooksInv, NEW w \in Conns, ReaderStep(w), [Next]_vars
  PROVE  BooksInv'
<1> USE DEF redisVars, trackVars
<1>b. Books(w) /\ w \in Conns
  BY DEF BooksInv
<1>f. ASSUME NEW pc, NEW todo, NEW j, ReaderAt(w, pc, todo, j)
      PROVE  ReaderBecomes(w, pc, todo, j)
  BY <1>f, ReaderFrame DEF ReaderBecomes
<1>q. ASSUME NEW pc, NEW todo, NEW j, ReaderBecomes(w, pc, todo, j), Books(w)',
             UNCHANGED <<handler, status>>,
             \A v \in Conns : v # w => /\ running'[v] = running[v]
                                       /\ active'[v] = active[v]
                                       /\ poolJobs'[v] = poolJobs[v]
      PROVE  BooksInv'
  BY <1>q, BooksOfOthers DEF BooksInv, Alike, ReaderBecomes
<1>u. ASSUME UNCHANGED <<running, active, poolJobs, handler, status, answered>>,
             NEW pc, NEW todo, NEW j, ReaderAt(w, pc, todo, j),
             reader[w].pc \notin {"expireXack", "expireXdel", "expirePublish"}, pc # "send"
      PROVE  BooksInv'
  <2>1. ReaderBecomes(w, pc, todo, j)
    BY <1>f, <1>u
  <2>2. Books(w)'
    BY <1>b, <1>u, <2>1 DEF Books, ReaderBecomes, Expiring, Acking
  <2> QED  BY <1>q, <1>u, <2>1, <2>2
<1>1. CASE \/ ReaderStops(w) \/ ReaderTop(w) \/ ReadPending(w) \/ ReadNew(w)
           \/ ReadTimeout(w) \/ DispatchSkip(w)
  <2>1. /\ UNCHANGED <<running, active, poolJobs, handler, status, answered>>
        /\ reader[w].pc \notin {"expireXack", "expireXdel", "expirePublish"}
    BY <1>1 DEF ReaderStops, ReaderTop, ReadPending, ReadNew, ReadTimeout, DispatchSkip
  <2>2. \E pc \in ReaderPCs \ {"send"} : \E todo, j : ReaderAt(w, pc, todo, j)
    BY <1>1 DEF ReaderStops, ReaderTop, ReadPending, ReadNew, ReadTimeout, DispatchSkip,
                NextEntry, ReaderPCs
  <2> QED  BY <1>u, <2>1, <2>2
<1>2. CASE ExpireUntrack(w)
  <2>1. PICK j \in reader[w].todo :
          /\ Untrack(w, j)
          /\ ReaderBecomes(w, "expireXack", reader[w].todo \ {j}, j)
    BY <1>2, <1>f DEF ExpireUntrack
  <2>2. /\ active'[w] = active[w] \ {j}
        /\ \A v \in Conns : v # w => active'[v] = active[v]
    BY <2>1, Untracked
  <2>3. Books(w)'
    <3>1. /\ active'[w] = active[w] \ {j}
          /\ reader'[w].pc = "expireXack" /\ reader'[w].job = j
          /\ UNCHANGED <<running, poolJobs, handler, status, answered>>
          /\ reader[w].pc = "expire"
      BY <1>2, <2>1, <2>2 DEF ExpireUntrack, ReaderBecomes
    <3> QED  BY <1>b, <3>1 DEF Books, Expiring, Acking
  <2> QED  BY <1>2, <1>q, <2>1, <2>2, <2>3 DEF ExpireUntrack
<1>3. CASE ExpireXack(w) \/ ExpireXdel(w)
  <2>1. PICK pc \in {"expireXdel", "expirePublish"} :
          ReaderBecomes(w, pc, reader[w].todo, reader[w].job)
    BY <1>3, <1>f DEF ExpireXack, ExpireXdel
  <2>2. /\ UNCHANGED <<running, active, poolJobs, handler, status, answered>>
        /\ reader[w].pc \in {"expireXack", "expireXdel"}
    BY <1>3 DEF ExpireXack, ExpireXdel
  <2>3. Books(w)'
    BY <1>b, <2>1, <2>2 DEF ReaderBecomes, Books, Expiring, Acking
  <2> QED  BY <1>q, <2>1, <2>2, <2>3
<1>4. CASE ExpirePublish(w) \/ ExpireFails(w)
  <2>1. PICK pc \in {"pending", "expire"} : ReaderBecomes(w, pc, reader[w].todo, NoJob)
    BY <1>4, <1>f DEF ExpirePublish, ExpireFails, NextExpiry
  <2>2. /\ PoolComplete(w, reader[w].job)
        /\ UNCHANGED <<running, active, handler, status>>
    BY <1>4 DEF ExpirePublish, ExpireFails
  <2>3. /\ poolJobs'[w] = poolJobs[w] \ {reader[w].job}
        /\ \A v \in Conns : v # w => poolJobs'[v] = poolJobs[v]
    BY <2>2, PoolFrame
  <2>4. running[w] \subseteq Jobs
    BY DEF TypeInv, TypeOK
  <2>5. \A j \in Jobs : answered[j] # "none" => answered'[j] # "none"
    BY AnswersKept
  <2>6. reader[w].job \in running[w] => answered'[reader[w].job] # "none"
    <3>1. CASE ExpirePublish(w)
      <4>1. PICK reply \in {"unsent", "timeout"} : Publish(reader[w].job, reply)
        BY <3>1 DEF ExpirePublish
      <4> QED  BY <2>4, <4>1, PublishFrame
    <3>2. CASE ExpireFails(w)
      BY <1>b, <3>2 DEF ExpireFails, Cancelled, Books
    <3> QED  BY <1>4, <3>1, <3>2
  <2>7. Books(w)'
    <3>1. /\ poolJobs'[w] = poolJobs[w] \ {reader[w].job}
          /\ reader'[w].pc \in {"pending", "expire"}
      BY <2>1, <2>3 DEF ReaderBecomes
    <3> QED  BY <1>b, <2>2, <2>4, <2>5, <2>6, <3>1 DEF Books, Expiring, Acking
  <2> QED  BY <1>q, <2>1, <2>2, <2>3, <2>7
<1>5. CASE DispatchAssign(w)
  <2>1. PICK j \in Jobs :
          /\ j \notin active[w]
          /\ active' = [active EXCEPT ![w] = @ \cup {j}]
          /\ PoolAssign(w, j)
          /\ ReaderBecomes(w, "send", reader[w].todo \ {j}, j)
    BY <1>5, <1>f DEF DispatchAssign
  <2>2. /\ reader[w].pc = "dispatch"
        /\ UNCHANGED <<running, handler, status, answered>>
    BY <1>5 DEF DispatchAssign
  <2>3. \A v \in Conns : active'[v] = IF v = w THEN active[v] \cup {j} ELSE active[v]
    BY <2>1 DEF TypeInv, TypeOK
  <2>4. \A v \in Conns : \/ poolJobs'[v] = poolJobs[v]
                         \/ v = w /\ poolJobs'[v] = poolJobs[v] \cup {j}
    BY <2>1 DEF PoolAssign, TypeInv, TypeOK
  <2>5. Books(w)'
    BY <1>b, <2>1, <2>2, <2>3, <2>4 DEF ReaderBecomes, Books, Expiring, Acking
  <2> QED  BY <1>q, <2>1, <2>2, <2>3, <2>4, <2>5
<1>6. ASSUME NEW todo, NextEntry(w, todo)
      PROVE  \E pc \in {"top", "dispatch"} : ReaderBecomes(w, pc, todo, NoJob)
  BY <1>6, <1>f DEF NextEntry
<1>7. CASE Send(w)
  <2>1. PICK pc \in {"top", "dispatch"} : ReaderBecomes(w, pc, reader[w].todo, NoJob)
    BY <1>6, <1>7 DEF Send
  <2>2. \A v \in Conns :
          running'[v] = IF v = w /\ status[w] = "connected"
                        THEN running[v] \cup {reader[w].job} ELSE running[v]
    BY <1>7 DEF Send, TypeInv, TypeOK
  <2>3. Books(w)'
    BY <1>7, <1>b, <2>1, <2>2 DEF Send, ReaderBecomes, Books, Expiring, Acking
  <2> QED  BY <1>7, <1>q, <2>1, <2>2, <2>3 DEF Send
<1>8. CASE SendFails(w)
  <2>1. PICK pc \in {"top", "dispatch"} : ReaderBecomes(w, pc, reader[w].todo, NoJob)
    BY <1>6, <1>8 DEF SendFails
  <2>2. /\ active'[w] = active[w] \ {reader[w].job}
        /\ poolJobs'[w] = poolJobs[w] \ {reader[w].job}
        /\ \A v \in Conns : v # w => /\ active'[v] = active[v]
                                     /\ poolJobs'[v] = poolJobs[v]
    BY <1>8, PoolFrame, Untracked DEF SendFails
  <2>3. Books(w)'
    <3>1. /\ active'[w] = active[w] \ {reader[w].job}
          /\ poolJobs'[w] = poolJobs[w] \ {reader[w].job}
          /\ reader'[w].pc \in {"top", "dispatch"} /\ reader[w].pc = "send"
          /\ running[w] = {}
          /\ UNCHANGED <<running, handler, status, answered>>
      BY <1>8, <1>b, <2>1, <2>2 DEF SendFails, ReaderBecomes, Books
    <3> QED  BY <1>b, <3>1 DEF Books, Expiring, Acking
  <2> QED  BY <1>8, <1>q, <2>1, <2>2, <2>3 DEF SendFails
<1> QED
  BY <1>1, <1>2, <1>3, <1>4, <1>5, <1>7, <1>8 DEF ReaderStep

\* The steps of the message loop and of a job that grows old.
LEMMA BooksHandler ==
  ASSUME TypeInv, EntryInv, BooksInv, NEW w \in Conns, [Next]_vars,
         \/ HandlerStep(w)
         \/ \E j \in Jobs : \/ Ages(w, j) \/ EndsInSilence(w, j)
                            \/ ReceiveComplete(w, j) \/ ReceiveError(w, j)
  PROVE  BooksInv'
<1> USE DEF redisVars, trackVars
<1>b. Books(w) /\ w \in Conns
  BY DEF BooksInv
<1>a. /\ \A j \in Jobs : answered[j] # "none" => answered'[j] # "none"
      /\ running[w] \subseteq Jobs
      /\ reader[w].pc = "send" => reader[w].job \in Jobs
  BY AnswersKept DEF TypeInv, TypeOK
<1>f. ASSUME NEW pc, NEW j, NEW kind, HandlerAt(w, pc, j, kind)
      PROVE  HandlerBecomes(w, pc, j, kind)
  BY <1>f, HandlerFrame DEF HandlerBecomes
<1>q. ASSUME NEW pc, NEW j, NEW kind, HandlerBecomes(w, pc, j, kind), Books(w)',
             UNCHANGED <<reader, status>>,
             \A v \in Conns : v # w => /\ running'[v] = running[v]
                                       /\ active'[v] = active[v]
                                       /\ poolJobs'[v] = poolJobs[v]
      PROVE  BooksInv'
  BY <1>q, BooksOfOthers DEF BooksInv, Alike, HandlerBecomes
<1>1. ASSUME NEW j \in Jobs, Ages(w, j) PROVE BooksInv'
  BY <1>1 DEF Ages, BooksInv, Books, Expiring, Acking
<1>8. ASSUME NEW j \in Jobs, EndsInSilence(w, j) PROVE BooksInv'
  <2>1. /\ running'[w] = running[w] \ {j}
        /\ \A v \in Conns : v # w => running'[v] = running[v]
    BY <1>8 DEF EndsInSilence, TypeInv, TypeOK
  <2>2. UNCHANGED <<answered, status, reader, handler, active, poolJobs>>
    BY <1>8 DEF EndsInSilence
  <2> QED  BY <2>1, <2>2 DEF BooksInv, Books, Expiring, Acking
<1>2. ASSUME NEW j \in Jobs, ReceiveComplete(w, j) PROVE BooksInv'
  <2>1. /\ running'[w] = running[w] \ {j} /\ active'[w] = active[w] \ {j}
        /\ \A v \in Conns : v # w => running'[v] = running[v] /\ active'[v] = active[v]
    BY <1>2, Untracked DEF ReceiveComplete, TypeInv, TypeOK
  <2>2. /\ j \in running[w] /\ handler[w].pc = "idle"
        /\ UNCHANGED <<answered, status, reader>>
    BY <1>2 DEF ReceiveComplete
  <2>3. CASE j \in active[w]
    <3>1. HandlerBecomes(w, "xack", j, "done") /\ UNCHANGED poolJobs
      BY <1>2, <1>f, <2>3 DEF ReceiveComplete
    <3>2. handler'[w].pc = "xack" /\ handler'[w].job = j
      BY <3>1 DEF HandlerBecomes
    <3>3. Books(w)'
      BY <1>b, <2>1, <2>2, <3>1, <3>2 DEF Books, Expiring, Acking
    <3> QED  BY <1>q, <2>1, <2>2, <3>1, <3>3
  <2>4. CASE j \notin active[w]
    <3>1. HandlerBecomes(w, "publish", j, "done") /\ PoolComplete(w, j)
      BY <1>2, <1>f, <2>4 DEF ReceiveComplete
    <3>2. /\ handler'[w].pc = "publish"
          /\ poolJobs'[w] = poolJobs[w] \ {j}
          /\ \A v \in Conns : v # w => poolJobs'[v] = poolJobs[v]
      BY <3>1, PoolFrame DEF HandlerBecomes
    <3>3. Books(w)'
      BY <1>b, <2>1, <2>2, <3>2 DEF Books, Expiring, Acking
    <3> QED  BY <1>q, <2>1, <2>2, <3>1, <3>2, <3>3
  <2> QED  BY <2>3, <2>4
<1>3. ASSUME NEW j \in Jobs, ReceiveError(w, j) PROVE BooksInv'
  <2>1. /\ running'[w] = running[w] \ {j}
        /\ \A v \in Conns : v # w => running'[v] = running[v]
    BY <1>3 DEF ReceiveError, TypeInv, TypeOK
  <2>2. /\ HandlerBecomes(w, "untrack", j, "error") /\ handler[w].pc = "idle"
        /\ UNCHANGED <<active, poolJobs, status, reader>>
    BY <1>3, <1>f DEF ReceiveError
  <2>3. handler'[w].pc = "untrack" /\ handler'[w].kind = "error"
    BY <2>2 DEF HandlerBecomes
  <2>4. Books(w)'
    BY <1>a, <1>b, <2>1, <2>2, <2>3 DEF Books, Expiring, Acking
  <2> QED  BY <1>q, <2>1, <2>2, <2>4
<1>4. CASE HandlerUntrack(w)
  <2> DEFINE j == handler[w].job
  <2>1. /\ active'[w] = active[w] \ {j}
        /\ \A v \in Conns : v # w => active'[v] = active[v]
    BY <1>4, Untracked DEF HandlerUntrack
  <2>2. answered[j] # "none" /\ handler[w].pc = "untrack"
    BY <1>b, <1>4 DEF HandlerUntrack, Books, EntryInv, ErrorsPublished
  <2>3. UNCHANGED <<answered, status, reader, running>>
    BY <1>4 DEF HandlerUntrack
  <2>4. CASE j \in active[w]
    <3>1. HandlerBecomes(w, "xack", j, handler[w].kind) /\ UNCHANGED poolJobs
      BY <1>4, <1>f, <2>4 DEF HandlerUntrack, HandlerGoes
    <3>2. handler'[w].pc = "xack" /\ handler'[w].job = j
      BY <3>1 DEF HandlerBecomes
    <3>3. Books(w)'
      BY <1>b, <2>1, <2>2, <2>3, <3>1, <3>2 DEF Books, Expiring, Acking
    <3> QED  BY <1>q, <2>1, <2>3, <3>1, <3>3
  <2>5. CASE j \notin active[w]
    <3>1. HandlerBecomes(w, "idle", j, handler[w].kind) /\ PoolComplete(w, j)
      BY <1>4, <1>f, <2>5 DEF HandlerUntrack, HandlerGoes
    <3>2. /\ handler'[w].pc = "idle"
          /\ poolJobs'[w] = poolJobs[w] \ {j}
          /\ \A v \in Conns : v # w => poolJobs'[v] = poolJobs[v]
      BY <3>1, PoolFrame DEF HandlerBecomes
    <3>3. Books(w)'
      BY <1>b, <2>1, <2>2, <2>3, <3>2 DEF Books, Expiring, Acking
    <3> QED  BY <1>q, <2>1, <2>3, <3>1, <3>2, <3>3
  <2> QED  BY <2>4, <2>5
<1>5. CASE HandlerXack(w)
  <2>1. /\ HandlerBecomes(w, "xdel", handler[w].job, handler[w].kind)
        /\ handler[w].pc = "xack"
        /\ UNCHANGED <<answered, status, reader, running, active, poolJobs>>
    BY <1>5, <1>f DEF HandlerXack, HandlerGoes
  <2>2. handler'[w].pc = "xdel" /\ handler'[w].job = handler[w].job
    BY <2>1 DEF HandlerBecomes
  <2>3. Books(w)'
    BY <1>b, <2>1, <2>2 DEF Books, Expiring, Acking
  <2> QED  BY <1>q, <2>1, <2>3
<1>6. CASE HandlerXdel(w)
  <2>1. PICK pc \in {"publish", "idle"} :
          HandlerBecomes(w, pc, handler[w].job, handler[w].kind)
    BY <1>6, <1>f DEF HandlerXdel, HandlerGoes
  <2>2. handler[w].pc = "xdel" /\ UNCHANGED <<answered, status, reader, running, active>>
    BY <1>6 DEF HandlerXdel
  <2>3. /\ handler'[w].pc \in {"publish", "idle"}
        /\ poolJobs'[w] = poolJobs[w] \ {handler[w].job}
        /\ \A v \in Conns : v # w => poolJobs'[v] = poolJobs[v]
    BY <1>6, <2>1, PoolFrame DEF HandlerXdel, HandlerBecomes
  <2>4. Books(w)'
    BY <1>b, <2>2, <2>3 DEF Books, Expiring, Acking
  <2> QED  BY <1>q, <2>1, <2>2, <2>3, <2>4
<1>7. CASE HandlerPublish(w)
  <2>1. /\ HandlerBecomes(w, "idle", handler[w].job, handler[w].kind)
        /\ handler[w].pc = "publish"
        /\ UNCHANGED <<status, reader, running, active, poolJobs>>
    BY <1>7, <1>f DEF HandlerPublish, HandlerGoes
  <2>2. handler'[w].pc = "idle"
    BY <2>1 DEF HandlerBecomes
  <2>3. Books(w)'
    BY <1>a, <1>b, <2>1, <2>2 DEF Books, Expiring, Acking
  <2> QED  BY <1>q, <2>1, <2>3
<1> QED
  BY <1>1, <1>2, <1>3, <1>4, <1>5, <1>6, <1>7, <1>8 DEF HandlerStep

LEMMA BooksStep == TypeInv /\ EntryInv /\ Fresh /\ BooksInv /\ [Next]_vars => BooksInv'
<1> SUFFICES ASSUME TypeInv, EntryInv, Fresh, BooksInv, [Next]_vars PROVE BooksInv'
  OBVIOUS
<1>1. CASE UNCHANGED vars \/ Enqueue \/ SweeperStep
  <2>1. UNCHANGED <<running, active, poolJobs, reader, handler, status, answered>>
    BY <1>1 DEF vars, Enqueue, SweeperStep, SweepFindDead, SweepFindLive, SweepDelete,
                SweepList, SweepClaim, redisVars, trackVars
  <2> QED  BY <2>1 DEF BooksInv, Books, Expiring, Acking
<1> QED
  BY <1>1, BooksConnection, BooksReader, BooksHandler DEF Next

LEMMA InitBooks == Init => TypeInv /\ EntryInv /\ Fresh /\ BooksInv
<1> SUFFICES ASSUME Init PROVE TypeInv /\ EntryInv /\ Fresh /\ BooksInv
  OBVIOUS
<1>1. TypeInv /\ EntryInv /\ Fresh
  BY DEF Init, TypeInv, TypeOK, EntryInv, StreamInv, OnlyDelivered, Delivered,
         PendingInStream, UndeliveredInStream, XackBeforeXdel, ErrorsPublished,
         Fresh, Jobs, Statuses, Replies, ReaderPCs, HandlerPCs, SweeperPCs, NoJob
<1>2. \A w \in Conns : /\ running[w] = {} /\ poolJobs[w] = {}
                       /\ reader[w].pc = "off" /\ handler[w].pc = "idle"
  BY DEF Init
<1>3. BooksInv
  BY <1>2 DEF BooksInv, Books
<1> QED  BY <1>1, <1>3

LEMMA BooksKept == Spec => [](BooksInv /\ TypeInv)
<1> DEFINE IInv == TypeInv /\ EntryInv /\ Fresh /\ BooksInv
<1>1. Init => IInv
  BY InitBooks
<1>2. IInv /\ [Next]_vars => IInv'
  BY TypeStep, EntryStep, FreshStep, BooksStep
<1>3. IInv => BooksInv /\ TypeInv
  OBVIOUS
<1> QED
  BY <1>1, <1>2, <1>3, PTL DEF Spec

\* A worker never runs a job off the books, unless its caller is answered, or
\* given up by an expiry on a broken connection, or the reader that gave the job
\* up is about to say so: expiry is the one way a job leaves the books before its
\* execution ends.
THEOREM OffTheBooksIsAnswered == Spec => []UntrackedIsAnswered
<1>1. BooksInv => UntrackedIsAnswered
  BY DEF BooksInv, Books, UntrackedIsAnswered, Expiring
<1> QED
  BY <1>1, BooksKept, PTL

\* What the pool reports for a worker is never more than what the reader
\* counts, beyond the one job a goroutine of the connection has just taken off
\* and is about to report: no path forgets to tell the pool.
THEOREM PoolCountIsTrue == Spec => []PoolNeverOvercounts
<1>1. BooksInv => PoolNeverOvercounts
  BY DEF BooksInv, Books, PoolNeverOvercounts, Expiring, Acking
<1> QED
  BY <1>1, BooksKept, PTL
=============================================================================
