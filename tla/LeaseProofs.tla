----------------------------- MODULE LeaseProofs -----------------------------
(***************************************************************************)
(* What the documented timing is for, for any number of connections and    *)
(* jobs and any batch sizes: the sweeper loses no job, as long as there    *)
(* are no more than it claims at once, and a pending entry is a lease, its *)
(* holder the one live connection that may execute the job.                *)
(***************************************************************************)
EXTENDS DispatchProofs

-----------------------------------------------------------------------------
(* The sweeper.  A consumer with pending entries has had a heartbeat key   *)
(* (Seasoned), so one without a key is closed for good and its pending     *)
(* list cannot grow between the sweeper's XPENDING and its DELCONSUMER.    *)
Seasoned(w) == status[w] \in {"connected", "broken", "closed"} \/ w \in beat

BeatInv ==
  \A w \in Conns :
    /\ status[w] \in {"connected", "broken"} => w \in beat
    /\ w \in beat => status[w] \in {"connected", "broken", "closing"}
    /\ reader[w].pc # "off" => Seasoned(w)
    /\ \A j \in Jobs : pel[j] = w => Seasoned(w)

\* What w has pending after the step.
PendingNext(w) == {j \in Jobs : pel'[j] = w}

\* Whom the sweeper thinks dead is closed, whom it thinks live has had a key.
SweepView ==
  /\ sweeper.pc = "idle" => sweeper.live = {}
  /\ sweeper.pc = "live" => sweeper.live = {}
  /\ \A w \in sweeper.live : Seasoned(w)
  /\ \A w \in sweeper.dead : status[w] = "closed" /\ w \notin sweeper.live
  /\ sweeper.pc \in {"claim", "delete"} =>
       /\ sweeper.from \in Conns
       /\ status[sweeper.from] = "closed"
       /\ sweeper.from \notin sweeper.live

\* What the sweeper has listed of a dead consumer is all it had.
SweepListing ==
  /\ sweeper.pc = "claim" => PendingOf(sweeper.from) \subseteq sweeper.ids
  /\ sweeper.pc = "delete" => PendingOf(sweeper.from) = {}

SweeperInv == SweepView /\ SweepListing

USE ConnsAssumption, JobsAssumption, BatchAssumption

-----------------------------------------------------------------------------
(* A listing of at most ClaimBatch entries is complete.                    *)
LEMMA FirstIsAll ==
  ASSUME NumJobs <= ClaimBatch, NEW S \in SUBSET Jobs
  PROVE  First(ClaimBatch, S) = S
<1> SUFFICES ASSUME NEW j \in S
             PROVE  Cardinality({k \in S : k < j}) < ClaimBatch
  BY DEF First
<1>1. j \in 1 .. NumJobs
  BY DEF Jobs
<1>2. {k \in S : k < j} \subseteq 1 .. (j - 1)
  <2> SUFFICES ASSUME NEW k \in S, k < j PROVE k \in 1 .. (j - 1)
    OBVIOUS
  <2>1. k \in 1 .. NumJobs
    BY DEF Jobs
  <2> QED  BY <1>1, <2>1
<1>3. IsFiniteSet(1 .. (j - 1)) /\ Cardinality(1 .. (j - 1)) = j - 1
  BY <1>1, FS_Interval
<1>4. Cardinality({k \in S : k < j}) <= j - 1 /\ Cardinality({k \in S : k < j}) \in Nat
  BY <1>2, <1>3, FS_Subset, FS_CardinalityType
<1> QED
  BY <1>1, <1>4

-----------------------------------------------------------------------------
(* Once seasoned, always seasoned; once closed, always closed.             *)
LEMMA SeasonedKept ==
  ASSUME Timely, TypeInv, BeatInv, [Next]_vars, NEW w \in Conns
  PROVE  /\ Seasoned(w) => Seasoned(w)'
         /\ status[w] = "closed" => status'[w] = "closed"
         /\ status'[w] \in {"connected", "broken"} => w \in beat'
         /\ w \in beat' => status'[w] \in {"connected", "broken", "closing"}
<1> USE DEF redisVars, trackVars, BeatInv, Seasoned
<1>1. CASE UNCHANGED <<status, beat>>
  BY <1>1
<1>2. ASSUME NEW v \in Conns, NEW n \in SlotCounts, Connect(v, n) \/ ConnectFails(v, n)
      PROVE  /\ Seasoned(w) => Seasoned(w)'
             /\ status[w] = "closed" => status'[w] = "closed"
             /\ status'[w] \in {"connected", "broken"} => w \in beat'
             /\ w \in beat' => status'[w] \in {"connected", "broken", "closing"}
  BY <1>2 DEF Connect, ConnectFails, TypeInv, TypeOK
<1>3. ASSUME NEW v \in Conns,
             LinkBreaks(v) \/ Disconnect(v) \/ Cleanup(v) \/ Ping(v) \/ HeartbeatLapses(v)
      PROVE  /\ Seasoned(w) => Seasoned(w)'
             /\ status[w] = "closed" => status'[w] = "closed"
             /\ status'[w] \in {"connected", "broken"} => w \in beat'
             /\ w \in beat' => status'[w] \in {"connected", "broken", "closing"}
  BY <1>3 DEF LinkBreaks, Disconnect, Cleanup, Ping, HeartbeatLapses, TypeInv, TypeOK
<1>4. CASE UNCHANGED vars \/ Enqueue \/ SweeperStep
  BY <1>1, <1>4 DEF vars, Enqueue, SweeperStep, SweepFindDead, SweepFindLive, SweepDelete,
              SweepList, SweepClaim
<1>5. ASSUME NEW v \in Conns,
             \/ ReaderStep(v)
             \/ \E n \in SlotCounts : Reconfigure(v, n)
      PROVE  UNCHANGED <<status, beat>>
  BY <1>5 DEF Reconfigure, ReaderStep, ReaderStops, ReaderTop, ExpireUntrack, ExpireXack,
       ExpireXdel, ExpirePublish, ExpireFails, ReadPending, ReadNew, ReadTimeout,
       DispatchSkip, DispatchAssign, Send, SendFails
<1>6. ASSUME NEW v \in Conns,
             \/ HandlerStep(v)
             \/ \E k \in Jobs : \/ Ages(v, k) \/ EndsInSilence(v, k)
                                \/ ReceiveComplete(v, k) \/ ReceiveError(v, k)
      PROVE  UNCHANGED <<status, beat>>
  BY <1>6 DEF HandlerStep, HandlerUntrack, HandlerXack, HandlerXdel, HandlerPublish,
       Ages, EndsInSilence, ReceiveComplete, ReceiveError
<1> QED
  BY <1>1, <1>2, <1>3, <1>4, <1>5, <1>6 DEF Next

\* An entry enters a pending list by a read or by a claim only.
LEMMA PendingGrows ==
  ASSUME TypeInv, [Next]_vars, NEW v \in Conns, NEW j \in Jobs, pel'[j] = v
  PROVE  \/ pel[j] = v
         \/ ReadNew(v) /\ j = lastDelivered + 1
         \/ SweepClaim(v) /\ j \in sweeper.ids /\ pel[j] # NoConn
<1> USE DEF redisVars, trackVars
<1>1. ASSUME NEW w \in Conns, ReadNew(w)
      PROVE  pel[j] = v \/ (ReadNew(v) /\ j = lastDelivered + 1)
  <2>1. pel' = [pel EXCEPT ![lastDelivered + 1] = w]
    BY <1>1 DEF ReadNew
  <2>2. (pel'[j] = w /\ j = lastDelivered + 1) \/ pel'[j] = pel[j]
    BY <2>1 DEF TypeInv, TypeOK
  <2> QED  BY <1>1, <2>2
<1>2. ASSUME NEW to \in Conns, SweepClaim(to)
      PROVE  pel[j] = v \/ (SweepClaim(v) /\ j \in sweeper.ids /\ pel[j] # NoConn)
  <2>1. pel'[j] = IF j \in sweeper.ids /\ pel[j] # NoConn THEN to ELSE pel[j]
    BY <1>2 DEF SweepClaim
  <2> QED  BY <1>2, <2>1
<1>3. CASE SweepDelete
  BY <1>3 DEF SweepDelete, TypeInv, TypeOK
<1>4. ASSUME NEW k, XAck(k) PROVE pel[j] = v
  BY <1>4, XAckFrame
<1>5. CASE UNCHANGED vars \/ Enqueue \/ SweepFindDead \/ SweepFindLive
  BY <1>5 DEF vars, Enqueue, SweepFindDead, SweepFindLive
<1>6. ASSUME NEW w \in Conns, SweepList(w) PROVE pel[j] = v
  BY <1>6 DEF SweepList
<1>7. ASSUME NEW w \in Conns,
             \/ \E n \in SlotCounts : Connect(w, n) \/ ConnectFails(w, n) \/ Reconfigure(w, n)
             \/ LinkBreaks(w) \/ Disconnect(w) \/ Cleanup(w) \/ Ping(w) \/ HeartbeatLapses(w)
      PROVE  pel[j] = v
  BY <1>7 DEF Connect, ConnectFails, Reconfigure, LinkBreaks, Disconnect, Cleanup,
              Ping, HeartbeatLapses
<1>8. ASSUME NEW w \in Conns, ReaderStep(w), ~ReadNew(w) PROVE pel[j] = v
  BY <1>4, <1>8 DEF ReaderStep, ReaderStops, ReaderTop, ExpireUntrack, ExpireXack,
       ExpireXdel, ExpirePublish, ExpireFails, ReadPending, ReadTimeout, DispatchSkip,
       DispatchAssign, Send, SendFails
<1>9. ASSUME NEW w \in Conns,
             \/ HandlerStep(w)
             \/ \E k \in Jobs : \/ Ages(w, k) \/ EndsInSilence(w, k)
                                \/ ReceiveComplete(w, k) \/ ReceiveError(w, k)
      PROVE  pel[j] = v
  BY <1>4, <1>9 DEF HandlerStep, HandlerUntrack, HandlerXack, HandlerXdel, HandlerPublish,
       Ages, EndsInSilence, ReceiveComplete, ReceiveError
<1> QED
  BY <1>1, <1>2, <1>3, <1>5, <1>6, <1>7, <1>8, <1>9 DEF Next, SweeperStep

LEMMA BeatStep ==
  ASSUME Timely, TypeInv, Fresh, BeatInv, SweepView, [Next]_vars
  PROVE  BeatInv'
<1>1. ASSUME NEW w \in Conns
      PROVE  /\ status'[w] \in {"connected", "broken"} => w \in beat'
             /\ w \in beat' => status'[w] \in {"connected", "broken", "closing"}
             /\ Seasoned(w) => Seasoned(w)'
  BY SeasonedKept
<1>2. ASSUME NEW w \in Conns, NEW j \in Jobs, pel'[j] = w
      PROVE  Seasoned(w)'
  <2>1. Seasoned(w)
    BY <1>2, PendingGrows DEF BeatInv, SweepView, ReadNew, SweepClaim
  <2> QED  BY <1>1, <2>1
<1>3. ASSUME NEW w \in Conns, reader'[w].pc # "off"
      PROVE  Seasoned(w)'
  <2> USE DEF redisVars, trackVars
  <2>1. CASE reader[w].pc # "off"
    BY <1>1, <2>1 DEF BeatInv
  <2>2. CASE reader'[w] = reader[w]
    BY <1>3, <2>1, <2>2
  <2>3. ASSUME NEW v \in Conns, NEW pc, NEW todo, NEW j, ReaderAt(v, pc, todo, j), v # w
        PROVE  Seasoned(w)'
    BY <2>2, <2>3, ReaderFrame
  <2>4. CASE UNCHANGED vars \/ Enqueue \/ SweeperStep
    BY <2>2, <2>4 DEF vars, Enqueue, SweeperStep, SweepFindDead, SweepFindLive, SweepDelete,
              SweepList, SweepClaim
  <2>5. ASSUME NEW v \in Conns, NEW n \in SlotCounts, Connect(v, n) PROVE Seasoned(w)'
    <3>1. CASE v = w
      BY <2>5, <3>1 DEF Connect, Seasoned, TypeInv, TypeOK
    <3>2. CASE v # w
      BY <2>3, <2>5, <3>2 DEF Connect
    <3> QED  BY <3>1, <3>2
  <2>6. ASSUME NEW v \in Conns,
             \/ \E n \in SlotCounts : ConnectFails(v, n) \/ Reconfigure(v, n)
             \/ LinkBreaks(v) \/ Disconnect(v) \/ Cleanup(v) \/ Ping(v) \/ HeartbeatLapses(v)
             \/ HandlerStep(v)
             \/ \E k \in Jobs : \/ Ages(v, k) \/ EndsInSilence(v, k)
                                \/ ReceiveComplete(v, k) \/ ReceiveError(v, k)
        PROVE  UNCHANGED reader
    BY <2>6 DEF ConnectFails, Reconfigure, LinkBreaks, Disconnect, Cleanup,
         Ping, HeartbeatLapses, HandlerStep, HandlerUntrack, HandlerXack, HandlerXdel,
         HandlerPublish, Ages, EndsInSilence, ReceiveComplete, ReceiveError
  <2>7. ASSUME NEW v \in Conns, ReaderStep(v) PROVE Seasoned(w)'
    <3>1. reader[v].pc # "off"
      BY <2>7 DEF ReaderStep, ReaderStops, ReaderTop, ExpireUntrack, ExpireXack,
           ExpireXdel, ExpirePublish, ExpireFails, ReadPending, ReadNew, ReadTimeout,
           DispatchSkip, DispatchAssign, Send, SendFails
    <3>2. \E pc, todo, j : ReaderAt(v, pc, todo, j)
      BY <2>7 DEF ReaderStep, ReaderStops, ReaderTop, ExpireUntrack, ExpireXack,
           ExpireXdel, ExpirePublish, ExpireFails, ReadPending, ReadNew, ReadTimeout,
           DispatchSkip, DispatchAssign, Send, SendFails, NextEntry, NextExpiry
    <3> QED  BY <2>1, <2>3, <3>1, <3>2
  <2> QED  BY <2>2, <2>4, <2>5, <2>6, <2>7 DEF Next
<1> QED
  BY <1>1, <1>2, <1>3 DEF BeatInv

\* Nobody but the sweeper moves it on.
LEMMA SweeperIdles ==
  ASSUME [Next]_vars, ~SweeperStep, ~Enqueue, ~UNCHANGED vars
  PROVE  UNCHANGED sweeper
<1>1. ASSUME NEW w \in Conns,
             \/ \E n \in SlotCounts : Connect(w, n) \/ ConnectFails(w, n) \/ Reconfigure(w, n)
             \/ LinkBreaks(w) \/ Disconnect(w) \/ Cleanup(w) \/ Ping(w) \/ HeartbeatLapses(w)
             \/ ReaderStep(w)
             \/ HandlerStep(w)
             \/ \E k \in Jobs : \/ Ages(w, k) \/ EndsInSilence(w, k)
                                \/ ReceiveComplete(w, k) \/ ReceiveError(w, k)
      PROVE  UNCHANGED sweeper
  BY <1>1 DEF Connect, ConnectFails, Reconfigure, LinkBreaks, Disconnect, Cleanup,
       Ping, HeartbeatLapses, ReaderStep, ReaderStops, ReaderTop, ExpireUntrack,
       ExpireXack, ExpireXdel, ExpirePublish, ExpireFails, ReadPending, ReadNew,
       ReadTimeout, DispatchSkip, DispatchAssign, Send, SendFails,
       HandlerStep, HandlerUntrack, HandlerXack, HandlerXdel, HandlerPublish,
       Ages, EndsInSilence, ReceiveComplete, ReceiveError
<1> QED
  BY <1>1 DEF Next

\* The sweeper's view of who is dead and who is live stays right between its
\* commands: a closed consumer stays closed, a seasoned one stays seasoned.
LEMMA SweepViewStep ==
  ASSUME Timely, TypeInv, BeatInv, SweepView, [Next]_vars
  PROVE  SweepView'
<1> USE DEF redisVars, trackVars
<1>s. /\ sweeper.pc \in SweeperPCs
      /\ sweeper.dead \subseteq Conns /\ sweeper.live \subseteq Conns
      /\ sweeper = [pc |-> sweeper.pc, dead |-> sweeper.dead, live |-> sweeper.live,
                    from |-> sweeper.from, ids |-> sweeper.ids]
  BY DEF TypeInv, TypeOK
<1>k. \A w \in Conns :
        /\ Seasoned(w) => Seasoned(w)'
        /\ status[w] = "closed" => status'[w] = "closed"
  BY SeasonedKept
<1>1. ASSUME UNCHANGED sweeper PROVE SweepView'
  BY <1>1, <1>s, <1>k DEF SweepView
<1>2. CASE SweepFindDead
  <2> DEFINE dead == {w \in Conns : PendingOf(w) # {} /\ w \notin beat}
  <2>1. \A w \in dead : status[w] = "closed"
    BY DEF PendingOf, BeatInv, Seasoned
  <2>2. sweeper' = [sweeper EXCEPT !.pc = "live", !.dead = dead]
    BY <1>2 DEF SweepFindDead
  <2>3. /\ sweeper'.pc = "live" /\ sweeper'.dead = dead
        /\ sweeper'.live = {}
    BY <1>2, <1>s, <2>2 DEF SweepFindDead, SweepView
  <2> HIDE DEF dead
  <2>4. \A w \in dead : w \in Conns
    BY DEF dead
  <2> QED  BY <1>k, <2>1, <2>3, <2>4 DEF SweepView
<1>3. CASE SweepFindLive
  <2>1. \A w \in sweeper.dead : w \notin beat
    BY <1>s DEF SweepView, BeatInv
  <2>2. UNCHANGED <<status, beat>>
    BY <1>3 DEF SweepFindLive
  <2>3. CASE sweeper' = SweepIdle
    BY <2>3 DEF SweepIdle, SweepView
  <2>4. CASE sweeper' = [sweeper EXCEPT !.pc = "list", !.live = beat]
    <3>1. /\ sweeper'.pc = "list" /\ sweeper'.live = beat
          /\ sweeper'.dead = sweeper.dead
      BY <1>s, <2>4
    <3> QED  BY <1>s, <2>1, <2>2, <3>1 DEF SweepView, Seasoned
  <2> QED  BY <1>3, <2>3, <2>4 DEF SweepFindLive
<1>4. ASSUME NEW from \in Conns, SweepList(from) PROVE SweepView'
  <2>1. /\ sweeper'.pc \in {"delete", "claim"}
        /\ sweeper'.dead = sweeper.dead \ {from}
        /\ sweeper'.live = sweeper.live
        /\ sweeper'.from = from
    BY <1>4, <1>s DEF SweepList
  <2>2. status[from] = "closed" /\ from \notin sweeper.live
    BY <1>4 DEF SweepList, SweepView
  <2>3. UNCHANGED status
    BY <1>4 DEF SweepList
  <2> QED  BY <1>s, <1>k, <2>1, <2>2, <2>3 DEF SweepView
<1>5. ASSUME NEW to \in Conns, SweepClaim(to) PROVE SweepView'
  <2>1. /\ sweeper'.pc = "delete" /\ sweeper'.dead = sweeper.dead
        /\ sweeper'.live = sweeper.live /\ sweeper'.from = sweeper.from
        /\ UNCHANGED status
    BY <1>5, <1>s DEF SweepClaim
  <2> QED  BY <1>5, <1>s, <1>k, <2>1 DEF SweepView, SweepClaim
<1>6. CASE SweepDelete
  <2>1. UNCHANGED status
    BY <1>6 DEF SweepDelete
  <2>2. CASE sweeper' = SweepIdle
    BY <2>2 DEF SweepIdle, SweepView
  <2>3. CASE sweeper' = [sweeper EXCEPT !.pc = "list", !.from = NoConn]
    <3>1. /\ sweeper'.pc = "list" /\ sweeper'.dead = sweeper.dead
          /\ sweeper'.live = sweeper.live
      BY <1>s, <2>3
    <3> QED  BY <1>s, <1>k, <2>1, <3>1 DEF SweepView
  <2> QED  BY <1>6, <2>2, <2>3 DEF SweepDelete
<1>7. CASE UNCHANGED vars \/ Enqueue
  BY <1>1, <1>7 DEF vars, Enqueue
<1>8. ASSUME ~SweeperStep, ~Enqueue, ~UNCHANGED vars PROVE UNCHANGED sweeper
  BY <1>8, SweeperIdles
<1> QED
  BY <1>1, <1>2, <1>3, <1>4, <1>5, <1>6, <1>7, <1>8 DEF SweeperStep

\* A listing of up to ClaimBatch entries is complete, and stays so: a closed
\* consumer receives nothing more.
LEMMA SweepListingStep ==
  ASSUME NumJobs <= ClaimBatch, Timely, TypeInv, BeatInv, SweeperInv, [Next]_vars
  PROVE  SweepListing'
<1> USE DEF redisVars, trackVars, SweeperInv
<1>s. sweeper = [pc |-> sweeper.pc, dead |-> sweeper.dead, live |-> sweeper.live,
                 from |-> sweeper.from, ids |-> sweeper.ids]
  BY DEF TypeInv, TypeOK
<1>p. ASSUME NEW w \in Conns, status[w] = "closed", ~(\E to \in Conns : SweepClaim(to))
      PROVE  PendingNext(w) \subseteq PendingOf(w)
  <2> SUFFICES ASSUME NEW j \in Jobs, pel'[j] = w PROVE pel[j] = w
    BY DEF PendingOf, PendingNext
  <2> QED  BY <1>p, PendingGrows DEF Cancelled, ReadNew
<1>n. PendingOf(sweeper.from)' = PendingNext(sweeper'.from)
  BY DEF PendingOf, PendingNext
<1>1. ASSUME UNCHANGED sweeper, ~(\E to \in Conns : SweepClaim(to)) PROVE SweepListing'
  <2>1. sweeper.pc \in {"claim", "delete"} =>
          PendingNext(sweeper.from) \subseteq PendingOf(sweeper.from)
    BY <1>1, <1>p DEF SweepView
  <2> QED  BY <1>1, <1>n, <2>1 DEF SweepListing
<1>2. CASE SweepFindDead
  <2>1. sweeper'.pc = "live"
    BY <1>2, <1>s DEF SweepFindDead
  <2> QED  BY <2>1 DEF SweepListing
<1>3. CASE SweepFindLive \/ SweepDelete
  <2>1. CASE sweeper' = SweepIdle
    BY <2>1 DEF SweepIdle, SweepListing
  <2>2. CASE sweeper' = [sweeper EXCEPT !.pc = "list", !.live = beat]
    <3>1. sweeper'.pc = "list"
      BY <1>s, <2>2
    <3> QED  BY <3>1 DEF SweepListing
  <2>3. CASE sweeper' = [sweeper EXCEPT !.pc = "list", !.from = NoConn]
    <3>1. sweeper'.pc = "list"
      BY <1>s, <2>3
    <3> QED  BY <3>1 DEF SweepListing
  <2> QED  BY <1>3, <2>1, <2>2, <2>3 DEF SweepFindLive, SweepDelete
<1>4. ASSUME NEW from \in Conns, SweepList(from) PROVE SweepListing'
  <2> DEFINE ids == First(ClaimBatch, PendingOf(from))
  <2>1. ids = PendingOf(from)
    BY FirstIsAll DEF PendingOf
  <2> HIDE DEF ids
  <2>2. /\ sweeper'.pc = "delete" => ids = {}
        /\ sweeper'.from = from
        /\ sweeper'.ids = ids
    BY <1>4, <1>s DEF SweepList, ids
  <2>3. UNCHANGED pel
    BY <1>4 DEF SweepList
  <2>4. PendingOf(sweeper.from)' = PendingOf(from)
    BY <1>n, <2>2, <2>3 DEF PendingOf, PendingNext
  <2> QED  BY <2>1, <2>2, <2>4 DEF SweepListing
<1>5. ASSUME NEW to \in Conns, SweepClaim(to) PROVE SweepListing'
  <2>1. sweeper'.pc = "delete" /\ sweeper'.from = sweeper.from
    BY <1>5, <1>s DEF SweepClaim
  <2>2. sweeper.from \in Conns /\ sweeper.from # to
    BY <1>5 DEF SweepClaim, SweepView
  <2>3. ASSUME NEW j \in Jobs, pel'[j] = sweeper.from PROVE FALSE
    <3>1. pel'[j] = IF j \in sweeper.ids /\ pel[j] # NoConn THEN to ELSE pel[j]
      BY <1>5 DEF SweepClaim
    <3>2. pel[j] = sweeper.from
      BY <2>2, <2>3, <3>1
    <3>3. j \in sweeper.ids
      BY <1>5, <3>2 DEF SweepClaim, SweepListing, PendingOf
    <3> QED  BY <2>2, <2>3, <3>1, <3>2, <3>3
  <2>4. PendingOf(sweeper.from)' = {}
    BY <1>n, <2>1, <2>3 DEF PendingNext
  <2> QED  BY <2>1, <2>4 DEF SweepListing
<1>6. CASE UNCHANGED vars \/ Enqueue
  <2>1. UNCHANGED <<sweeper, pel>>
    BY <1>6 DEF vars, Enqueue
  <2>2. PendingOf(sweeper.from)' = PendingOf(sweeper.from)
    BY <1>n, <2>1 DEF PendingOf, PendingNext
  <2> QED  BY <2>1, <2>2 DEF SweepListing
<1>7. ASSUME ~SweeperStep, ~Enqueue, ~UNCHANGED vars PROVE SweepListing'
  <2>1. UNCHANGED sweeper /\ ~(\E to \in Conns : SweepClaim(to))
    BY <1>7, SweeperIdles DEF SweeperStep
  <2> QED  BY <1>1, <2>1
<1> QED
  BY <1>2, <1>3, <1>4, <1>5, <1>6, <1>7 DEF SweeperStep

-----------------------------------------------------------------------------
(* No job is lost.                                                         *)

\* A pending entry leaves the pending lists only by an acknowledgement.
LEMMA PendingSettles ==
  ASSUME TypeInv, EntryInv, SweeperInv, [Next]_vars, NEW j \in Jobs,
         pel[j] # NoConn, pel'[j] = NoConn
  PROVE  \/ answered'[j] # "none"
         \/ \E w \in Conns : Settling(w, j)'
<1> USE DEF redisVars, trackVars
<1> DEFINE Goal == answered'[j] # "none" \/ \E w \in Conns : Settling(w, j)'
<1>1. ASSUME NEW w \in Conns, ExpireXack(w) PROVE Goal
  <2>1. ReaderBecomes(w, "expireXdel", reader[w].todo, reader[w].job)
    BY <1>1, ReaderFrame DEF ExpireXack, ReaderBecomes
  <2>2. reader[w].job = j
    BY <1>1, XAckFrame DEF ExpireXack
  <2> QED  BY <2>1, <2>2 DEF ReaderBecomes, Settling
<1>2. ASSUME NEW w \in Conns, HandlerXack(w) PROVE Goal
  <2>1. HandlerBecomes(w, "xdel", handler[w].job, handler[w].kind)
    BY <1>2, HandlerFrame DEF HandlerXack, HandlerGoes, HandlerBecomes
  <2>2. handler[w].job = j
    BY <1>2, XAckFrame DEF HandlerXack
  <2>3. handler[w].kind \in {"done", "error"}
    BY DEF TypeInv, TypeOK
  <2>4. CASE handler[w].kind = "done"
    BY <2>1, <2>2, <2>4 DEF HandlerBecomes, Settling
  <2>5. CASE handler[w].kind = "error"
    <3>1. answered[j] # "none"
      BY <1>2, <2>2, <2>5 DEF HandlerXack, EntryInv, ErrorsPublished
    <3> QED  BY <3>1, AnswersKept
  <2> QED  BY <2>3, <2>4, <2>5
<1>3. CASE SweepDelete
  <2>1. pel'[j] = IF pel[j] = sweeper.from THEN NoConn ELSE pel[j]
    BY <1>3 DEF SweepDelete
  <2>2. PendingOf(sweeper.from) = {}
    BY <1>3 DEF SweepDelete, SweeperInv, SweepListing
  <2> QED  BY <2>1, <2>2 DEF PendingOf
<1>4. ASSUME NEW to \in Conns, SweepClaim(to) PROVE Goal
  BY <1>4 DEF SweepClaim
<1>5. ASSUME NEW w \in Conns, ReadNew(w) PROVE Goal
  <2>1. pel' = [pel EXCEPT ![lastDelivered + 1] = w]
    BY <1>5 DEF ReadNew
  <2>2. pel'[j] = w \/ pel'[j] = pel[j]
    BY <2>1 DEF TypeInv, TypeOK
  <2> QED  BY <2>2
<1>6. CASE UNCHANGED vars \/ Enqueue \/ SweepFindDead \/ SweepFindLive
  BY <1>6 DEF vars, Enqueue, SweepFindDead, SweepFindLive
<1>7. ASSUME NEW w \in Conns, SweepList(w) PROVE Goal
  BY <1>7 DEF SweepList
<1>8. ASSUME NEW w \in Conns,
             \/ \E n \in SlotCounts : Connect(w, n) \/ ConnectFails(w, n) \/ Reconfigure(w, n)
             \/ LinkBreaks(w) \/ Disconnect(w) \/ Cleanup(w) \/ Ping(w) \/ HeartbeatLapses(w)
      PROVE  Goal
  BY <1>8 DEF Connect, ConnectFails, Reconfigure, LinkBreaks, Disconnect, Cleanup,
              Ping, HeartbeatLapses
<1>9. ASSUME NEW w \in Conns, ReaderStep(w), ~ReadNew(w), ~ExpireXack(w) PROVE Goal
  BY <1>9 DEF ReaderStep, ReaderStops, ReaderTop, ExpireUntrack,
       ExpireXdel, ExpirePublish, ExpireFails, ReadPending, ReadTimeout, DispatchSkip,
       DispatchAssign, Send, SendFails
<1>10. ASSUME NEW w \in Conns, ~HandlerXack(w),
             \/ HandlerStep(w)
             \/ \E k \in Jobs : \/ Ages(w, k) \/ EndsInSilence(w, k)
                                \/ ReceiveComplete(w, k) \/ ReceiveError(w, k)
      PROVE  Goal
  BY <1>10 DEF HandlerStep, HandlerUntrack, HandlerXdel, HandlerPublish,
       Ages, EndsInSilence, ReceiveComplete, ReceiveError
<1> QED
  BY <1>1, <1>2, <1>3, <1>4, <1>5, <1>6, <1>7, <1>8, <1>9, <1>10 DEF Next, SweeperStep

\* The stream grows, and an entry is delivered, into a pending list.
LEMMA DeliveryStep ==
  ASSUME TypeInv, [Next]_vars
  PROVE  /\ added' = added \/ (added' = added + 1 /\ lastDelivered' = lastDelivered)
         /\ \/ lastDelivered' = lastDelivered
            \/ /\ lastDelivered' = lastDelivered + 1
               /\ added' = added
               /\ pel'[lastDelivered + 1] # NoConn
<1> USE DEF redisVars, trackVars
<1>1. ASSUME NEW w \in Conns, ReadNew(w)
      PROVE  /\ lastDelivered' = lastDelivered + 1
             /\ added' = added
             /\ pel'[lastDelivered + 1] # NoConn
  BY <1>1 DEF ReadNew, TypeInv, TypeOK, Jobs
<1>2. CASE Enqueue
  BY <1>2 DEF Enqueue
<1>3. CASE UNCHANGED vars \/ SweeperStep
  BY <1>3 DEF vars, SweeperStep, SweepFindDead, SweepFindLive, SweepDelete,
              SweepList, SweepClaim
<1>4. ASSUME NEW w \in Conns,
             \/ \E n \in SlotCounts : Connect(w, n) \/ ConnectFails(w, n) \/ Reconfigure(w, n)
             \/ LinkBreaks(w) \/ Disconnect(w) \/ Cleanup(w) \/ Ping(w) \/ HeartbeatLapses(w)
      PROVE  UNCHANGED <<added, lastDelivered>>
  BY <1>4 DEF Connect, ConnectFails, Reconfigure, LinkBreaks, Disconnect, Cleanup,
              Ping, HeartbeatLapses
<1>5. ASSUME NEW w \in Conns, ReaderStep(w), ~ReadNew(w)
      PROVE  UNCHANGED <<added, lastDelivered>>
  BY <1>5 DEF ReaderStep, ReaderStops, ReaderTop, ExpireUntrack, ExpireXack,
       ExpireXdel, ExpirePublish, ExpireFails, ReadPending, ReadTimeout, DispatchSkip,
       DispatchAssign, Send, SendFails
<1>6. ASSUME NEW w \in Conns,
             \/ HandlerStep(w)
             \/ \E k \in Jobs : \/ Ages(w, k) \/ EndsInSilence(w, k)
                                \/ ReceiveComplete(w, k) \/ ReceiveError(w, k)
      PROVE  UNCHANGED <<added, lastDelivered>>
  BY <1>6 DEF HandlerStep, HandlerUntrack, HandlerXack, HandlerXdel, HandlerPublish,
       Ages, EndsInSilence, ReceiveComplete, ReceiveError
<1> QED
  BY <1>1, <1>2, <1>3, <1>4, <1>5, <1>6 DEF Next

LEMMA NoLostStep ==
  ASSUME TypeInv, EntryInv, Fresh, SweeperInv, NoLostJob, [Next]_vars
  PROVE  NoLostJob'
<1> SUFFICES ASSUME NEW j \in 1 .. added', answered'[j] = "none",
                    ~(j > lastDelivered'), pel'[j] = NoConn
             PROVE  \E w \in Conns : Settling(w, j)'
  BY DEF NoLostJob
<1>1. added \in Nat /\ lastDelivered \in Nat /\ lastDelivered <= added /\ added' \in 0 .. NumJobs
  BY TypeStep DEF TypeInv, TypeOK
<1>2. j \in Jobs
  BY <1>1 DEF Jobs
<1>3. j \in 1 .. added /\ ~(j > lastDelivered)
  BY <1>1, DeliveryStep
<1>4. answered[j] = "none"
  BY <1>2, AnswersKept
<1>5. CASE pel[j] # NoConn
  BY <1>2, <1>5, PendingSettles
<1>6. ASSUME NEW w \in Conns, Settling(w, j)
      PROVE  \E v \in Conns : Settling(v, j)'
  BY <1>2, <1>6, SettlingKept
<1> QED
  BY <1>3, <1>4, <1>5, <1>6 DEF NoLostJob

\* All of it together.
SafeInv == /\ TypeInv /\ EntryInv /\ Fresh
           /\ Timely => BeatInv /\ SweeperInv /\ NoLostJob

LEMMA SafeKept ==
  ASSUME NumJobs <= ClaimBatch
  PROVE  Spec => []SafeInv
<1>1. Init => SafeInv
  BY DEF Init, SafeInv, TypeInv, TypeOK, EntryInv, StreamInv, OnlyDelivered, Delivered,
         PendingInStream, UndeliveredInStream, XackBeforeXdel, ErrorsPublished,
         Fresh, BeatInv, SweeperInv, SweepView, SweepListing, NoLostJob,
         Jobs, Statuses, Replies, ReaderPCs, HandlerPCs, SweeperPCs, NoJob
<1>2. SafeInv /\ [Next]_vars => SafeInv'
  <2> SUFFICES ASSUME SafeInv, [Next]_vars PROVE SafeInv'
    OBVIOUS
  <2>1. (TypeInv /\ EntryInv /\ Fresh)'
    BY TypeStep, EntryStep, FreshStep DEF SafeInv
  <2>2. ASSUME Timely PROVE (BeatInv /\ SweeperInv /\ NoLostJob)'
    BY <2>2, BeatStep, SweepViewStep, SweepListingStep, NoLostStep DEF SafeInv, SweeperInv
  <2> QED  BY <2>1, <2>2 DEF SafeInv
<1> QED
  BY <1>1, <1>2, PTL DEF Spec

\* With the documented timing, and no more jobs than one XPENDING of the
\* sweeper can list, a job whose caller still waits is always in the stream
\* before the group's position, in a pending list, or about to be answered:
\* however workers, sweeps, expiries and re-deliveries interleave, no job
\* falls between two consumers.
THEOREM NoJobLost ==
  ASSUME NumJobs <= ClaimBatch
  PROVE  Spec => []TimelyNoLostJob
<1>1. SafeInv => TimelyNoLostJob
  BY DEF SafeInv, TimelyNoLostJob
<1> QED
  BY <1>1, SafeKept, PTL

USE ConnsAssumption, JobsAssumption, SlowAssumption, SlotsAssumption, BatchAssumption

-----------------------------------------------------------------------------
(* The jobs a connection may yet execute: those its worker runs, those of  *)
(* the batch in its reader's hands, and the one being sent.                *)
Holds(w, j) ==
  \/ j \in running[w]
  \/ reader[w].pc \in {"dispatch", "send"} /\ j \in reader[w].todo
  \/ reader[w].pc = "send" /\ j = reader[w].job

HoldsPending ==
  \A w \in Conns, j \in Jobs : ~Cancelled(w) /\ Holds(w, j) => pel[j] \in {w, NoConn}

HoldsAlone ==
  \A v, w \in Conns, j \in Jobs :
    ~Cancelled(v) /\ ~Cancelled(w) /\ Holds(v, j) /\ Holds(w, j) => v = w

\* What the sweeper is about to claim is still the dead consumer's, or
\* acknowledged.
ListedOfDead ==
  sweeper.pc = "claim" =>
    \A j \in sweeper.ids : j \in Delivered /\ pel[j] \in {sweeper.from, NoConn}

HoldInv == HoldsPending /\ HoldsAlone /\ ListedOfDead

\* A connection that is being cleaned up never comes back.
LEMMA CancelledKept ==
  ASSUME TypeInv, [Next]_vars, NEW w \in Conns, Cancelled(w)
  PROVE  Cancelled(w)'
<1> USE DEF redisVars, trackVars, Cancelled
<1>1. CASE UNCHANGED status
  BY <1>1
<1>2. ASSUME NEW v \in Conns,
             \/ \E n \in SlotCounts : Connect(v, n) \/ ConnectFails(v, n)
             \/ LinkBreaks(v) \/ Disconnect(v) \/ Cleanup(v)
      PROVE  Cancelled(w)'
  BY <1>2 DEF Connect, ConnectFails, LinkBreaks, Disconnect, Cleanup, TypeInv, TypeOK
<1>3. CASE UNCHANGED vars \/ Enqueue \/ SweeperStep
  BY <1>1, <1>3 DEF vars, Enqueue, SweeperStep, SweepFindDead, SweepFindLive, SweepDelete,
              SweepList, SweepClaim
<1>4. ASSUME NEW v \in Conns,
             \/ Ping(v) \/ HeartbeatLapses(v) \/ ReaderStep(v) \/ HandlerStep(v)
             \/ \E n \in SlotCounts : Reconfigure(v, n)
             \/ \E k \in Jobs : \/ Ages(v, k) \/ EndsInSilence(v, k)
                                \/ ReceiveComplete(v, k) \/ ReceiveError(v, k)
      PROVE  UNCHANGED status
  BY <1>4 DEF Ping, HeartbeatLapses, Reconfigure, ReaderStep, ReaderStops, ReaderTop,
       ExpireUntrack, ExpireXack, ExpireXdel, ExpirePublish, ExpireFails, ReadPending,
       ReadNew, ReadTimeout, DispatchSkip, DispatchAssign, Send, SendFails,
       HandlerStep, HandlerUntrack, HandlerXack, HandlerXdel, HandlerPublish,
       Ages, EndsInSilence, ReceiveComplete, ReceiveError
<1> QED
  BY <1>1, <1>2, <1>3, <1>4 DEF Next

\* A connection gets hold of a job by one of the two reads only.
LEMMA HoldsGrows ==
  ASSUME TypeInv, [Next]_vars, NEW w \in Conns, NEW j \in Jobs, Holds(w, j)'
  PROVE  \/ Holds(w, j)
         \/ ReadNew(w) /\ j = lastDelivered + 1
         \/ ReadPending(w) /\ pel[j] = w
<1> USE DEF redisVars, trackVars
<1> DEFINE Goal == \/ Holds(w, j)
                   \/ ReadNew(w) /\ j = lastDelivered + 1
                   \/ ReadPending(w) /\ pel[j] = w
<1>1. CASE UNCHANGED <<running, reader>>
  BY <1>1 DEF Holds
<1>f. ASSUME NEW v \in Conns, NEW pc, NEW todo, NEW k, ReaderAt(v, pc, todo, k)
      PROVE  ReaderBecomes(v, pc, todo, k)
  BY <1>f, ReaderFrame DEF ReaderBecomes
<1>e. ASSUME NEW v \in Conns, NEW todo, NextEntry(v, todo)
      PROVE  \E pc \in {"top", "dispatch"} : ReaderBecomes(v, pc, todo, NoJob)
  BY <1>e, <1>f DEF NextEntry
<1>r. ASSUME UNCHANGED running, NEW v \in Conns, NEW pc, NEW todo, NEW k,
             ReaderAt(v, pc, todo, k), v # w \/ pc \notin {"dispatch", "send"}
      PROVE  Holds(w, j)
  <2>1. ReaderBecomes(v, pc, todo, k)
    BY <1>r, <1>f
  <2> QED  BY <1>r, <2>1 DEF ReaderBecomes, Holds
<1>2. ASSUME NEW v \in Conns, NEW n \in SlotCounts, Connect(v, n) PROVE Goal
  BY <1>2, <1>r DEF Connect
<1>3. ASSUME NEW v \in Conns,
             \/ LinkBreaks(v)
             \/ \E k \in Jobs : \/ EndsInSilence(v, k)
                                \/ ReceiveComplete(v, k) \/ ReceiveError(v, k)
      PROVE  Goal
  <2>1. running'[w] \subseteq running[w]
    <3>1. CASE LinkBreaks(v)
      BY <3>1 DEF LinkBreaks, TypeInv, TypeOK
    <3>2. ASSUME NEW k \in Jobs,
                 EndsInSilence(v, k) \/ ReceiveComplete(v, k) \/ ReceiveError(v, k)
          PROVE  running'[w] \subseteq running[w]
      <4>1. running' = [running EXCEPT ![v] = @ \ {k}]
        BY <3>2 DEF EndsInSilence, ReceiveComplete, ReceiveError
      <4> QED  BY <4>1 DEF TypeInv, TypeOK
    <3> QED  BY <1>3, <3>1, <3>2
  <2>2. UNCHANGED reader
    BY <1>3 DEF LinkBreaks, EndsInSilence, ReceiveComplete, ReceiveError
  <2> QED  BY <2>1, <2>2 DEF Holds
<1>4. CASE UNCHANGED vars \/ Enqueue \/ SweeperStep
  <2>1. UNCHANGED <<running, reader>>
    BY <1>4 DEF vars, Enqueue, SweeperStep, SweepFindDead, SweepFindLive, SweepDelete,
                SweepList, SweepClaim
  <2> QED  BY <1>1, <2>1
<1>5. ASSUME NEW v \in Conns,
             \/ \E n \in SlotCounts : ConnectFails(v, n) \/ Reconfigure(v, n)
             \/ Disconnect(v) \/ Cleanup(v) \/ Ping(v) \/ HeartbeatLapses(v)
             \/ HandlerStep(v)
             \/ \E k \in Jobs : Ages(v, k)
      PROVE  Goal
  <2>1. UNCHANGED <<running, reader>>
    BY <1>5 DEF ConnectFails, Reconfigure, Disconnect, Cleanup, Ping, HeartbeatLapses,
         HandlerStep, HandlerUntrack, HandlerXack, HandlerXdel, HandlerPublish, Ages
  <2> QED  BY <1>1, <2>1
<1>6. ASSUME NEW v \in Conns, ReaderStep(v), ~Send(v), v # w PROVE Goal
  <2>1. UNCHANGED running
    BY <1>6 DEF ReaderStep, ReaderStops, ReaderTop, ExpireUntrack, ExpireXack,
         ExpireXdel, ExpirePublish, ExpireFails, ReadPending, ReadNew, ReadTimeout,
         DispatchSkip, DispatchAssign, SendFails
  <2>2. \E pc, todo, k : ReaderAt(v, pc, todo, k)
    BY <1>6 DEF ReaderStep, ReaderStops, ReaderTop, ExpireUntrack, ExpireXack,
         ExpireXdel, ExpirePublish, ExpireFails, ReadPending, ReadNew, ReadTimeout,
         DispatchSkip, DispatchAssign, Send, SendFails, NextEntry, NextExpiry
  <2> QED  BY <1>6, <1>r, <2>1, <2>2
<1>7. CASE \/ ReaderStops(w) \/ ReaderTop(w) \/ ExpireUntrack(w) \/ ExpireXack(w)
           \/ ExpireXdel(w) \/ ExpirePublish(w) \/ ExpireFails(w) \/ ReadTimeout(w)
  <2>1. UNCHANGED running
    BY <1>7 DEF ReaderStops, ReaderTop, ExpireUntrack, ExpireXack, ExpireXdel,
         ExpirePublish, ExpireFails, ReadTimeout
  <2>2. \E pc \in ReaderPCs \ {"dispatch", "send"} : \E todo, k : ReaderAt(w, pc, todo, k)
    BY <1>7 DEF ReaderStops, ReaderTop, ExpireUntrack, ExpireXack, ExpireXdel,
         ExpirePublish, ExpireFails, ReadTimeout, NextExpiry, ReaderPCs
  <2> QED  BY <1>r, <2>1, <2>2
<1>8. CASE ReadPending(w)
  <2> DEFINE batch == First(PendingBatch, PendingOf(w))
  <2>1. PICK pc \in {"block", "dispatch"} : ReaderBecomes(w, pc, batch, NoJob)
    BY <1>8, <1>f DEF ReadPending
  <2>2. \A k \in batch : pel[k] = w
    BY DEF First, PendingOf
  <2> HIDE DEF batch
  <2>3. NoJob # j /\ UNCHANGED running
    BY <1>8 DEF NoJob, Jobs, ReadPending
  <2> QED  BY <1>8, <2>1, <2>2, <2>3 DEF ReaderBecomes, Holds
<1>9. CASE ReadNew(w)
  <2>1. ReaderBecomes(w, "dispatch", {lastDelivered + 1}, NoJob)
    BY <1>9, <1>f DEF ReadNew
  <2>2. UNCHANGED running
    BY <1>9 DEF ReadNew
  <2> QED  BY <1>9, <2>1, <2>2 DEF ReaderBecomes, Holds
<1>10. CASE DispatchSkip(w)
  <2>1. PICK k \in Jobs, pc \in {"top", "dispatch"} :
          ReaderBecomes(w, pc, reader[w].todo \ {k}, NoJob)
    BY <1>10, <1>e DEF DispatchSkip
  <2>2. UNCHANGED running /\ reader[w].pc = "dispatch"
    BY <1>10 DEF DispatchSkip
  <2> QED  BY <2>1, <2>2 DEF ReaderBecomes, Holds
<1>11. CASE DispatchAssign(w)
  <2>1. PICK k \in reader[w].todo : ReaderBecomes(w, "send", reader[w].todo \ {k}, k)
    BY <1>11, <1>f DEF DispatchAssign, IsFirst
  <2>2. UNCHANGED running /\ reader[w].pc = "dispatch"
    BY <1>11 DEF DispatchAssign
  <2> QED  BY <2>1, <2>2 DEF ReaderBecomes, Holds
<1>12. ASSUME NEW v \in Conns, Send(v) PROVE Goal
  <2>1. PICK pc \in {"top", "dispatch"} : ReaderBecomes(v, pc, reader[v].todo, NoJob)
    BY <1>12, <1>e DEF Send
  <2>2. /\ reader[v].pc = "send"
        /\ running'[w] \subseteq running[w] \cup (IF v = w THEN {reader[v].job} ELSE {})
    BY <1>12 DEF Send, TypeInv, TypeOK
  <2> QED  BY <2>1, <2>2 DEF ReaderBecomes, Holds
<1>13. CASE SendFails(w)
  <2>1. PICK pc \in {"top", "dispatch"} : ReaderBecomes(w, pc, reader[w].todo, NoJob)
    BY <1>13, <1>e DEF SendFails
  <2>2. UNCHANGED running /\ reader[w].pc = "send"
    BY <1>13 DEF SendFails
  <2> QED  BY <2>1, <2>2 DEF ReaderBecomes, Holds
<1>14. ASSUME ReaderStep(w) PROVE Goal
  BY <1>7, <1>8, <1>9, <1>10, <1>11, <1>12, <1>13, <1>14 DEF ReaderStep
<1> QED
  BY <1>2, <1>3, <1>4, <1>5, <1>6, <1>12, <1>14 DEF Next

\* A pending entry changes hands by a read, a claim or an acknowledgement.
LEMMA PendingMoves ==
  ASSUME TypeInv, [Next]_vars, NEW j \in Jobs
  PROVE  \/ pel'[j] = pel[j]
         \/ pel'[j] = NoConn
         \/ \E w \in Conns : ReadNew(w) /\ j = lastDelivered + 1 /\ pel'[j] = w
         \/ \E w \in Conns : SweepClaim(w) /\ j \in sweeper.ids /\ pel[j] # NoConn
<1>1. pel'[j] \in Conns \cup {NoConn}
  BY TypeStep DEF TypeInv, TypeOK
<1> QED
  BY <1>1, PendingGrows

LEMMA HeldIsDelivered ==
  ASSUME TypeInv, OnlyDelivered, NEW w \in Conns, NEW j, Holds(w, j)
  PROVE  j \in Delivered
BY DEF OnlyDelivered, Holds

LEMMA HoldStep ==
  ASSUME Timely, TypeInv, EntryInv, SweepView, HoldInv, [Next]_vars
  PROVE  HoldInv'
<1> USE DEF redisVars, trackVars
<1>d. OnlyDelivered /\ PendingInStream /\ lastDelivered \in Nat
  BY DeliveredJobs DEF EntryInv, StreamInv
<1>1. ASSUME NEW w \in Conns, NEW j \in Jobs, ~Cancelled(w)', Holds(w, j)'
      PROVE  pel'[j] \in {w, NoConn}
  <2>1. ~Cancelled(w)
    BY <1>1, CancelledKept
  <2>2. CASE Holds(w, j)
    <3>1. pel[j] \in {w, NoConn} /\ j # lastDelivered + 1
      BY <1>d, <2>1, <2>2, HeldIsDelivered DEF HoldInv, HoldsPending, Delivered
    <3>2. ASSUME NEW to \in Conns, SweepClaim(to), j \in sweeper.ids, pel[j] # NoConn
          PROVE  FALSE
      BY <2>1, <3>1, <3>2 DEF SweepClaim, HoldInv, ListedOfDead, SweepView, Cancelled
    <3> QED  BY <3>1, <3>2, PendingMoves
  <2>3. CASE ReadNew(w) /\ j = lastDelivered + 1
    BY <2>3 DEF ReadNew, TypeInv, TypeOK
  <2>4. CASE ReadPending(w) /\ pel[j] = w
    BY <2>4 DEF ReadPending
  <2> QED  BY <1>1, <2>2, <2>3, <2>4, HoldsGrows
<1>2. ASSUME NEW v \in Conns, NEW w \in Conns, NEW j \in Jobs,
             ~Cancelled(v)', ~Cancelled(w)', Holds(v, j)', Holds(w, j)'
      PROVE  v = w
  <2>1. ~Cancelled(v) /\ ~Cancelled(w)
    BY <1>2, CancelledKept
  <2>2. pel'[j] \in {v, NoConn} /\ pel'[j] \in {w, NoConn}
    BY <1>1, <1>2
  <2>3. ASSUME NEW u \in Conns, \/ ReadNew(u) /\ j = lastDelivered + 1
                                \/ ReadPending(u) /\ pel[j] = u
        PROVE  pel'[j] = u
    BY <2>3 DEF ReadNew, ReadPending, TypeInv, TypeOK
  <2>4. Holds(v, j) /\ Holds(w, j) => v = w
    BY <2>1 DEF HoldInv, HoldsAlone
  <2> QED  BY <1>2, <2>2, <2>3, <2>4, HoldsGrows
<1>3. ListedOfDead'
  <2> SUFFICES ASSUME sweeper'.pc = "claim", NEW j \in sweeper'.ids
               PROVE  j \in Delivered' /\ pel'[j] \in {sweeper'.from, NoConn}
    BY DEF ListedOfDead
  <2>s. sweeper = [pc |-> sweeper.pc, dead |-> sweeper.dead, live |-> sweeper.live,
                   from |-> sweeper.from, ids |-> sweeper.ids]
    BY DEF TypeInv, TypeOK
  <2>g. Delivered \subseteq Delivered'
    BY <1>d, DeliveryStep DEF Delivered
  <2>1. CASE UNCHANGED sweeper
    <3>1. j \in Delivered /\ pel[j] \in {sweeper.from, NoConn} /\ j \in Jobs
      BY <2>1, DeliveredJobs DEF HoldInv, ListedOfDead
    <3>2. ~\E to \in Conns : SweepClaim(to)
      BY <2>s, <2>1 DEF SweepClaim
    <3> QED  BY <1>d, <2>1, <2>g, <3>1, <3>2, PendingMoves DEF Delivered, PendingInStream
  <2>2. ASSUME NEW from \in Conns, SweepList(from)
        PROVE  j \in Delivered' /\ pel'[j] \in {sweeper'.from, NoConn}
    <3> DEFINE ids == First(ClaimBatch, PendingOf(from))
    <3>1. \A k \in ids : k \in Jobs /\ pel[k] = from
      BY DEF First, PendingOf
    <3> HIDE DEF ids
    <3>2. sweeper'.from = from /\ sweeper'.ids = ids /\ UNCHANGED <<pel, lastDelivered>>
      BY <2>s, <2>2 DEF SweepList, ids
    <3> QED  BY <1>d, <3>1, <3>2 DEF PendingInStream, Delivered, Jobs
  <2>3. CASE SweepFindDead \/ SweepFindLive \/ SweepDelete \/ \E to \in Conns : SweepClaim(to)
    <3>1. CASE sweeper' = SweepIdle
      BY <3>1 DEF SweepIdle
    <3>2. ASSUME NEW dead, sweeper' = [sweeper EXCEPT !.pc = "live", !.dead = dead]
          PROVE  FALSE
      BY <2>s, <3>2
    <3>3. CASE sweeper' = [sweeper EXCEPT !.pc = "list", !.live = beat]
      BY <2>s, <3>3
    <3>4. CASE sweeper' = [sweeper EXCEPT !.pc = "list", !.from = NoConn]
      BY <2>s, <3>4
    <3>5. CASE sweeper' = [sweeper EXCEPT !.pc = "delete", !.ids = {}]
      BY <2>s, <3>5
    <3> QED  BY <2>3, <3>1, <3>2, <3>3, <3>4, <3>5
             DEF SweepFindDead, SweepFindLive, SweepDelete, SweepClaim
  <2>4. CASE UNCHANGED vars \/ Enqueue
    BY <2>1, <2>4 DEF vars, Enqueue
  <2> QED  BY <2>1, <2>2, <2>3, <2>4, SweeperIdles DEF SweeperStep
<1> QED
  BY <1>1, <1>2, <1>3 DEF HoldInv, HoldsPending, HoldsAlone

\* With the documented timing a job is never on two live workers at once, for
\* any number of connections and jobs and any batch sizes: a redelivery, a
\* claim of the sweeper and a slow execution never overlap.
THEOREM OneExecutor == Spec => []TimelySingleExecutor
<1> DEFINE IInv == /\ TypeInv /\ EntryInv /\ Fresh /\ BooksInv
                   /\ Timely => BeatInv /\ SweepView /\ HoldInv
<1>1. Init => IInv
  <2> SUFFICES ASSUME Init PROVE IInv
    OBVIOUS
  <2>1. TypeInv /\ EntryInv /\ Fresh /\ BooksInv
    BY InitBooks
  <2>2. \A w \in Conns : /\ running[w] = {} /\ reader[w].pc = "off"
                         /\ status[w] = "absent"
    BY DEF Init
  <2>3. sweeper.pc = "idle" /\ sweeper.live = {} /\ sweeper.dead = {} /\ beat = {}
    BY DEF Init
  <2>4. BeatInv
    BY <2>2, <2>3 DEF BeatInv, Init
  <2>5. SweepView /\ ListedOfDead
    BY <2>3 DEF SweepView, ListedOfDead
  <2>6. HoldsPending /\ HoldsAlone
    BY <2>2 DEF HoldsPending, HoldsAlone, Holds
  <2> QED  BY <2>1, <2>4, <2>5, <2>6 DEF HoldInv
<1>2. IInv /\ [Next]_vars => IInv'
  <2> SUFFICES ASSUME IInv, [Next]_vars PROVE IInv'
    OBVIOUS
  <2>1. (TypeInv /\ EntryInv /\ Fresh /\ BooksInv)'
    BY TypeStep, EntryStep, FreshStep, BooksStep
  <2>2. ASSUME Timely PROVE (BeatInv /\ SweepView /\ HoldInv)'
    BY <2>2, BeatStep, SweepViewStep, HoldStep
  <2> QED  BY <2>1, <2>2
<1>3. IInv => TimelySingleExecutor
  <2> SUFFICES ASSUME IInv, Timely, NEW v \in Conns, NEW w \in Conns,
                      NEW j \in running[v], j \in running[w]
               PROVE  v = w
    BY DEF TimelySingleExecutor, SingleExecutor
  <2>1. j \in Jobs
    BY DEF TypeInv, TypeOK
  <2>2. ~Cancelled(v) /\ ~Cancelled(w)
    BY DEF BooksInv, Books, Cancelled
  <2> QED  BY <2>1, <2>2 DEF HoldInv, HoldsAlone, Holds
<1> QED
  BY <1>1, <1>2, <1>3, PTL DEF Spec

-----------------------------------------------------------------------------
(* Dispatch implements JobLease.                                           *)

\* Where no job is lost, the state of its lease needs no goroutine to tell.
PlainLease(j) ==
  IF j > added THEN "absent"
  ELSE IF j > lastDelivered THEN "waiting"
  ELSE IF pel[j] # NoConn THEN "leased"
  ELSE IF answered[j] # "none" THEN "over" ELSE "answering"

LEMMA LeaseIsPlain ==
  ASSUME TypeInv, NoLostJob
  PROVE  LeaseState = [j \in Jobs |-> PlainLease(j)]
<1> SUFFICES ASSUME NEW j \in Jobs PROVE LeaseState[j] = PlainLease(j)
  BY DEF LeaseState
<1>1. added \in Nat /\ lastDelivered \in Nat /\ j \in Nat \ {0}
  BY DEF TypeInv, TypeOK, Jobs
<1>2. ~(j > added) => j \in 1 .. added
  BY <1>1
<1> QED
  BY <1>1, <1>2 DEF LeaseState, PlainLease, NoLostJob

LEMMA LeaseIsPlainNext ==
  ASSUME TypeInv', NoLostJob'
  PROVE  LeaseState' = [j \in Jobs |-> PlainLease(j)']
<1> SUFFICES ASSUME NEW j \in Jobs PROVE LeaseState'[j] = PlainLease(j)'
  BY DEF LeaseState
<1>1. added' \in Nat /\ lastDelivered' \in Nat /\ j \in Nat \ {0}
  BY DEF TypeInv, TypeOK, Jobs
<1>2. ~(j > added') => j \in 1 .. added'
  BY <1>1
<1> QED
  BY <1>1, <1>2 DEF LeaseState, PlainLease, NoLostJob

\* The context of a step of the refinement.
LeaseContext ==
  /\ TypeInv /\ EntryInv /\ SweeperInv /\ NoLostJob
  /\ TypeInv' /\ NoLostJob'

LEMMA LeaseViews ==
  ASSUME LeaseContext
  PROVE  /\ LeaseState = [j \in Jobs |-> PlainLease(j)]
         /\ LeaseState' = [j \in Jobs |-> PlainLease(j)']
         /\ added \in Nat /\ lastDelivered \in Nat /\ lastDelivered <= added
         /\ pel \in [Jobs -> Conns \cup {NoConn}] /\ pel' \in [Jobs -> Conns \cup {NoConn}]
         /\ answered \in [Jobs -> Replies \cup {"none"}]
         /\ \A j \in Jobs : pel[j] # NoConn => j <= lastDelivered
  BY LeaseIsPlain, LeaseIsPlainNext
     DEF LeaseContext, TypeInv, TypeOK, EntryInv, StreamInv, PendingInStream

\* A step that leaves the four variables alone is a step of no lease.
LEMMA LeaseStutters ==
  ASSUME LeaseContext, UNCHANGED <<added, lastDelivered, pel, answered>>
  PROVE  UNCHANGED Lease!vars
<1>1. \A j \in Jobs : PlainLease(j)' = PlainLease(j)
  BY DEF PlainLease
<1>2. LeaseState' = LeaseState
  BY <1>1, LeaseViews
<1> QED
  BY <1>2 DEF Lease!vars

LEMMA EnqueueSubmits ==
  ASSUME LeaseContext, Enqueue
  PROVE  Lease!Next
<1>0. added + 1 \in Jobs
  BY LeaseViews DEF Enqueue, Jobs
<1>j. PICK j \in Jobs : j = added + 1
  BY <1>0
<1>1. /\ added' = j
      /\ UNCHANGED <<lastDelivered, pel, answered>>
  BY <1>j DEF Enqueue, redisVars, trackVars
<1>2. PlainLease(j) = "absent" /\ PlainLease(j)' = "waiting"
  BY <1>j, <1>1, LeaseViews DEF PlainLease, Jobs
<1>3. ASSUME NEW k \in Jobs, k # j PROVE PlainLease(k)' = PlainLease(k)
  BY <1>j, <1>1, <1>3, LeaseViews DEF PlainLease, Jobs
<1>4. ASSUME NEW k \in Jobs, k < j PROVE PlainLease(k) # "absent"
  BY <1>j, <1>4, LeaseViews DEF PlainLease, Jobs
<1>5. LeaseState' = [LeaseState EXCEPT ![j] = "waiting"]
  BY <1>1, <1>2, <1>3, LeaseViews
<1>6. Lease!Submit(j)
  BY <1>1, <1>2, <1>4, <1>5, LeaseViews DEF Lease!Submit
<1> QED
  BY <1>1, <1>6 DEF Lease!Next

LEMMA ReadGrants ==
  ASSUME LeaseContext, NEW w \in Conns, ReadNew(w)
  PROVE  Lease!Next
<1>0. lastDelivered + 1 \in Jobs /\ lastDelivered + 1 <= added
  BY LeaseViews DEF ReadNew, Jobs, LeaseContext, TypeInv, TypeOK
<1>j. PICK j \in Jobs : j = lastDelivered + 1
  BY <1>0
<1>1. /\ j <= added /\ lastDelivered' = j
      /\ pel' = [pel EXCEPT ![j] = w]
      /\ UNCHANGED <<added, answered>>
  BY <1>0, <1>j DEF ReadNew
<1>2. PlainLease(j) = "waiting" /\ PlainLease(j)' = "leased"
  BY <1>j, <1>1, LeaseViews DEF PlainLease, Jobs
<1>3. ASSUME NEW k \in Jobs, k # j PROVE PlainLease(k)' = PlainLease(k)
  <2>1. pel'[k] = pel[k]
    BY <1>1, <1>3, LeaseViews
  <2> QED  BY <1>j, <1>1, <1>3, <2>1, LeaseViews DEF PlainLease, Jobs
<1>4. ASSUME NEW k \in Jobs, k < j PROVE PlainLease(k) # "waiting"
  BY <1>j, <1>4, LeaseViews DEF PlainLease, Jobs
<1>5. LeaseState' = [LeaseState EXCEPT ![j] = "leased"]
  BY <1>1, <1>2, <1>3, LeaseViews
<1>6. Lease!Grant(j, w)
  BY <1>1, <1>2, <1>4, <1>5, LeaseViews DEF Lease!Grant
<1> QED
  BY <1>1, <1>6 DEF Lease!Next

LEMMA ClaimPasses ==
  ASSUME LeaseContext, NEW to \in Conns, SweepClaim(to)
  PROVE  Lease!Next
<1> DEFINE S == {j \in Jobs : j \in sweeper.ids /\ pel[j] # NoConn}
<1>1. /\ pel' = [j \in Jobs |-> IF j \in S THEN to ELSE pel[j]]
      /\ UNCHANGED <<added, lastDelivered, answered>>
  BY DEF SweepClaim
<1>2. ASSUME NEW j \in S PROVE PlainLease(j) = "leased"
  BY LeaseViews DEF PlainLease, Jobs
<1>3. ASSUME NEW j \in Jobs PROVE PlainLease(j)' = PlainLease(j)
  <2>1. pel'[j] # NoConn <=> pel[j] # NoConn
    BY <1>1
  <2> QED  BY <1>1, <2>1 DEF PlainLease
<1>4. LeaseState' = LeaseState
  BY <1>3, LeaseViews
<1>5. Lease!Pass(S, to)
  BY <1>1, <1>2, <1>4, LeaseViews DEF Lease!Pass
<1> QED
  BY <1>5 DEF Lease!Next

\* XGROUP DELCONSUMER finds an empty pending list.
LEMMA DeleteStutters ==
  ASSUME LeaseContext, SweepDelete
  PROVE  UNCHANGED Lease!vars
<1>1. \A j \in Jobs : pel[j] # sweeper.from
  BY DEF SweepDelete, LeaseContext, SweeperInv, SweepListing, PendingOf
<1>2. pel' = pel
  BY <1>1, LeaseViews DEF SweepDelete
<1> QED
  BY <1>2, LeaseStutters DEF SweepDelete

LEMMA AckSettles ==
  ASSUME LeaseContext, NEW k \in Jobs, XAck(k), UNCHANGED <<added, lastDelivered, answered>>
  PROVE  Lease!Next \/ UNCHANGED Lease!vars
<1>1. CASE pel[k] = NoConn
  <2>1. pel' = pel
    BY <1>1, LeaseViews DEF XAck
  <2> QED  BY <2>1, LeaseStutters
<1>2. CASE pel[k] # NoConn
  <2>1. pel' = [pel EXCEPT ![k] = NoConn]
    BY DEF XAck
  <2>2. /\ PlainLease(k) = "leased"
        /\ PlainLease(k)' = IF answered[k] = "none" THEN "answering" ELSE "over"
    BY <1>2, <2>1, LeaseViews DEF PlainLease, Jobs
  <2>3. ASSUME NEW j \in Jobs, j # k PROVE PlainLease(j)' = PlainLease(j)
    <3>1. pel'[j] = pel[j]
      BY <2>1, <2>3, LeaseViews
    <3> QED  BY <3>1 DEF PlainLease
  <2>4. LeaseState' = [LeaseState EXCEPT ![k] = IF answered[k] = "none"
                                               THEN "answering" ELSE "over"]
    BY <2>2, <2>3, LeaseViews
  <2>5. Lease!Settle(k)
    BY <2>1, <2>2, <2>4, LeaseViews DEF Lease!Settle
  <2> QED  BY <2>5 DEF Lease!Next
<1> QED
  BY <1>1, <1>2

LEMMA PublishReplies ==
  ASSUME LeaseContext, NEW k \in Delivered, NEW a \in Replies, Publish(k, a),
         UNCHANGED <<added, lastDelivered, pel>>
  PROVE  Lease!Next \/ UNCHANGED Lease!vars
<1>1. k \in Jobs /\ k <= lastDelivered
  BY DeliveredJobs DEF Delivered, LeaseContext
<1>2. CASE answered[k] # "none"
  <2>1. answered' = answered
    BY <1>1, <1>2, LeaseViews DEF Publish
  <2> QED  BY <2>1, LeaseStutters
<1>3. CASE answered[k] = "none"
  <2>1. answered' = [answered EXCEPT ![k] = a] /\ a # "none"
    BY <1>1, <1>3, LeaseViews DEF Publish, Replies
  <2>2. CASE pel[k] # NoConn
    <3>1. PlainLease(k) = "leased" /\ PlainLease(k)' = "leased"
      BY <1>1, <2>2, LeaseViews DEF PlainLease, Jobs
    <3>2. ASSUME NEW j \in Jobs PROVE PlainLease(j)' = PlainLease(j)
      <4>1. j # k => answered'[j] = answered[j]
        BY <2>1, LeaseViews
      <4> QED  BY <3>1, <4>1 DEF PlainLease
    <3>3. LeaseState' = [LeaseState EXCEPT ![k] = "leased"] /\ LeaseState[k] = "leased"
      BY <1>1, <3>1, <3>2, LeaseViews
    <3>4. Lease!Reply(k, a)
      BY <1>1, <1>3, <2>1, <3>3 DEF Lease!Reply
    <3> QED  BY <1>1, <3>4 DEF Lease!Next
  <2>3. CASE pel[k] = NoConn
    <3>1. PlainLease(k) = "answering" /\ PlainLease(k)' = "over"
      BY <1>1, <1>3, <2>1, <2>3, LeaseViews DEF PlainLease, Jobs
    <3>2. ASSUME NEW j \in Jobs, j # k PROVE PlainLease(j)' = PlainLease(j)
      <4>1. answered'[j] = answered[j]
        BY <2>1, <3>2, LeaseViews
      <4> QED  BY <4>1 DEF PlainLease
    <3>3. LeaseState' = [LeaseState EXCEPT ![k] = "over"] /\ LeaseState[k] = "answering"
      BY <1>1, <3>1, <3>2, LeaseViews
    <3>4. Lease!Reply(k, a)
      BY <1>1, <1>3, <2>1, <3>3 DEF Lease!Reply
    <3> QED  BY <1>1, <3>4 DEF Lease!Next
  <2> QED  BY <2>2, <2>3
<1> QED
  BY <1>2, <1>3

LEMMA LeaseStep ==
  ASSUME LeaseContext, [Next]_vars
  PROVE  Lease!Next \/ UNCHANGED Lease!vars
<1> USE DEF redisVars, trackVars
<1> DEFINE Goal == Lease!Next \/ UNCHANGED Lease!vars
<1>1. CASE UNCHANGED <<added, lastDelivered, pel, answered>>
  BY <1>1, LeaseStutters
<1>2. CASE Enqueue
  BY <1>2, EnqueueSubmits
<1>3. CASE SweeperStep
  <2>1. CASE SweepFindDead \/ SweepFindLive \/ \E w \in Conns : SweepList(w)
    BY <1>1, <2>1 DEF SweepFindDead, SweepFindLive, SweepList
  <2>2. CASE SweepDelete
    BY <2>2, DeleteStutters
  <2>3. CASE \E w \in Conns : SweepClaim(w)
    BY <2>3, ClaimPasses
  <2> QED  BY <1>3, <2>1, <2>2, <2>3 DEF SweeperStep
<1>4. ASSUME NEW w \in Conns,
             \/ \E n \in SlotCounts : Connect(w, n) \/ ConnectFails(w, n) \/ Reconfigure(w, n)
             \/ LinkBreaks(w) \/ Disconnect(w) \/ Cleanup(w) \/ Ping(w) \/ HeartbeatLapses(w)
             \/ \E k \in Jobs : \/ Ages(w, k) \/ EndsInSilence(w, k)
                                \/ ReceiveComplete(w, k)
      PROVE  UNCHANGED <<added, lastDelivered, pel, answered>>
  BY <1>4 DEF Connect, ConnectFails, Reconfigure, LinkBreaks, Disconnect, Cleanup,
              Ping, HeartbeatLapses, Ages, EndsInSilence, ReceiveComplete
<1>5. ASSUME NEW w \in Conns, ReaderStep(w) PROVE Goal
  <2>1. ASSUME reader[w].pc = "expireXack" PROVE reader[w].job \in Jobs
    BY <2>1, DeliveredJobs DEF LeaseContext, EntryInv, StreamInv, OnlyDelivered
  <2>2. CASE ReadNew(w)
    BY <2>2, ReadGrants
  <2>3. CASE ExpireXack(w)
    BY <2>1, <2>3, AckSettles DEF ExpireXack
  <2>4. CASE ExpirePublish(w)
    <3>1. reader[w].job \in Delivered
      BY <2>4 DEF ExpirePublish, LeaseContext, EntryInv, StreamInv, OnlyDelivered
    <3>2. PICK a \in {"unsent", "timeout"} : Publish(reader[w].job, a)
      BY <2>4 DEF ExpirePublish
    <3>3. a \in Replies /\ UNCHANGED <<added, lastDelivered, pel>>
      BY <2>4 DEF ExpirePublish, Replies
    <3> QED  BY <3>1, <3>2, <3>3, PublishReplies
  <2>5. ASSUME ~ReadNew(w), ~ExpireXack(w), ~ExpirePublish(w)
        PROVE  UNCHANGED <<added, lastDelivered, pel, answered>>
    BY <1>5, <2>5 DEF ReaderStep, ReaderStops, ReaderTop, ExpireUntrack,
         ExpireXdel, ExpireFails, ReadPending, ReadTimeout, DispatchSkip,
         DispatchAssign, Send, SendFails
  <2> QED  BY <1>1, <2>2, <2>3, <2>4, <2>5
<1>6. ASSUME NEW w \in Conns, HandlerStep(w) PROVE Goal
  <2>1. ASSUME handler[w].pc # "idle"
        PROVE  handler[w].job \in Delivered /\ handler[w].job \in Jobs
    BY <2>1, DeliveredJobs DEF LeaseContext, EntryInv, StreamInv, OnlyDelivered
  <2>2. CASE HandlerXack(w)
    BY <2>1, <2>2, AckSettles DEF HandlerXack
  <2>3. CASE HandlerPublish(w)
    <3>1. Publish(handler[w].job, "done") /\ UNCHANGED <<added, lastDelivered, pel>>
      BY <2>3 DEF HandlerPublish
    <3>2. "done" \in Replies /\ handler[w].job \in Delivered
      BY <2>1, <2>3 DEF Replies, HandlerPublish
    <3> QED  BY <3>1, <3>2, PublishReplies
  <2>4. CASE HandlerUntrack(w) \/ HandlerXdel(w)
    BY <1>1, <2>4 DEF HandlerUntrack, HandlerXdel
  <2> QED  BY <1>6, <2>2, <2>3, <2>4 DEF HandlerStep
<1>7. ASSUME NEW w \in Conns, NEW k \in Jobs, ReceiveError(w, k) PROVE Goal
  <2>1. k \in Delivered
    BY <1>7 DEF ReceiveError, LeaseContext, EntryInv, StreamInv, OnlyDelivered
  <2>2. Publish(k, "error") /\ "error" \in Replies /\ UNCHANGED <<added, lastDelivered, pel>>
    BY <1>7 DEF ReceiveError, Replies
  <2> QED  BY <2>1, <2>2, PublishReplies
<1>8. CASE UNCHANGED vars
  BY <1>1, <1>8 DEF vars
<1> QED
  BY <1>1, <1>2, <1>3, <1>4, <1>5, <1>6, <1>7, <1>8 DEF Next

LEMMA LeaseInit == Init => Lease!Init
<1> SUFFICES ASSUME Init PROVE Lease!Init
  OBVIOUS
<1>1. LeaseState = [j \in Jobs |-> "absent"]
  BY DEF Init, LeaseState, Jobs
<1> QED
  BY <1>1 DEF Init, Lease!Init

\* The dispatcher implements JobLease: with the documented timing, and no more
\* jobs than one XPENDING of the sweeper can list, each of its steps submits,
\* grants in order, passes on, settles or answers leases as JobLease allows,
\* or does nothing a caller could see.
THEOREM DispatchLeases ==
  ASSUME Timely, NumJobs <= ClaimBatch
  PROVE  Spec => LeaseSpec
<1>1. SafeInv /\ SafeInv' /\ [Next]_vars => [Lease!Next]_(Lease!vars)
  BY LeaseStep DEF LeaseContext, SafeInv
<1>2. Spec => []SafeInv
  BY SafeKept
<1> QED
  BY <1>1, <1>2, LeaseInit, PTL DEF Spec, LeaseSpec, Lease!Spec
=============================================================================
