--------------------------- MODULE ToolsWorkerProofs ---------------------------
(* Proofs about the workers that are not GPU workers.  Of a tools worker: the    *)
(* policies it applies, its browser sessions and its MCP calls; of an agent      *)
(* worker the context it pushes; of a CLI worker the calls of a run it reports.  *)
(* And, with those of the GPU worker, the types of every part side by side.      *)
EXTENDS MCWorkerParts, GpuWorkerProofs, SequenceTheorems, TLAPS

-----------------------------------------------------------------------------
(* Policies.                                                                 *)

Links == {"down", "dialled", "spoilt", "hello", "up", "exited"}
Stages == {"introspecting", "updated", "over"}

\* The last policy is over, so is every other.
Settled == reloads = <<>> \/ reloads[Len(reloads)] = "over"

\* While policies are applied one after the other, the last one is where its
\* stage says: its tools are set from "updated" on, and the server is told when
\* it is over, or turns the worker away; and then the hello names the same tools.
PolicyInv ==
  /\ reloads \in Seq(Stages) /\ twLink \in Links /\ twSocket \in BOOLEAN
  /\ twSocket => twLink \in {"dialled", "spoilt", "hello", "up"}
  /\ twLink \in {"dialled", "spoilt", "hello"} => twSocket
  /\ ~ raced =>
       /\ \A n \in 1 .. Len(reloads) : n # Len(reloads) => reloads[n] = "over"
       /\ reloads = <<>> \/ reloads[Len(reloads)] # "introspecting" => advertised = Len(reloads)
       /\ Settled /\ twLink = "dialled" => carried = advertised
       /\ Settled /\ twSocket /\ twLink \in {"hello", "up"} => announced = advertised

LEMMA PolicyInvKept ==
  ASSUME PolicyInv, [ToolsWorkerNext]_twvars
  PROVE  PolicyInv'
<1> DEFINE N == Len(reloads)
<1> USE DEF Stages, Links
<1>0. N \in Nat
  BY DEF PolicyInv
<1>1. ASSUME BeginReload, UNCHANGED <<advertised, announced>>, twLink' = "up", twSocket' \in BOOLEAN
      PROVE  PolicyInv'
  <2>1. /\ reloads' = Append(reloads, "introspecting") /\ Len(reloads') = N + 1
        /\ reloads'[N + 1] = "introspecting" /\ \A n \in 1 .. N : reloads'[n] = reloads[n]
        /\ reloads' \in Seq(Stages) /\ reloads' # <<>>
    BY <1>0, <1>1 DEF BeginReload, PolicyInv
  <2>2. ASSUME ~ raced' PROVE \A n \in 1 .. N : reloads[n] = "over"
    BY <1>1, <2>2 DEF BeginReload, UnderWay
  <2> QED  BY <1>0, <1>1, <2>1, <2>2 DEF PolicyInv, Settled
\* The link moves while no policy does.
<1>2. ASSUME UNCHANGED <<reloads, advertised, raced>>, twLink' \in Links, twSocket' \in BOOLEAN,
             twSocket' => twLink' \in {"dialled", "spoilt", "hello", "up"},
             twLink' \in {"dialled", "spoilt", "hello"} => twSocket',
             ~ raced /\ Settled /\ twLink' = "dialled" => carried' = advertised,
             ~ raced /\ Settled /\ twSocket' /\ twLink' \in {"hello", "up"} => announced' = advertised
      PROVE  PolicyInv'
  BY <1>2 DEF PolicyInv, Settled
<1>3. CASE ToolsDial
  <2>1. /\ UNCHANGED <<reloads, advertised, announced, raced>> /\ twLink = "down"
        /\ \/ twLink' = "dialled" /\ twSocket' = TRUE /\ carried' = advertised
           \/ UNCHANGED <<twLink, twSocket, carried>>
    BY <1>3 DEF ToolsDial
  <2> QED  BY <1>2, <2>1 DEF PolicyInv
<1>4. CASE ToolsHello \/ ToolsTurnedAway
  BY <1>2, <1>4 DEF ToolsHello, ToolsTurnedAway, ToolsConnectFails, PolicyInv
<1>5. CASE ToolsHelloAck
  <2>1. CASE BeginReload /\ twLink' = "up" /\ UNCHANGED twSocket
    BY <1>1, <1>5, <2>1 DEF ToolsHelloAck, PolicyInv
  <2>2. CASE UNCHANGED <<reloads, raced>>
    BY <1>2, <1>5, <2>2 DEF ToolsHelloAck, ToolsConnectFails, PolicyInv
  <2> QED  BY <1>5, <2>1, <2>2 DEF ToolsHelloAck
<1>6. CASE SocketFails \/ LoopEnds \/ Shutdown
  <2>1. UNCHANGED <<reloads, advertised, carried, announced, raced>>
    BY <1>6 DEF SocketFails, LoopEnds, Shutdown
  <2> QED  BY <1>2, <1>6, <2>1 DEF SocketFails, LoopEnds, Shutdown, PolicyInv
<1>7. CASE ReloadPolicy
  BY <1>1, <1>7 DEF ReloadPolicy, Online, PolicyInv
<1>8. ASSUME NEW n \in 1 .. N, UpdateAdvertisedTools(n) PROVE PolicyInv'
  <2>1. /\ reloads' = [reloads EXCEPT ![n] = "updated"] /\ Len(reloads') = N /\ reloads[n] = "introspecting"
        /\ reloads' \in Seq(Stages)
        /\ reloads'[n] = "updated" /\ \A k \in 1 .. N : k # n => reloads'[k] = reloads[k]
    BY <1>0, <1>8 DEF UpdateAdvertisedTools, PolicyInv
  <2>2. ~ raced => n = N
    BY <2>1 DEF PolicyInv
  <2>3. advertised' = n /\ UNCHANGED <<twLink, twSocket, raced>> /\ reloads' # <<>>
    BY <1>0, <1>8, <2>1 DEF UpdateAdvertisedTools
  <2>4. ASSUME ~ raced' PROVE n = N /\ \A k \in 1 .. N : k # N => reloads'[k] = "over"
    BY <2>1, <2>2, <2>3, <2>4 DEF PolicyInv
  <2> QED  BY <1>0, <2>1, <2>3, <2>4 DEF PolicyInv, Settled
<1>9. ASSUME NEW n \in 1 .. N, SendPolicyReloaded(n) PROVE PolicyInv'
  <2>1. /\ reloads' = [reloads EXCEPT ![n] = "over"] /\ Len(reloads') = N /\ reloads[n] = "updated"
        /\ reloads' \in Seq(Stages)
        /\ reloads'[n] = "over" /\ \A k \in 1 .. N : k # n => reloads'[k] = reloads[k]
    BY <1>0, <1>9 DEF SendPolicyReloaded, PolicyInv
  <2>2. ~ raced => n = N /\ advertised = N
    BY <1>0, <2>1 DEF PolicyInv
  <2>3. /\ UNCHANGED <<twSocket, raced, advertised>> /\ twLink' \in {twLink, "spoilt"} /\ twLink' # "dialled"
        /\ twLink' = "spoilt" => twLink \in {"dialled", "spoilt"}
        /\ twSocket => announced' = n
    BY <1>9 DEF SendPolicyReloaded, Speaks, PolicyInv
  <2>4. ASSUME ~ raced' PROVE n = N /\ advertised' = N /\ \A k \in 1 .. N : k # N => reloads'[k] = "over"
    BY <2>1, <2>2, <2>3, <2>4 DEF PolicyInv
  <2> QED  BY <1>0, <2>1, <2>3, <2>4 DEF PolicyInv, Settled
<1>10. CASE ReceiveToolJob \/ UNCHANGED twvars
  BY <1>2, <1>10 DEF ReceiveToolJob, twvars, PolicyInv
<1>11. ASSUME NEW k \in 1 .. Len(toolJobs), SendResult(k) PROVE PolicyInv'
  <2>1. /\ UNCHANGED <<reloads, advertised, carried, announced, raced, twSocket>>
        /\ twLink' \in {twLink, "spoilt"} /\ (twLink' = "spoilt" => twLink \in {"dialled", "spoilt"})
    BY <1>11 DEF SendResult, Speaks
  <2> QED  BY <1>2, <2>1 DEF PolicyInv
<1> QED
  BY <1>3, <1>4, <1>5, <1>6, <1>7, <1>8, <1>9, <1>10, <1>11 DEF ToolsWorkerNext

LEMMA PolicyInvStarts == ToolsWorkerInit => PolicyInv
<1> SUFFICES ASSUME ToolsWorkerInit PROVE PolicyInv
  OBVIOUS
<1>1. reloads = <<>> /\ Len(reloads) = 0 /\ twLink = "down" /\ ~ twSocket /\ twSocket \in BOOLEAN
      /\ advertised = 0
  BY DEF ToolsWorkerInit
<1>2. reloads \in Seq(Stages)
  BY <1>1 DEF Stages
<1> QED
  BY <1>1, <1>2 DEF PolicyInv, Links

\* Whatever the link did while the policies came, the worker ends with the tools
\* of the last one and has named them on the connection it is accepted on.
THEOREM LastPolicyHolds == ToolsWorkerSpec => []PolicyTakesHold
<1>1. PolicyInv => PolicyTakesHold
  <2> SUFFICES ASSUME PolicyInv, UnderWay = {}, ~ raced
               PROVE  advertised = Len(reloads) /\ (Online => announced = advertised)
    BY DEF PolicyTakesHold
  <2>1. Settled
    BY DEF PolicyInv, UnderWay, Settled
  <2> QED  BY <2>1 DEF PolicyInv, Online, Settled
<1> QED
  BY PolicyInvStarts, <1>1, PolicyInvKept, PTL DEF ToolsWorkerSpec

-----------------------------------------------------------------------------
(* Browser sessions.                                                         *)

SessionSides == {"new", "void", "listening", "closing", "closed"}

SessionRecords == [thread : Threads, side : SessionSides, known : BOOLEAN]
CallRecords(n) ==
  [at : {"idle", "connecting", "found", "ready", "calling", "evicted"}, sess : 0 .. n, try : {1, 2}]

SessionTypes ==
  /\ sessions \in Seq(SessionRecords)
  /\ registry \in [Threads -> 0 .. Len(sessions)]
  /\ callers \in [Callers -> CallRecords(Len(sessions))]
  /\ \A c \in Callers : callers[c].at # "idle" => callers[c].sess # 0

\* A session that nobody has closed yet is in the registry or was pushed out of
\* it; a session that was closed, or is being closed, and can still be found is one
\* the sidecar has forgotten; and who connects a session is the only one to do so.
BrowserInv ==
  /\ SessionTypes
  /\ \A t \in Threads : registry[t] # 0 => sessions[registry[t]].thread = t
  /\ \A s \in 1 .. Len(sessions) :
       /\ sessions[s].side \in {"new", "listening"} => registry[sessions[s].thread] = s \/ s \in displaced
       /\ sessions[s].side \in {"closing", "closed"} /\ registry[sessions[s].thread] = s => ~ sessions[s].known
  /\ \A c \in Callers : callers[c].at = "connecting" =>
       sessions[callers[c].sess].side = "new" /\ ~ sessions[callers[c].sess].known
  /\ \A c, d \in Callers :
       callers[c].at = "connecting" /\ callers[d].at = "connecting"
         /\ callers[c].sess = callers[d].sess => c = d

\* The parts of BrowserInv, so that the next state has them too.
OwnedAt(s) ==
  sessions[s].side \in {"new", "listening"} => registry[sessions[s].thread] = s \/ s \in displaced
ForgottenAt(s) ==
  sessions[s].side \in {"closing", "closed"} /\ registry[sessions[s].thread] = s => ~ sessions[s].known
ConnectsAt(c) ==
  callers[c].at = "connecting" => sessions[callers[c].sess].side = "new" /\ ~ sessions[callers[c].sess].known

\* What a session is after one step of it.
LEMMA SideBecomes ==
  ASSUME NEW w \in SessionRecords, NEW side \in SessionSides
  PROVE  /\ [w EXCEPT !.side = side] \in SessionRecords
         /\ [w EXCEPT !.side = side].thread = w.thread /\ [w EXCEPT !.side = side].side = side
         /\ [w EXCEPT !.side = side].known = w.known
BY DEF SessionRecords

LEMMA KnownBecomes ==
  ASSUME NEW w \in SessionRecords, NEW known \in BOOLEAN
  PROVE  /\ [w EXCEPT !.known = known] \in SessionRecords
         /\ [w EXCEPT !.known = known].thread = w.thread /\ [w EXCEPT !.known = known].side = w.side
         /\ [w EXCEPT !.known = known].known = known
BY DEF SessionRecords

\* A step that changes one session.
LEMMA SessionChanges ==
  ASSUME SessionTypes, NEW s \in 1 .. Len(sessions), NEW r \in SessionRecords,
         sessions' = [sessions EXCEPT ![s] = r]
  PROVE  /\ sessions' \in Seq(SessionRecords) /\ Len(sessions') = Len(sessions)
         /\ sessions'[s] = r /\ \A k \in 1 .. Len(sessions) : k # s => sessions'[k] = sessions[k]
<1>1. sessions \in Seq(SessionRecords)
  BY DEF SessionTypes
<1>2. /\ [sessions EXCEPT ![s] = r] \in Seq(SessionRecords)
      /\ Len([sessions EXCEPT ![s] = r]) = Len(sessions)
      /\ \A k \in 1 .. Len(sessions) :
           [sessions EXCEPT ![s] = r][k] = IF k = s THEN r ELSE sessions[k]
  BY <1>1, ExceptSeq
<1> QED
  BY <1>2

\* What keeps the invariant, part by part.
LEMMA BrowserFrame ==
  ASSUME BrowserInv, SessionTypes', Len(sessions') = Len(sessions),
         \A k \in 1 .. Len(sessions) : sessions'[k].thread = sessions[k].thread,
         \A t \in Threads : registry'[t] # 0 => registry'[t] = registry[t],
         \A k \in 1 .. Len(sessions) : OwnedAt(k)' /\ ForgottenAt(k)',
         \A c \in Callers : /\ callers'[c].at = "connecting" => callers'[c] = callers[c]
                            /\ ConnectsAt(c)'
  PROVE  BrowserInv'
<1>1. \A t \in Threads : registry'[t] # 0 => sessions'[registry'[t]].thread = t
  <2>1. \A t \in Threads : registry[t] # 0 => registry[t] \in 1 .. Len(sessions)
    BY LenProperties DEF BrowserInv, SessionTypes
  <2> QED  BY <2>1 DEF BrowserInv
<1>2. \A c, d \in Callers : callers'[c].at = "connecting" /\ callers'[d].at = "connecting"
                              /\ callers'[c].sess = callers'[d].sess => c = d
  BY DEF BrowserInv
<1> QED
  BY <1>1, <1>2 DEF BrowserInv, OwnedAt, ForgottenAt, ConnectsAt

\* The session a call finds or makes.
LEMMA GetOrCreateKeeps ==
  ASSUME BrowserInv, NEW c \in Callers, NEW t \in Threads, NEW try \in {1, 2}, GetOrCreate(c, t, try),
         UNCHANGED displaced
  PROVE  BrowserInv'
<1>0. /\ SessionTypes /\ Len(sessions) \in Nat
      /\ \A k \in 1 .. Len(sessions) : OwnedAt(k) /\ ForgottenAt(k)
      /\ \A d \in Callers : ConnectsAt(d)
      /\ \A k \in 1 .. Len(sessions) : sessions[k] \in SessionRecords
  BY ElementOfSeq DEF BrowserInv, SessionTypes, OwnedAt, ForgottenAt, ConnectsAt
<1>1. CASE registry[t] # 0
  <2>1. /\ callers' = [callers EXCEPT ![c] = [at |-> "found", sess |-> registry[t], try |-> try]]
        /\ UNCHANGED <<sessions, registry, displaced>>
    BY <1>1 DEF GetOrCreate
  <2>2. /\ callers'[c] = [at |-> "found", sess |-> registry[t], try |-> try]
        /\ \A d \in Callers : d # c => callers'[d] = callers[d]
    BY <1>0, <2>1 DEF SessionTypes
  <2>3. SessionTypes'
    BY <1>0, <1>1, <2>1 DEF SessionTypes, CallRecords
  <2>4. \A k \in 1 .. Len(sessions) : OwnedAt(k)' /\ ForgottenAt(k)'
    BY <1>0, <2>1 DEF OwnedAt, ForgottenAt
  <2>5. \A d \in Callers : ConnectsAt(d)' /\ (callers'[d].at = "connecting" => callers'[d] = callers[d])
    BY <1>0, <2>1, <2>2 DEF ConnectsAt
  <2> QED  BY <2>1, <2>3, <2>4, <2>5, BrowserFrame
<1>2. CASE registry[t] = 0
  <2> DEFINE n == Len(sessions) + 1
             new == [thread |-> t, side |-> "new", known |-> FALSE]
  <2>1. /\ sessions' = Append(sessions, new) /\ registry' = [registry EXCEPT ![t] = n]
        /\ callers' = [callers EXCEPT ![c] = [at |-> "connecting", sess |-> n, try |-> try]]
    BY <1>2 DEF GetOrCreate
  <2>2. /\ callers'[c] = [at |-> "connecting", sess |-> n, try |-> try]
        /\ \A d \in Callers : d # c => callers'[d] = callers[d]
    BY <1>0, <2>1 DEF SessionTypes
  <2>3. new \in SessionRecords
    BY DEF SessionSides, SessionRecords
  <2>4. /\ Len(sessions') = n /\ sessions'[n] = new
        /\ \A k \in 1 .. Len(sessions) : sessions'[k] = sessions[k]
        /\ sessions' \in Seq(SessionRecords)
    BY <1>0, <2>1, <2>3 DEF SessionTypes
  <2>5. registry'[t] = n /\ \A u \in Threads : u # t => registry'[u] = registry[u]
    BY <1>0, <2>1 DEF SessionTypes
  <2>6. SessionTypes'
    <3>1. registry' \in [Threads -> 0 .. Len(sessions')]
      BY <1>0, <2>1, <2>4 DEF SessionTypes
    <3>2. callers' \in [Callers -> CallRecords(Len(sessions'))]
      <4>1. \A d \in Callers : callers[d] \in CallRecords(Len(sessions))
        BY <1>0 DEF SessionTypes
      <4>2. \A d \in Callers : callers'[d] \in CallRecords(n)
        BY <1>0, <2>2, <4>1 DEF CallRecords
      <4> QED  BY <1>0, <2>1, <2>4, <4>2 DEF SessionTypes
    <3>3. \A d \in Callers : callers'[d].at # "idle" => callers'[d].sess # 0
      BY <1>0, <2>2 DEF SessionTypes
    <3> QED  BY <2>4, <3>1, <3>2, <3>3 DEF SessionTypes
  <2>7. \A u \in Threads : registry'[u] # 0 => sessions'[registry'[u]].thread = u
    BY <1>0, <2>4, <2>5 DEF BrowserInv, SessionTypes
  <2>8. ASSUME NEW k \in 1 .. Len(sessions') PROVE OwnedAt(k)' /\ ForgottenAt(k)'
    <3>1. CASE k = n
      BY <2>4, <2>5, <3>1 DEF OwnedAt, ForgottenAt
    <3>2. CASE k # n
      <4>1. k \in 1 .. Len(sessions) /\ sessions'[k] = sessions[k] /\ sessions[k].thread \in Threads
        BY <1>0, <2>4, <3>2 DEF SessionRecords
      <4>2. registry'[sessions[k].thread] = k <=> registry[sessions[k].thread] = k
        BY <1>0, <1>2, <2>5, <3>2, <4>1
      <4> QED  BY <1>0, <4>1, <4>2 DEF OwnedAt, ForgottenAt
    <3> QED  BY <3>1, <3>2
  <2>9. ASSUME NEW d \in Callers PROVE ConnectsAt(d)'
    <3>1. CASE d = c
      BY <2>2, <2>4, <3>1 DEF ConnectsAt
    <3>2. CASE d # c
      <4>1. callers[d].at # "idle" => callers[d].sess \in 1 .. Len(sessions)
        BY <1>0 DEF SessionTypes, CallRecords
      <4> QED  BY <1>0, <2>2, <2>4, <3>2, <4>1 DEF ConnectsAt
    <3> QED  BY <3>1, <3>2
  <2>10. \A d \in Callers : d # c => callers'[d].sess # n
    BY <1>0, <2>2 DEF SessionTypes, CallRecords
  <2> QED  BY <2>2, <2>6, <2>7, <2>8, <2>9, <2>10 DEF BrowserInv, OwnedAt, ForgottenAt, ConnectsAt
<1> QED
  BY <1>1, <1>2

\* A step that changes one session, takes registrations away and connects nothing
\* that was not being connected.
LEMMA OneSession ==
  ASSUME BrowserInv, NEW s \in 1 .. Len(sessions), NEW r \in SessionRecords,
         sessions' = [sessions EXCEPT ![s] = r], r.thread = sessions[s].thread,
         registry' \in [Threads -> 0 .. Len(sessions)], callers' \in [Callers -> CallRecords(Len(sessions))],
         \A c \in Callers : callers'[c].at # "idle" => callers'[c].sess # 0,
         displaced \subseteq displaced',
         \A t \in Threads : \/ registry'[t] = registry[t]
                            \/ registry'[t] = 0 /\ registry[t] \in displaced' \cup {0, s},
         \A c \in Callers : callers'[c].at = "connecting" => callers'[c] = callers[c] /\ callers[c].sess # s,
         r.side \in {"new", "listening"} => registry'[r.thread] = s \/ s \in displaced',
         r.side \in {"closing", "closed"} /\ registry'[r.thread] = s => ~ r.known
  PROVE  BrowserInv'
<1>1. /\ SessionTypes /\ Len(sessions) \in Nat
      /\ \A k \in 1 .. Len(sessions) : OwnedAt(k) /\ ForgottenAt(k) /\ sessions[k].thread \in Threads
      /\ \A c \in Callers : ConnectsAt(c)
  <2>1. SessionTypes /\ Len(sessions) \in Nat /\ \A k \in 1 .. Len(sessions) : sessions[k] \in SessionRecords
    BY ElementOfSeq, LenProperties DEF BrowserInv, SessionTypes
  <2> QED  BY <2>1 DEF BrowserInv, OwnedAt, ForgottenAt, ConnectsAt, SessionRecords
<1>2. /\ sessions' \in Seq(SessionRecords) /\ Len(sessions') = Len(sessions)
      /\ sessions'[s] = r /\ \A k \in 1 .. Len(sessions) : k # s => sessions'[k] = sessions[k]
  BY <1>1, SessionChanges
<1>3. SessionTypes'
  BY <1>2 DEF SessionTypes
<1>4. ASSUME NEW k \in 1 .. Len(sessions) PROVE OwnedAt(k)' /\ ForgottenAt(k)'
  <2>1. CASE k = s
    BY <1>2, <2>1 DEF OwnedAt, ForgottenAt
  <2>2. CASE k # s
    <3>1. sessions'[k] = sessions[k] /\ sessions[k].thread \in Threads
      BY <1>1, <1>2, <2>2
    <3>2. registry[sessions[k].thread] = k => registry'[sessions[k].thread] = k \/ k \in displaced'
      BY <1>1, <2>2, <3>1
    <3>3. registry'[sessions[k].thread] = k => registry[sessions[k].thread] = k
      BY <1>1, <2>2, <3>1
    <3> QED  BY <1>1, <3>1, <3>2, <3>3 DEF OwnedAt, ForgottenAt
  <2> QED  BY <2>1, <2>2
<1>5. ASSUME NEW c \in Callers PROVE ConnectsAt(c)'
  <2>1. SUFFICES ASSUME callers'[c].at = "connecting"
                 PROVE  sessions'[callers'[c].sess].side = "new" /\ ~ sessions'[callers'[c].sess].known
    BY DEF ConnectsAt
  <2>2. callers'[c] = callers[c] /\ callers[c].sess # s /\ callers[c].sess \in 1 .. Len(sessions)
    BY <1>1, <2>1 DEF SessionTypes, CallRecords
  <2> QED  BY <1>1, <1>2, <2>1, <2>2 DEF ConnectsAt
<1> QED
  BY <1>2, <1>3, <1>4, <1>5, <1>1, BrowserFrame

\* What every step finds.
LEMMA BrowserFacts ==
  ASSUME BrowserInv
  PROVE  /\ SessionTypes /\ Len(sessions) \in Nat
         /\ \A k \in 1 .. Len(sessions) :
              /\ OwnedAt(k) /\ ForgottenAt(k) /\ sessions[k] \in SessionRecords
              /\ sessions[k].thread \in Threads /\ sessions[k].known \in BOOLEAN
         /\ \A c \in Callers :
              /\ ConnectsAt(c) /\ callers[c] \in CallRecords(Len(sessions))
              /\ callers[c].at # "idle" => callers[c].sess \in 1 .. Len(sessions)
<1>1. SessionTypes /\ Len(sessions) \in Nat /\ \A k \in 1 .. Len(sessions) : sessions[k] \in SessionRecords
  BY ElementOfSeq, LenProperties DEF BrowserInv, SessionTypes
<1>2. \A c \in Callers : callers[c] \in CallRecords(Len(sessions))
  BY <1>1 DEF SessionTypes
<1> QED
  BY <1>1, <1>2 DEF BrowserInv, OwnedAt, ForgottenAt, ConnectsAt, SessionRecords, SessionTypes,
                    CallRecords

\* Where a caller stands after a step that leaves it with its session or with none.
LEMMA CallerMoves ==
  ASSUME BrowserInv, NEW c \in Callers, NEW w \in CallRecords(Len(sessions)),
         callers' = [callers EXCEPT ![c] = w], callers[c].at # "idle",
         w.at # "idle" => w.sess = callers[c].sess
  PROVE  /\ callers' \in [Callers -> CallRecords(Len(sessions))]
         /\ \A d \in Callers : callers'[d].at # "idle" => callers'[d].sess # 0
         /\ callers'[c] = w /\ \A d \in Callers : d # c => callers'[d] = callers[d]
<1>1. /\ SessionTypes /\ Len(sessions) \in Nat
      /\ \A d \in Callers : callers[d].at # "idle" => callers[d].sess \in 1 .. Len(sessions)
  BY BrowserFacts
<1>2. callers'[c] = w /\ \A d \in Callers : d # c => callers'[d] = callers[d]
  BY <1>1 DEF SessionTypes
<1>3. callers' \in [Callers -> CallRecords(Len(sessions))]
  BY <1>1 DEF SessionTypes
<1> QED
  BY <1>1, <1>2, <1>3 DEF SessionTypes

\* A caller's record after its position alone changes.
LEMMA CallBecomes ==
  ASSUME NEW n \in Nat, NEW w \in CallRecords(n), NEW at \in {"ready", "calling", "evicted"}
  PROVE  /\ [w EXCEPT !.at = at] \in CallRecords(n) /\ [w EXCEPT !.at = at].at = at
         /\ [w EXCEPT !.at = at].sess = w.sess /\ NoCall \in CallRecords(n) /\ NoCall.at = "idle"
BY DEF CallRecords, NoCall

LEMMA BrowserCallKept ==
  ASSUME BrowserInv, NEW c \in Callers,
         Touch(c) \/ Connect(c) \/ ConnectFails(c) \/ DoCall(c) \/ CallReturns(c) \/ CallFindsDead(c)
  PROVE  BrowserInv'
<1> DEFINE s == callers[c].sess
           t == sessions[s].thread
<1>0. /\ SessionTypes /\ Len(sessions) \in Nat
      /\ \A k \in 1 .. Len(sessions) :
           /\ OwnedAt(k) /\ ForgottenAt(k) /\ sessions[k] \in SessionRecords
           /\ sessions[k].thread \in Threads /\ sessions[k].known \in BOOLEAN
      /\ \A d \in Callers :
           /\ ConnectsAt(d) /\ callers[d] \in CallRecords(Len(sessions))
           /\ callers[d].at # "idle" => callers[d].sess \in 1 .. Len(sessions)
  BY BrowserFacts
<1>1. callers[c].at # "idle" /\ s \in 1 .. Len(sessions) /\ t \in Threads /\ sessions[s] \in SessionRecords
  BY <1>0 DEF Touch, Connect, ConnectFails, DoCall, CallReturns, CallFindsDead
<1>2. CASE Touch(c) \/ DoCall(c) \/ CallReturns(c)
  <2>1. UNCHANGED <<sessions, registry, displaced>>
    BY <1>2 DEF Touch, DoCall, CallReturns
  <2>2. PICK w \in CallRecords(Len(sessions)) :
          /\ callers' = [callers EXCEPT ![c] = w] /\ w.at \in {"ready", "calling", "idle"}
          /\ w.at # "idle" => w.sess = s
    <3>1. CASE DoCall(c)
      <4>1. callers' = [callers EXCEPT ![c] = [callers[c] EXCEPT !.at = "calling"]]
        BY <3>1 DEF DoCall
      <4> QED  BY <1>0, <4>1, CallBecomes
    <3>2. CASE CallReturns(c)
      <4>1. callers' = [callers EXCEPT ![c] = NoCall]
        BY <3>2 DEF CallReturns
      <4> QED  BY <1>0, <4>1, CallBecomes
    <3>3. CASE Touch(c)
      <4>1. callers' = [callers EXCEPT ![c] = [callers[c] EXCEPT !.at = "ready"]]
        BY <3>3 DEF Touch
      <4> QED  BY <1>0, <4>1, CallBecomes
    <3> QED  BY <1>2, <3>1, <3>2, <3>3
  <2>3. /\ callers' \in [Callers -> CallRecords(Len(sessions))]
        /\ \A d \in Callers : callers'[d].at # "idle" => callers'[d].sess # 0
        /\ callers'[c] = w /\ \A d \in Callers : d # c => callers'[d] = callers[d]
    BY <1>1, <2>2, CallerMoves
  <2>4. SessionTypes'
    BY <1>0, <2>1, <2>3 DEF SessionTypes
  <2>5. \A k \in 1 .. Len(sessions) : OwnedAt(k)' /\ ForgottenAt(k)'
    BY <1>0, <2>1, <2>3 DEF OwnedAt, ForgottenAt
  <2>6. \A d \in Callers : ConnectsAt(d)' /\ (callers'[d].at = "connecting" => callers'[d] = callers[d])
    BY <1>0, <2>1, <2>2, <2>3 DEF ConnectsAt
  <2> QED  BY <2>1, <2>4, <2>5, <2>6, BrowserFrame
<1>3. CASE Connect(c)
  <2>1. PICK w : w = [callers[c] EXCEPT !.at = "ready"]
    OBVIOUS
  <2>2. w \in CallRecords(Len(sessions)) /\ w.at = "ready" /\ w.sess = s
    BY <1>0, <2>1, CallBecomes
  <2>3. /\ callers[c].at = "connecting" /\ callers' = [callers EXCEPT ![c] = w]
        /\ UNCHANGED <<registry, displaced>>
    BY <1>3, <2>1 DEF Connect
  <2>4. PICK v : v = [sessions[s] EXCEPT !.side = "listening"]
    OBVIOUS
  <2>5. PICK r : r = [v EXCEPT !.known = TRUE]
    OBVIOUS
  <2>6. v \in SessionRecords /\ v.thread = t /\ v.side = "listening"
    BY <1>1, <2>4, SideBecomes DEF SessionSides
  <2>7. r \in SessionRecords /\ r.thread = t /\ r.side = "listening" /\ r.known = TRUE
    BY <2>5, <2>6, KnownBecomes
  <2>8. sessions' = [sessions EXCEPT ![s] = r]
    <3>1. sessions' = [[sessions EXCEPT ![s] = v] EXCEPT ![s] = [[sessions EXCEPT ![s] = v][s] EXCEPT !.known = TRUE]]
      BY <1>3, <2>4 DEF Connect
    <3>2. [sessions EXCEPT ![s] = v][s] = v
      BY <1>0, <1>1 DEF SessionTypes
    <3> QED  BY <2>5, <3>1, <3>2
  <2>9. sessions[s].side = "new"
    BY <1>0, <2>3 DEF ConnectsAt
  <2>10. registry[t] = s \/ s \in displaced
    BY <1>0, <1>1, <2>9 DEF OwnedAt
  <2>11. \A d \in Callers : callers'[d].at = "connecting" => callers'[d] = callers[d] /\ callers[d].sess # s
    BY <1>1, <2>2, <2>3, CallerMoves, ZenonT(60) DEF BrowserInv
  <2>12. /\ callers' \in [Callers -> CallRecords(Len(sessions))]
         /\ \A d \in Callers : callers'[d].at # "idle" => callers'[d].sess # 0
    BY <1>1, <2>2, <2>3, CallerMoves
  <2> QED  BY <1>0, <1>1, <2>3, <2>7, <2>8, <2>10, <2>11, <2>12, OneSession, ZenonT(60) DEF SessionTypes
<1>4. CASE ConnectFails(c) \/ CallFindsDead(c)
  <2>1. PICK w \in CallRecords(Len(sessions)) :
          /\ callers' = [callers EXCEPT ![c] = w] /\ w.at \in {"evicted", "idle"}
          /\ w.at # "idle" => w.sess = s
    <3>1. CASE ConnectFails(c)
      <4>1. callers' = [callers EXCEPT ![c] = NoCall]
        BY <3>1 DEF ConnectFails
      <4> QED  BY <1>0, <4>1, CallBecomes
    <3>2. CASE CallFindsDead(c)
      <4>1. callers' = [callers EXCEPT ![c] = [callers[c] EXCEPT !.at = "evicted"]]
        BY <3>2 DEF CallFindsDead
      <4> QED  BY <1>0, <4>1, CallBecomes
    <3> QED  BY <1>4, <3>1, <3>2
  <2>2. /\ callers' \in [Callers -> CallRecords(Len(sessions))]
        /\ \A d \in Callers : callers'[d].at # "idle" => callers'[d].sess # 0
        /\ callers'[c] = w /\ \A d \in Callers : d # c => callers'[d] = callers[d]
    BY <1>1, <2>1, CallerMoves
  <2>3. ~ sessions[s].known
    BY <1>0, <1>4 DEF ConnectFails, CallFindsDead, ConnectsAt
  <2>4. \A d \in Callers : callers'[d].at = "connecting" => callers'[d] = callers[d] /\ callers[d].sess # s
    <3>1. CASE ConnectFails(c)
      BY <2>1, <2>2, <3>1 DEF BrowserInv, ConnectFails
    <3>2. CASE CallFindsDead(c)
      BY <1>0, <2>1, <2>2, <3>2 DEF CallFindsDead, ConnectsAt
    <3> QED  BY <1>4, <3>1, <3>2
  <2>5. PICK side \in {"closing", "closed", "void"} : sessions' = [sessions EXCEPT ![s] = [sessions[s] EXCEPT !.side = side]]
    BY <1>4 DEF ConnectFails, CallFindsDead
  <2>6. PICK r : r = [sessions[s] EXCEPT !.side = side]
    OBVIOUS
  <2>7. r \in SessionRecords /\ r.thread = t /\ r.side = side /\ r.known = sessions[s].known
    <3>1. side \in SessionSides
      BY DEF SessionSides
    <3> QED  BY <1>1, <2>6, <3>1, SideBecomes
  <2>8. /\ registry' = [registry EXCEPT ![t] = 0]
        /\ displaced' = displaced \cup ({registry[t]} \ {0, s})
    BY <1>4 DEF ConnectFails, CallFindsDead
  <2>9. registry' \in [Threads -> 0 .. Len(sessions)]
    <3>1. registry \in [Threads -> 0 .. Len(sessions)] /\ 0 \in 0 .. Len(sessions)
      BY <1>0 DEF SessionTypes
    <3> QED  BY <1>1, <2>8, <3>1
  <2>10. \A u \in Threads : \/ registry'[u] = registry[u]
                            \/ registry'[u] = 0 /\ registry[u] \in displaced' \cup {0, s}
    BY <1>0, <1>1, <2>8 DEF SessionTypes
  <2> QED  BY <1>1, <2>2, <2>3, <2>4, <2>5, <2>6, <2>7, <2>8, <2>9, <2>10, OneSession
<1> QED
  BY <1>2, <1>3, <1>4

\* Steps of the sidecar, the listening loop, the sweep and the closing.
LEMMA BrowserSessionKept ==
  ASSUME BrowserInv, NEW s \in 1 .. Len(sessions), NEW r \in SessionRecords,
         sessions' = [sessions EXCEPT ![s] = r], r.thread = sessions[s].thread,
         UNCHANGED <<callers, displaced>>,
         \A c \in Callers : callers[c].at = "connecting" => callers[c].sess # s,
         \/ registry' = registry
         \/ registry[r.thread] = s /\ registry' = [registry EXCEPT ![r.thread] = 0],
         \/ r.side = sessions[s].side /\ registry' = registry /\ ~ r.known
         \/ r.side \in {"closing", "closed"} /\ (~ r.known \/ registry'[r.thread] # s)
  PROVE  BrowserInv'
<1>0. /\ SessionTypes /\ Len(sessions) \in Nat
      /\ \A k \in 1 .. Len(sessions) :
           /\ OwnedAt(k) /\ ForgottenAt(k) /\ sessions[k] \in SessionRecords
           /\ sessions[k].thread \in Threads /\ sessions[k].known \in BOOLEAN
      /\ \A d \in Callers :
           /\ ConnectsAt(d) /\ callers[d] \in CallRecords(Len(sessions))
           /\ callers[d].at # "idle" => callers[d].sess \in 1 .. Len(sessions)
  BY BrowserFacts
<1>1. \A c \in Callers : callers'[c].at = "connecting" => callers'[c] = callers[c] /\ callers[c].sess # s
  OBVIOUS
<1>2. registry' \in [Threads -> 0 .. Len(sessions)]
  <2>1. registry \in [Threads -> 0 .. Len(sessions)] /\ 0 \in 0 .. Len(sessions)
    BY <1>0 DEF SessionTypes
  <2> QED  BY <1>0, <2>1
<1>3. \A t \in Threads : \/ registry'[t] = registry[t]
                         \/ registry'[t] = 0 /\ registry[t] \in displaced' \cup {0, s}
  BY <1>0 DEF SessionTypes
<1>4. r.side \in {"new", "listening"} => registry'[r.thread] = s \/ s \in displaced'
  BY <1>0 DEF OwnedAt
<1>5. r.side \in {"closing", "closed"} /\ registry'[r.thread] = s => ~ r.known
  OBVIOUS
<1> QED
  BY <1>0, <1>1, <1>2, <1>3, <1>4, <1>5, OneSession DEF SessionTypes

LEMMA BrowserInvKept ==
  ASSUME BrowserInv, [BrowserNext]_browservars
  PROVE  BrowserInv'
<1>0. /\ SessionTypes /\ Len(sessions) \in Nat
      /\ \A k \in 1 .. Len(sessions) :
           /\ OwnedAt(k) /\ ForgottenAt(k) /\ sessions[k] \in SessionRecords
           /\ sessions[k].thread \in Threads /\ sessions[k].known \in BOOLEAN
      /\ \A d \in Callers :
           /\ ConnectsAt(d) /\ callers[d] \in CallRecords(Len(sessions))
           /\ callers[d].at # "idle" => callers[d].sess \in 1 .. Len(sessions)
  BY BrowserFacts
<1>1. CASE SidecarStarts \/ UNCHANGED browservars
  BY <1>1 DEF SidecarStarts, browservars, BrowserInv, SessionTypes
<1>2. CASE SidecarDies
  <2>1. /\ sessions' = [k \in 1 .. Len(sessions) |-> [sessions[k] EXCEPT !.known = FALSE]]
        /\ UNCHANGED <<registry, callers, displaced>>
    BY <1>2 DEF SidecarDies
  <2>2. \A k \in 1 .. Len(sessions) :
          /\ sessions'[k] \in SessionRecords /\ sessions'[k].thread = sessions[k].thread
          /\ sessions'[k].side = sessions[k].side /\ ~ sessions'[k].known
    BY <1>0, <2>1, KnownBecomes
  <2>3. sessions' \in Seq(SessionRecords) /\ Len(sessions') = Len(sessions)
    BY <1>0, <2>1, <2>2, IsASeq
  <2>4. SessionTypes'
    BY <1>0, <2>1, <2>3 DEF SessionTypes
  <2>5. \A k \in 1 .. Len(sessions) : OwnedAt(k)' /\ ForgottenAt(k)'
    BY <1>0, <2>1, <2>2 DEF OwnedAt, ForgottenAt
  <2>6. \A c \in Callers : ConnectsAt(c)' /\ callers'[c] = callers[c]
    BY <1>0, <2>1, <2>2 DEF ConnectsAt
  <2> QED  BY <2>1, <2>2, <2>3, <2>4, <2>5, <2>6, BrowserFrame
<1>3. ASSUME NEW c \in Callers, NEW t \in Threads, ExecuteCall(c, t) PROVE BrowserInv'
  BY <1>3, GetOrCreateKeeps DEF ExecuteCall
<1>4. ASSUME NEW c \in Callers, CallAgain(c) PROVE BrowserInv'
  <2>1. sessions[callers[c].sess].thread \in Threads
    BY <1>0, <1>4 DEF CallAgain
  <2> QED  BY <1>4, <2>1, GetOrCreateKeeps DEF CallAgain
<1>5. ASSUME NEW s \in 1 .. Len(sessions), SidecarForgets(s) PROVE BrowserInv'
  <2>1. PICK r : r = [sessions[s] EXCEPT !.known = FALSE]
    OBVIOUS
  <2>2. sessions[s].known /\ sessions' = [sessions EXCEPT ![s] = r] /\ UNCHANGED <<registry, callers, displaced>>
    BY <1>5, <2>1 DEF SidecarForgets
  <2>3. r \in SessionRecords /\ r.thread = sessions[s].thread /\ r.side = sessions[s].side /\ ~ r.known
    BY <1>0, <2>1, KnownBecomes
  <2>4. \A c \in Callers : callers[c].at = "connecting" => callers[c].sess # s
    BY <1>0, <2>2 DEF ConnectsAt
  <2> QED  BY <2>2, <2>3, <2>4, BrowserSessionKept
<1>6. ASSUME NEW s \in 1 .. Len(sessions), ListenFindsDead(s) PROVE BrowserInv'
  <2>1. PICK r : r = [sessions[s] EXCEPT !.side = "closing"]
    OBVIOUS
  <2>2. /\ sessions[s].side = "listening" /\ ~ sessions[s].known
        /\ sessions' = [sessions EXCEPT ![s] = r] /\ UNCHANGED <<registry, callers, displaced>>
    BY <1>6, <2>1 DEF ListenFindsDead
  <2>3. /\ r \in SessionRecords /\ r.thread = sessions[s].thread /\ r.side = "closing"
        /\ r.known = sessions[s].known
    <3>1. "closing" \in SessionSides
      BY DEF SessionSides
    <3> QED  BY <1>0, <2>1, <3>1, SideBecomes
  <2>4. \A c \in Callers : callers[c].at = "connecting" => callers[c].sess # s
    BY <1>0, <2>2 DEF ConnectsAt
  <2> QED  BY <2>2, <2>3, <2>4, BrowserSessionKept
<1>7. ASSUME NEW s \in 1 .. Len(sessions), Close(s) PROVE BrowserInv'
  <2>1. PICK v : v = [sessions[s] EXCEPT !.side = "closed"]
    OBVIOUS
  <2>2. PICK r : r = [v EXCEPT !.known = FALSE]
    OBVIOUS
  <2>3. v \in SessionRecords /\ v.thread = sessions[s].thread /\ v.side = "closed"
    <3>1. "closed" \in SessionSides
      BY DEF SessionSides
    <3> QED  BY <1>0, <2>1, <3>1, SideBecomes
  <2>4. r \in SessionRecords /\ r.thread = sessions[s].thread /\ r.side = "closed" /\ ~ r.known
    BY <2>2, <2>3, KnownBecomes
  <2>5. sessions' = [sessions EXCEPT ![s] = r]
    <3>1. sessions' = [[sessions EXCEPT ![s] = v] EXCEPT ![s] = [[sessions EXCEPT ![s] = v][s] EXCEPT !.known = FALSE]]
      BY <1>7, <2>1 DEF Close
    <3>2. [sessions EXCEPT ![s] = v][s] = v
      BY <1>0 DEF SessionTypes
    <3> QED  BY <2>2, <3>1, <3>2
  <2>6. sessions[s].side = "closing" /\ UNCHANGED <<registry, callers, displaced>>
    BY <1>7 DEF Close
  <2>7. \A c \in Callers : callers[c].at = "connecting" => callers[c].sess # s
    BY <1>0, <2>6 DEF ConnectsAt
  <2> QED  BY <2>4, <2>5, <2>6, <2>7, BrowserSessionKept
<1>8. ASSUME NEW t \in Threads, Sweep(t) PROVE BrowserInv'
  <2>1. PICK s : s = registry[t]
    OBVIOUS
  <2>2. /\ s # 0 /\ ~ Spared(s) /\ registry' = [registry EXCEPT ![t] = 0] /\ UNCHANGED <<callers, displaced>>
        /\ \E side \in {"closing", "closed"} : sessions' = [sessions EXCEPT ![s] = [sessions[s] EXCEPT !.side = side]]
    BY <1>8, <2>1 DEF Sweep
  <2>3. s \in 1 .. Len(sessions) /\ sessions[s].thread = t
    BY <1>0, <2>1, <2>2 DEF BrowserInv, SessionTypes
  <2>4. PICK side \in {"closing", "closed"} : sessions' = [sessions EXCEPT ![s] = [sessions[s] EXCEPT !.side = side]]
    BY <2>2
  <2>5. PICK r : r = [sessions[s] EXCEPT !.side = side]
    OBVIOUS
  <2>6. r \in SessionRecords /\ r.thread = t /\ r.side = side
    <3>1. side \in SessionSides
      BY DEF SessionSides
    <3> QED  BY <1>0, <2>3, <2>5, <3>1, SideBecomes
  <2>7. registry'[t] = 0
    BY <1>0, <2>2, <2>3 DEF SessionTypes
  <2>8. \A c \in Callers : callers[c].at = "connecting" => callers[c].sess # s
    BY <2>2 DEF Spared, Uses
  <2> QED  BY <2>1, <2>2, <2>3, <2>4, <2>5, <2>6, <2>7, <2>8, BrowserSessionKept
<1> QED
  BY <1>1, <1>2, <1>3, <1>4, <1>5, <1>6, <1>7, <1>8, BrowserCallKept DEF BrowserNext

LEMMA BrowserInvStarts == BrowserInit => BrowserInv
<1> SUFFICES ASSUME BrowserInit PROVE BrowserInv
  OBVIOUS
<1>1. sessions = <<>> /\ Len(sessions) = 0 /\ registry = [t \in Threads |-> 0]
      /\ callers = [c \in Callers |-> NoCall]
  BY DEF BrowserInit
<1>2. \A c \in Callers : callers[c].at = "idle"
  BY <1>1 DEF NoCall
<1>3. NoCall \in CallRecords(0)
  BY DEF NoCall, CallRecords
<1>4. SessionTypes
  BY <1>1, <1>2, <1>3 DEF SessionTypes
<1> QED
  BY <1>1, <1>2, <1>4 DEF BrowserInv

\* A browser is kept alive only by a session that can be found, or that was taken
\* out of the registry in the place of a dead one it had replaced; and a session the
\* worker closes while the sidecar still knows it is no longer offered to a call.
THEOREM BrowsersAreOwned == BrowserSpec => []SessionsAreOwned
<1>1. BrowserInv => SessionsAreOwned
  BY DEF BrowserInv, SessionsAreOwned
<1> QED
  BY BrowserInvStarts, <1>1, BrowserInvKept, PTL DEF BrowserSpec

-----------------------------------------------------------------------------
(* MCP calls.                                                                *)

CallSteps == {"idle", "installing", "starting", "initializing", "calling", "over"}

\* A call of a package comes to its server through the install, which is started
\* by the first caller and kept for all; and a call that is over has no server.
McpTypes ==
  /\ installs \in [Packages -> {"none", "running", "ok", "failed"}]
  /\ installRuns \in [Packages -> Nat]
  /\ mcpCalls \in [McpCallers -> [package : Packages \cup {"http", "none"},
                                  kind : {"none", "call", "validate"}, step : CallSteps,
                                  got : {"none", "result", "request", "error"}]]
  /\ processes \in [McpCallers -> {"none", "alive", "gone"}]

InstalledOnce(p) == installRuns[p] <= 1 /\ (installs[p] = "none" => installRuns[p] = 0)
CallInOrder(c) ==
  /\ mcpCalls[c].step \in {"idle", "installing", "starting"} => processes[c] = "none"
  /\ mcpCalls[c].kind = "call" /\ (processes[c] # "none" \/ mcpCalls[c].step = "starting")
       => mcpCalls[c].package \in Packages /\ installs[mcpCalls[c].package] = "ok"
  /\ mcpCalls[c].step = "installing" => mcpCalls[c].package \in Packages
  /\ mcpCalls[c].step = "over" => processes[c] # "alive" /\ mcpCalls[c].got \in Ended

McpInv ==
  /\ McpTypes
  /\ \A p \in Packages : InstalledOnce(p)
  /\ \A c \in McpCallers : CallInOrder(c)

\* A step of one caller that installs nothing.
LEMMA CallerStep ==
  ASSUME McpInv, NEW c \in McpCallers, UNCHANGED <<installs, installRuns>>, McpTypes',
         \A d \in McpCallers : d # c => mcpCalls'[d] = mcpCalls[d] /\ processes'[d] = processes[d],
         CallInOrder(c)'
  PROVE  McpInv'
<1>1. \A d \in McpCallers : d # c => CallInOrder(d)'
  BY DEF McpInv, CallInOrder
<1>2. \A p \in Packages : InstalledOnce(p)'
  BY DEF McpInv, InstalledOnce
<1> QED
  BY <1>1, <1>2 DEF McpInv

LEMMA McpInvKept ==
  ASSUME McpInv, [McpClientNext]_mcvars
  PROVE  McpInv'
<1> USE DEF McpTypes, CallSteps, Ended
<1>1. ASSUME NEW c \in McpCallers, NEW p \in Packages, EnsureInstalled(c, p) PROVE McpInv'
  <2>1. McpTypes'
    BY <1>1 DEF EnsureInstalled, McpInv
  <2>2. \A q \in Packages : InstalledOnce(q)'
    BY <1>1 DEF EnsureInstalled, McpInv, InstalledOnce
  <2>3. \A q \in Packages : installs[q] = "ok" => installs'[q] = "ok"
    BY <1>1 DEF EnsureInstalled, McpInv
  <2>4. CallInOrder(c)'
    BY <1>1 DEF EnsureInstalled, McpInv, CallInOrder
  <2>5. ASSUME NEW d \in McpCallers, d # c PROVE CallInOrder(d)'
    <3>1. mcpCalls'[d] = mcpCalls[d] /\ processes'[d] = processes[d]
      BY <1>1, <2>5 DEF EnsureInstalled, McpInv
    <3> QED  BY <2>3, <3>1 DEF McpInv, CallInOrder
  <2> QED  BY <2>1, <2>2, <2>4, <2>5 DEF McpInv
<1>2. ASSUME NEW p \in Packages, InstallEnds(p) PROVE McpInv'
  <2>1. McpTypes' /\ \A q \in Packages : InstalledOnce(q)'
    BY <1>2 DEF InstallEnds, McpInv, InstalledOnce
  <2>2. \A q \in Packages : installs[q] = "ok" => installs'[q] = "ok"
    BY <1>2 DEF InstallEnds, McpInv
  <2>3. UNCHANGED <<mcpCalls, processes>>
    BY <1>2 DEF InstallEnds
  <2> QED  BY <2>1, <2>2, <2>3 DEF McpInv, CallInOrder
<1>3. ASSUME NEW c \in McpCallers, NEW p \in Packages, Validate(c, p) PROVE McpInv'
  <2>1. McpTypes' /\ CallInOrder(c)'
    BY <1>3 DEF Validate, McpInv, CallInOrder
  <2> QED  BY <1>3, <2>1, CallerStep DEF Validate, McpInv
<1>4. ASSUME NEW c \in McpCallers, NEW got \in Ended, End(c, got), UNCHANGED <<installs, installRuns>>
      PROVE  McpInv'
  <2>1. /\ mcpCalls' = [mcpCalls EXCEPT ![c] = [mcpCalls[c] EXCEPT !.step = "over", !.got = got]]
        /\ processes' = [processes EXCEPT ![c] = IF processes[c] = "alive" THEN "gone" ELSE processes[c]]
    <3>1. mcpCalls' = [mcpCalls EXCEPT ![c].step = "over", ![c].got = got]
      BY <1>4 DEF End
    <3> QED  BY <1>4, <3>1 DEF End, McpInv
  <2>2. /\ mcpCalls'[c].step = "over" /\ mcpCalls'[c].got = got
        /\ mcpCalls'[c].kind = mcpCalls[c].kind /\ mcpCalls'[c].package = mcpCalls[c].package
        /\ processes'[c] = (IF processes[c] = "alive" THEN "gone" ELSE processes[c])
        /\ \A d \in McpCallers : d # c => mcpCalls'[d] = mcpCalls[d] /\ processes'[d] = processes[d]
    BY <2>1 DEF McpInv
  <2>3. McpTypes'
    BY <1>4, <2>1, ZenonT(60) DEF McpInv
  <2>4. CallInOrder(c)'
    BY <1>4, <2>2 DEF CallInOrder, McpInv
  <2> QED  BY <1>4, <2>2, <2>3, <2>4, CallerStep
<1>5. ASSUME NEW c \in McpCallers, NEW step \in {"starting", "initializing", "calling"}, Step(c, step),
             UNCHANGED <<installs, installRuns>>,
             processes' = processes \/ processes' = [processes EXCEPT ![c] = "alive"],
             step = "starting" => /\ processes' = processes /\ processes[c] = "none"
                                  /\ installs[mcpCalls[c].package] = "ok" /\ mcpCalls[c].package \in Packages,
             processes'[c] # "none" /\ mcpCalls[c].kind = "call" =>
               installs[mcpCalls[c].package] = "ok" /\ mcpCalls[c].package \in Packages
      PROVE  McpInv'
  <2>1. mcpCalls' = [mcpCalls EXCEPT ![c] = [mcpCalls[c] EXCEPT !.step = step]]
    BY <1>5 DEF Step
  <2>2. /\ mcpCalls'[c].step = step
        /\ mcpCalls'[c].kind = mcpCalls[c].kind /\ mcpCalls'[c].package = mcpCalls[c].package
        /\ \A d \in McpCallers : d # c => mcpCalls'[d] = mcpCalls[d] /\ processes'[d] = processes[d]
    BY <1>5, <2>1 DEF McpInv
  <2>3. McpTypes'
    BY <1>5, <2>1 DEF McpInv
  <2>4. CallInOrder(c)'
    BY <1>5, <2>2 DEF CallInOrder, McpInv
  <2> QED  BY <1>5, <2>2, <2>3, <2>4, CallerStep
<1>6. ASSUME NEW c \in McpCallers, Installed(c) PROVE McpInv'
  <2>1. CASE End(c, "error")
    BY <1>4, <1>6, <2>1 DEF Installed
  <2>2. CASE installs[mcpCalls[c].package] = "ok" /\ Step(c, "starting") /\ UNCHANGED processes
    <3>1. mcpCalls[c].package \in Packages /\ processes[c] = "none"
      BY <1>6 DEF Installed, McpInv, CallInOrder
    <3> QED  BY <1>5, <1>6, <2>2, <3>1 DEF Installed
  <2> QED  BY <1>6, <2>1, <2>2 DEF Installed
<1>7. ASSUME NEW c \in McpCallers, StartServer(c) PROVE McpInv'
  <2>1. CASE End(c, "error")
    BY <1>4, <1>7, <2>1 DEF StartServer
  <2>2. CASE Step(c, "initializing") /\ processes' = [processes EXCEPT ![c] = "alive"]
    BY <1>5, <1>7, <2>2 DEF StartServer, McpInv, CallInOrder
  <2> QED  BY <1>7, <2>1, <2>2 DEF StartServer
<1>8. ASSUME NEW c \in McpCallers, ServerWrites(c) \/ ServerExits(c) PROVE McpInv'
  <2>1. CASE ServerWrites(c)
    BY <2>1, CallerStep DEF ServerWrites, McpInv, CallInOrder
  <2>2. CASE ServerExits(c)
    <3>1. /\ processes[c] = "alive" /\ processes' = [processes EXCEPT ![c] = "gone"]
          /\ UNCHANGED <<installs, installRuns, mcpCalls>>
      BY <2>2 DEF ServerExits
    <3>2. McpTypes'
      BY <3>1 DEF McpInv
    <3>3. CallInOrder(c)'
      BY <3>1 DEF McpInv, CallInOrder
    <3> QED  BY <3>1, <3>2, <3>3, CallerStep DEF McpInv
  <2> QED  BY <1>8, <2>1, <2>2
<1>9. ASSUME NEW c \in McpCallers, ReadLine(c) PROVE McpInv'
  <2>1. UNCHANGED <<installs, installRuns>>
    BY <1>9 DEF ReadLine
  <2>2. CASE End(c, "error")
    BY <1>4, <2>1, <2>2
  <2>3. CASE UNCHANGED <<mcpCalls, processes>>
    BY <2>1, <2>3, CallerStep DEF McpInv, CallInOrder
  <2>4. CASE mcpCalls[c].step = "initializing" /\ Step(c, "calling") /\ UNCHANGED processes
    BY <1>5, <2>1, <2>4 DEF McpInv, CallInOrder
  <2>5. CASE /\ mcpCalls[c].step = "calling" /\ Awaited(Head(lines[c]), Wanted(c))
             /\ processes' = [processes EXCEPT ![c] = IF @ = "alive" THEN "gone" ELSE @]
             /\ mcpCalls' = [mcpCalls EXCEPT ![c].step = "over", ![c].got = Taken(Head(lines[c]))]
    <3>1. Taken(Head(lines[c])) \in Ended
      BY <2>5 DEF Awaited, Wanted, Taken
    <3>2. End(c, Taken(Head(lines[c])))
      BY <2>5 DEF End
    <3> QED  BY <1>4, <2>1, <3>1, <3>2
  <2> QED  BY <1>9, <2>2, <2>3, <2>4, <2>5 DEF ReadLine
<1>10. ASSUME NEW c \in McpCallers, ReadFails(c) \/ HttpReturns(c) PROVE McpInv'
  BY <1>4, <1>10 DEF ReadFails, HttpReturns
<1>11. ASSUME NEW c \in McpCallers, HttpCall(c) \/ HttpInitialized(c) PROVE McpInv'
  BY <1>11, CallerStep, SMTT(30) DEF HttpCall, HttpInitialized, Step, McpInv, CallInOrder
<1>12. CASE UNCHANGED mcvars
  BY <1>12 DEF mcvars, McpInv, CallInOrder, InstalledOnce
<1> QED
  BY <1>1, <1>2, <1>3, <1>6, <1>7, <1>8, <1>9, <1>10, <1>11, <1>12 DEF McpClientNext

LEMMA McpInvStarts == McpClientInit => McpInv
BY DEF McpClientInit, McpInv, McpTypes, InstalledOnce, CallInOrder, Ready, CallSteps, Ended

\* A package is installed once for all its callers, a call's server runs only
\* after that and not after the call, and a result is a line with its request's id.
THEOREM CallsEndWell == McpClientSpec => []CallsEndInOrder
<1>1. McpInv => CallsEndInOrder
  BY DEF McpInv, CallsEndInOrder, InstalledOnce, CallInOrder
<1> QED
  BY McpInvStarts, <1>1, McpInvKept, PTL DEF McpClientSpec
-----------------------------------------------------------------------------
(* The agent worker's context.                                               *)

\* Unless a change went unseen or refreshes overlapped, one goroutine at most, the
\* dial's own included, refreshes; what it holds is the context of the workspace, and
\* without one the server has that context; or the timer that will read the workspace
\* again is armed.
CaughtUp ==
  missed = "no" =>
    /\ \A g, h \in Refreshing : g = h
    /\ offer # Nothing => Refreshing = {}
    /\ debounce # "armed" /\ Readable =>
         /\ agLink \in {"hello", "up"} =>
              /\ \A g \in Refreshing : held[g] = SystemPrompt
              /\ Refreshing = {} => told = SystemPrompt
         /\ offer # Nothing => offer = SystemPrompt
ContextInv == AgTypeOK /\ CaughtUp

LEMMA AgTypeKept ==
  ASSUME AgTypeOK, [AgentNext]_agvars
  PROVE  AgTypeOK'
<1> USE AgentAssumption
<1>1. /\ agDelay \in Nat /\ Backed \in 1 .. 2 * MaxBackoff /\ 1 \in 1 .. 2 * MaxBackoff
      /\ SystemPrompt \in 0 .. Nothing /\ Nothing \in 0 .. Nothing
  BY DEF AgTypeOK, Backed, SystemPrompt, Bootstrap, Nothing
<1> HIDE DEF Backed, SystemPrompt, Nothing
<1>2. Dropped => /\ agLink' = "down" /\ agDelay' \in 1 .. 2 * MaxBackoff
                 /\ offer' \in 0 .. Nothing /\ told' \in 0 .. Nothing
                 /\ watching' = FALSE /\ debounce' = "none"
  BY <1>1 DEF Dropped
<1>3. ASSUME NEW g \in Refreshers, Read(g)
      PROVE  /\ held' \in [Refreshers -> 0 .. Nothing] /\ missed' \in {"no", "overlap", "unseen"}
             /\ bootstrapping' \in BOOLEAN
  BY <1>1, <1>3 DEF Read, Noted, AgTypeOK
<1>4. CASE AgentDial \/ AgentHello
  <2>1. dials' \in 0 .. MaxDials
    BY <1>4 DEF AgentDial, AgentHello, AgTypeOK
  <2> QED  BY <1>1, <1>2, <1>4, <2>1 DEF AgentDial, AgentHello, AgTypeOK
<1>4a. CASE AgentRead
  <2>1. bootstrapping' \in BOOLEAN /\ missed' \in {"no", "overlap", "unseen"}
    BY <1>4a DEF AgentRead, Noted, AgTypeOK
  <2> QED  BY <1>1, <1>2, <1>4a, <2>1 DEF AgentRead, AgTypeOK
<1>5. CASE AgentHelloAck \/ Lost \/ AgentExit \/ WatchStarts
  BY <1>1, <1>2, <1>5 DEF AgentHelloAck, Lost, AgentExit, WatchStarts, AgTypeOK
<1>6. CASE Change
  <2>1. workspace' \in [rev : 0 .. MaxRevision, soul : BOOLEAN, loads : BOOLEAN]
    BY <1>6 DEF Change, AgTypeOK
  <2> QED  BY <1>6, <2>1 DEF Change, Schedule, AgTypeOK
<1>7. CASE ToolExecute \/ FileUpload \/ UNCHANGED agvars
  BY <1>7 DEF ToolExecute, FileUpload, agvars, AgTypeOK
<1>8. ASSUME NEW g \in Refreshers, Refresh(g) \/ DebounceFires(g) \/ Push(g) \/ ToolEnds(g) PROVE AgTypeOK'
  <2>1. CASE Push(g)
    BY <1>1, <2>1 DEF Push, AgTypeOK
  <2>2. CASE Refresh(g) \/ DebounceFires(g)
    BY <1>3, <2>2 DEF Refresh, DebounceFires, AgTypeOK
  <2>3. CASE ToolEnds(g)
    BY <1>3, <2>3 DEF ToolEnds, AgTypeOK
  <2> QED  BY <1>8, <2>1, <2>2, <2>3
<1> QED
  BY <1>4, <1>4a, <1>5, <1>6, <1>7, <1>8 DEF AgentNext

\* Reading the workspace: alone it is what the server will be told; beside another
\* it is a race; and what cannot be read changes nothing.
LEMMA ReadKeeps ==
  ASSUME ContextInv, NEW g \in Refreshers, held[g] = Nothing, Read(g), workspace' = workspace
  PROVE  /\ ~ Readable => UNCHANGED <<held, missed>>
         /\ Readable /\ missed' = "no" => Refreshing' = {g} /\ held'[g] = SystemPrompt /\ offer = Nothing
<1>1. SystemPrompt # Nothing
  BY AgentAssumption DEF ContextInv, AgTypeOK, SystemPrompt, Bootstrap, Nothing
<1>2. CASE Readable
  <2>1. held' = [held EXCEPT ![g] = SystemPrompt] /\ (missed' = "no" => Refreshing = {} /\ offer = Nothing)
    BY <1>2 DEF Read, Noted
  <2>2. held'[g] = SystemPrompt /\ \A h \in Refreshers : h # g => held'[h] = held[h]
    BY <2>1 DEF ContextInv, AgTypeOK
  <2>3. Nothing' = Nothing
    BY DEF Nothing
  <2>4. Refreshing = {} => Refreshing' = {g}
    BY <1>1, <2>2, <2>3 DEF Refreshing
  <2> QED  BY <1>2, <2>1, <2>2, <2>4
<1>3. CASE ~ Readable
  BY <1>3 DEF Read
<1> QED
  BY <1>2, <1>3

LEMMA ContextInvKept ==
  ASSUME ContextInv, [AgentNext]_agvars
  PROVE  ContextInv'
<1>0. AgTypeOK' /\ AgTypeOK /\ CaughtUp
  BY AgTypeKept DEF ContextInv
<1>s. SUFFICES CaughtUp'
  BY <1>0 DEF ContextInv
<1>1. workspace' = workspace => (Readable' <=> Readable) /\ SystemPrompt' = SystemPrompt
  BY DEF Readable, SystemPrompt, Bootstrap
<1>2. Nothing' = Nothing /\ (held' = held => Refreshing' = Refreshing)
  BY DEF Refreshing, Nothing
\* Steps that leave what is read, held, offered and told alone, or end the connection.
<1>3. ASSUME UNCHANGED <<workspace, held, missed>>,
             \/ agLink' \notin {"hello", "up"} /\ offer' = Nothing
             \/ agLink' \notin {"hello", "up"} /\ UNCHANGED <<offer, debounce>>
             \/ UNCHANGED <<offer, told, debounce>> /\ agLink \in {"hello", "up"}
      PROVE  CaughtUp'
  BY <1>0, <1>1, <1>2, <1>3 DEF CaughtUp
<1>4. CASE AgentDial \/ AgentHelloAck \/ Lost \/ AgentExit \/ WatchStarts
  <2>1. UNCHANGED <<workspace, held, missed>>
    BY <1>4 DEF AgentDial, AgentHelloAck, Lost, AgentExit, WatchStarts
  <2>2. \/ agLink' \notin {"hello", "up"} /\ offer' = Nothing
        \/ agLink' \notin {"hello", "up"} /\ UNCHANGED <<offer, debounce>>
        \/ UNCHANGED <<offer, told, debounce>> /\ agLink \in {"hello", "up"}
    BY <1>4 DEF AgentDial, AgentHelloAck, Lost, AgentExit, WatchStarts, Dropped
  <2> QED  BY <1>3, <2>1, <2>2
<1>5. CASE AgentRead \/ AgentHello
  <2>1. CASE Dropped /\ UNCHANGED <<workspace, held, missed>>
    <3>1. agLink' = "down" /\ offer' = Nothing
      BY <2>1 DEF Dropped
    <3> QED  BY <1>3, <2>1, <3>1
  <2>2. CASE AgentRead /\ Readable /\ agLink' = agLink /\ offer' = SystemPrompt /\ missed' = Noted(Refreshing = {})
    <3>1. agLink' \notin {"hello", "up"} /\ UNCHANGED <<workspace, held>>
      BY <2>2 DEF AgentRead
    <3>2. missed' = "no" => Refreshing' = {} /\ offer' = SystemPrompt'
      BY <1>1, <1>2, <2>2, <3>1 DEF Noted
    <3> QED  BY <3>1, <3>2 DEF CaughtUp
  <2>3. CASE AgentHello /\ agLink' = "hello" /\ told' = offer /\ offer' = Nothing
    <3>1. UNCHANGED <<workspace, held, missed, debounce>> /\ offer # Nothing
      BY <2>3 DEF AgentHello, Dropped
    <3> QED  BY <1>0, <1>1, <1>2, <2>3, <3>1 DEF CaughtUp
  <2> QED  BY <1>5, <2>1, <2>2, <2>3 DEF AgentRead, AgentHello
<1>6. CASE Change
  <2>1. debounce' = "armed" \/ missed' = "unseen"
    BY <1>6 DEF Change, Schedule
  <2>2. missed' = missed \/ missed' = "unseen"
    BY <1>6 DEF Change
  <2>3. held' = held /\ offer' = offer
    BY <1>6 DEF Change
  <2> QED  BY <1>0, <1>2, <2>1, <2>2, <2>3 DEF CaughtUp
<1>7. CASE ToolExecute \/ FileUpload \/ UNCHANGED agvars
  <2>1. UNCHANGED <<workspace, held, missed, offer, told, debounce, agLink>>
    BY <1>7 DEF ToolExecute, FileUpload, agvars
  <2> QED  BY <1>0, <1>1, <1>2, <2>1 DEF CaughtUp
<1>8. ASSUME NEW g \in Refreshers, held[g] = Nothing, Read(g), UNCHANGED <<workspace, offer, told, agLink>>,
             Readable \/ debounce' = debounce \/ debounce' = "fired"
      PROVE  CaughtUp'
  <2>1. CASE Readable
    BY <1>1, <1>8, <2>1, ReadKeeps DEF CaughtUp
  <2>2. CASE ~ Readable
    BY <1>0, <1>1, <1>2, <1>8, <2>2, ReadKeeps DEF CaughtUp
  <2> QED  BY <2>1, <2>2
<1>9. ASSUME NEW g \in Refreshers, Refresh(g) \/ DebounceFires(g) PROVE CaughtUp'
  BY <1>8, <1>9 DEF Refresh, DebounceFires
<1>10. ASSUME NEW g \in Refreshers, ToolEnds(g) PROVE CaughtUp'
  <2>1. CASE held[g] = Nothing /\ Read(g)
    BY <1>8, <1>10, <2>1 DEF ToolEnds
  <2>2. CASE UNCHANGED <<held, missed, bootstrapping>>
    BY <1>0, <1>1, <1>2, <1>10, <2>2 DEF ToolEnds, CaughtUp
  <2> QED  BY <1>10, <2>1, <2>2 DEF ToolEnds
<1>11. ASSUME NEW g \in Refreshers, Push(g) PROVE CaughtUp'
  <2>1. /\ held[g] # Nothing /\ held' = [held EXCEPT ![g] = Nothing]
        /\ told' = (IF agLink \in {"hello", "up"} THEN held[g] ELSE told)
        /\ UNCHANGED <<workspace, agLink, debounce, offer, missed>>
    BY <1>11 DEF Push
  <2>2. held'[g] = Nothing /\ \A h \in Refreshers : h # g => held'[h] = held[h]
    BY <1>0, <2>1 DEF AgTypeOK
  <2>3. g \in Refreshing /\ Refreshing' = Refreshing \ {g}
    BY <1>2, <2>1, <2>2 DEF Refreshing
  <2>4. missed = "no" => Refreshing' = {} /\ offer = Nothing
    BY <1>0, <2>3 DEF CaughtUp
  <2> QED  BY <1>0, <1>1, <2>1, <2>3, <2>4 DEF CaughtUp
<1> QED
  BY <1>0, <1>4, <1>5, <1>6, <1>7, <1>9, <1>10, <1>11 DEF AgentNext

LEMMA ContextInvStarts == AgentInit => ContextInv
<1> SUFFICES ASSUME AgentInit PROVE ContextInv
  OBVIOUS
<1>1. Refreshing = {}
  BY DEF AgentInit, Refreshing
<1>2. AgTypeOK
  <2>1. Nothing \in Nat /\ 1 \in 1 .. 2 * MaxBackoff
    BY AgentAssumption DEF Nothing
  <2>2. workspace \in [rev : 0 .. MaxRevision, soul : BOOLEAN, loads : BOOLEAN]
    <3>1. 0 \in 0 .. MaxRevision
      BY AgentAssumption
    <3> QED  BY <3>1 DEF AgentInit
  <2>3. Nothing \in 0 .. Nothing /\ 0 \in 0 .. MaxDials
    BY AgentAssumption, <2>1
  <2> HIDE DEF Nothing
  <2> QED  BY <2>1, <2>2, <2>3 DEF AgentInit, AgTypeOK
<1> QED
  BY <1>1, <1>2 DEF AgentInit, ContextInv, CaughtUp

\* When nothing is left to be done the server holds the context of the workspace as it
\* is, whatever was dialled, dropped, pushed and changed in which order (worker.go:
\* sendContextUpdate, maybeLeaveBootstrapAfterTool and the watcher's debounce).
THEOREM ServerHasTheContext == AgentSpec => []ContextCatchesUp
<1>1. ContextInv => ContextCatchesUp
  BY DEF ContextInv, CaughtUp, ContextCatchesUp
<1> QED
  BY ContextInvStarts, <1>1, ContextInvKept, PTL DEF AgentSpec

-----------------------------------------------------------------------------
(* The calls of a run of claude.                                             *)

TurnFields == {"full", "pre", "post", "shown", "calls", "pending", "done", "captured", "mcp", "answered",
               "batch", "stdin", "killed"}
IsTurn(t) == t = [f \in TurnFields |-> t[f]]
ClaudeCalls == [mcp : SUBSET Nat, builtin : SUBSET Nat, answered : SUBSET Nat, executed : SUBSET Nat,
                closed : BOOLEAN, late : BOOLEAN]

\* Claude's calls are numbered by their lines and are its own or the job's.  While
\* none came late the worker has seen every one of them: the job's in the order
\* they were made, its own pending or done; and what killed it left none pending.
Known ==
  ~ claude.late =>
    /\ ToSet(turn.calls) = claude.mcp
    /\ turn.pending \cup turn.done = claude.builtin
    /\ claude.closed => turn.batch /\ claude.mcp # {}
    /\ turn.killed => turn.batch /\ turn.calls # <<>> /\ turn.pending = {}
Numbered == \A id \in claude.mcp \cup claude.builtin : id < events
ByMode ==
  /\ cliMode = "none" => turn.calls = <<>>
  /\ turn.batch => cliMode # "live"
  /\ turn.captured \subseteq claude.executed \cup claude.builtin
RunInv ==
  /\ IsTurn(turn) /\ claude \in ClaudeCalls /\ events \in Nat /\ turn.calls \in Seq(Nat)
  /\ {turn.batch, turn.killed} \subseteq BOOLEAN
  /\ Numbered /\ Known /\ ByMode
  /\ claude.mcp \cap claude.builtin = {} /\ claude.executed \subseteq claude.mcp
CallInv == (process = "running" => reported.kind = "none") /\ RunInv /\ CallsAreReportedOnce

\* Writing one field of a turn, told of those that tell of calls.
LEMMA FieldBecomes ==
  ASSUME NEW t, IsTurn(t), NEW f \in TurnFields, NEW v, NEW u, u = [t EXCEPT ![f] = v]
  PROVE  /\ IsTurn(u)
         /\ f # "batch" => u.batch = t.batch
         /\ f # "killed" => u.killed = t.killed
         /\ f # "calls" => u.calls = t.calls
         /\ f # "captured" => u.captured = t.captured
         /\ f # "pending" => u.pending = t.pending
         /\ f # "done" => u.done = t.done
         /\ u[f] = v
<1>1. DOMAIN t = TurnFields
  BY DEF IsTurn
<1>2. u[f] = v /\ \A g \in TurnFields : g # f => u[g] = t[g]
  BY <1>1
<1>3. IsTurn(u)
  <2>1. u = [g \in DOMAIN t |-> IF g = f THEN v ELSE t[g]]
    OBVIOUS
  <2>2. u = [g \in TurnFields |-> u[g]]
    BY <1>1, <2>1
  <2> QED  BY <2>2 DEF IsTurn
<1> QED
  BY <1>2, <1>3 DEF TurnFields

LEMMA KilledBecomes ==
  ASSUME NEW t, IsTurn(t), {t.batch, t.killed} \subseteq BOOLEAN
  PROVE  /\ IsTurn(Killed(t)) /\ Killed(t).batch = t.batch /\ Killed(t).killed \in BOOLEAN
         /\ Killed(t).calls = t.calls /\ Killed(t).captured = t.captured
         /\ Killed(t).pending = t.pending /\ Killed(t).done = t.done
         /\ Killed(t).killed => t.killed \/ (t.batch /\ t.calls # <<>> /\ t.pending = {})
<1>1. PICK u : u = [t EXCEPT !.stdin = FALSE]
  OBVIOUS
<1>2. PICK w : w = [u EXCEPT !.killed = TRUE]
  OBVIOUS
<1>3. /\ IsTurn(u) /\ u.batch = t.batch /\ u.calls = t.calls /\ u.captured = t.captured
      /\ u.pending = t.pending /\ u.done = t.done
  BY <1>1, FieldBecomes DEF TurnFields
<1>4. /\ IsTurn(w) /\ w.batch = t.batch /\ w.calls = t.calls /\ w.captured = t.captured
      /\ w.pending = t.pending /\ w.done = t.done /\ w.killed = TRUE
  BY <1>2, <1>3, FieldBecomes DEF TurnFields
<1>5. Killed(t) = IF t.batch /\ t.calls # <<>> /\ t.pending = {} /\ t.stdin THEN w ELSE t
  BY <1>1, <1>2 DEF Killed
<1>6. CASE t.batch /\ t.calls # <<>> /\ t.pending = {} /\ t.stdin
  BY <1>4, <1>5, <1>6
<1>7. CASE ~ (t.batch /\ t.calls # <<>> /\ t.pending = {} /\ t.stdin)
  BY <1>5, <1>7
<1> QED
  BY <1>6, <1>7

LEMMA SetOfAppend ==
  ASSUME NEW s \in Seq(Nat), NEW x \in Nat
  PROVE  /\ Append(s, x) \in Seq(Nat) /\ ToSet(Append(s, x)) = ToSet(s) \cup {x}
         /\ (ToSet(s) = {} <=> s = <<>>)
<1>1. /\ Append(s, x) \in Seq(Nat) /\ DOMAIN Append(s, x) = 1 .. Len(s) + 1
      /\ Append(s, x)[Len(s) + 1] = x /\ \A i \in 1 .. Len(s) : Append(s, x)[i] = s[i]
      /\ DOMAIN s = 1 .. Len(s) /\ Len(s) \in Nat
  BY AppendProperties, LenProperties
<1>2. ToSet(Append(s, x)) = ToSet(s) \cup {x}
  <2>1. 1 .. Len(s) + 1 = 1 .. Len(s) \cup {Len(s) + 1}
    BY <1>1
  <2> QED  BY <1>1, <2>1 DEF ToSet
<1>3. ToSet(s) = {} <=> s = <<>>
  <2>1. ToSet(s) = {} <=> 1 .. Len(s) = {}
    BY <1>1 DEF ToSet
  <2>2. s = <<>> <=> Len(s) = 0
    BY EmptySeq
  <2> QED  BY <1>1, <2>1, <2>2
<1> QED
  BY <1>1, <1>2, <1>3

\* A step that names no new call.
LEMMA NoNewCall ==
  ASSUME RunInv, IsTurn(turn'), claude' \in ClaudeCalls, events' \in Nat, events <= events', cliMode' = cliMode,
         {turn'.batch, turn'.killed} \subseteq BOOLEAN, turn'.calls = turn.calls,
         turn'.pending \cup turn'.done = turn.pending \cup turn.done,
         claude'.mcp = claude.mcp, claude'.builtin = claude.builtin, claude'.late = claude.late,
         turn.batch => turn'.batch, turn'.batch => cliMode # "live",
         claude'.closed => claude.closed \/ (turn'.batch /\ claude.mcp # {}),
         ~ claude.late /\ turn'.killed => turn'.batch /\ turn.calls # <<>> /\ turn'.pending = {},
         turn'.captured \subseteq claude'.executed \cup claude.builtin, claude'.executed \subseteq claude.mcp
  PROVE  RunInv'
<1>1. Numbered'
  <2> SUFFICES ASSUME NEW id \in claude.mcp \cup claude.builtin PROVE id < events'
    BY DEF Numbered
  <2>1. id \in Nat /\ id < events /\ events \in Nat
    BY DEF RunInv, Numbered, ClaudeCalls
  <2> QED  BY <2>1
<1>2. Known'
  <2>1. ~ claude'.late => ~ claude.late
    BY DEF RunInv, ClaudeCalls
  <2>2. ToSet(turn'.calls) = ToSet(turn.calls)
    OBVIOUS
  <2> QED  BY <2>1, <2>2 DEF RunInv, Known
<1>3. ByMode'
  BY DEF RunInv, ByMode
<1> QED
  BY <1>1, <1>2, <1>3 DEF RunInv

LEMMA Unmoved ==
  ASSUME RunInv, UNCHANGED <<cliMode, events, turn, claude>>
  PROVE  RunInv'
BY DEF RunInv, IsTurn, Numbered, Known, ByMode

LEMMA TextBecomes ==
  ASSUME RunInv, NEW x
  PROVE  /\ IsTurn(WithText(x)) /\ WithText(x).batch = turn.batch /\ WithText(x).killed = turn.killed
         /\ WithText(x).calls = turn.calls /\ WithText(x).captured = turn.captured
         /\ WithText(x).pending = turn.pending /\ WithText(x).done = turn.done
<1> DEFINE Same(t) == /\ IsTurn(t) /\ t.batch = turn.batch /\ t.killed = turn.killed
                      /\ t.calls = turn.calls /\ t.captured = turn.captured
                      /\ t.pending = turn.pending /\ t.done = turn.done
<1>1. Same(turn)
  BY DEF RunInv
<1>2. ASSUME NEW t, Same(t), NEW f \in {"full", "pre", "post", "shown"}, NEW v PROVE Same([t EXCEPT ![f] = v])
  BY <1>2, FieldBecomes DEF TurnFields
<1>3. PICK t : t = [turn EXCEPT !.full = Append(@, x)]
  OBVIOUS
<1>4. PICK u : u = [t EXCEPT !.post = Append(@, x)]
  OBVIOUS
<1>5. PICK w : w = [t EXCEPT !.pre = Append(@, x)]
  OBVIOUS
<1>6. Same(t)
  BY <1>1, <1>2, <1>3
<1>7. Same(u) /\ Same(w)
  <2> HIDE DEF Same
  <2>1. PICK y : y = Append(t.post, x)
    OBVIOUS
  <2>2. PICK z : z = Append(t.pre, x)
    OBVIOUS
  <2>3. Same(u)
    BY <1>2, <1>4, <1>6, <2>1
  <2>4. Same(w)
    BY <1>2, <1>5, <1>6, <2>2
  <2> QED  BY <2>3, <2>4
<1>8. Same([u EXCEPT !.shown = Append(@, x)]) /\ Same([w EXCEPT !.shown = Append(@, x)])
  <2> HIDE DEF Same
  <2>1. PICK y : y = Append(u.shown, x)
    OBVIOUS
  <2>2. PICK z : z = Append(w.shown, x)
    OBVIOUS
  <2> QED  BY <1>2, <1>7, <2>1, <2>2
<1>9. WithText(x) \in {turn, t, [u EXCEPT !.shown = Append(@, x)], [w EXCEPT !.shown = Append(@, x)]}
  <2>1. [t EXCEPT !.post = Append(@, x), !.shown = Append(@, x)] = [u EXCEPT !.shown = Append(@, x)]
    BY <1>4
  <2>2. [t EXCEPT !.pre = Append(@, x), !.shown = Append(@, x)] = [w EXCEPT !.shown = Append(@, x)]
    BY <1>5
  <2> QED  BY <1>3, <2>1, <2>2 DEF WithText
<1> QED
  BY <1>1, <1>6, <1>8, <1>9

LEMMA RunInvKept ==
  ASSUME RunInv, [CliNext]_clivars
  PROVE  RunInv'
<1>0. /\ IsTurn(turn) /\ claude \in ClaudeCalls /\ events \in Nat /\ turn.calls \in Seq(Nat)
      /\ {turn.batch, turn.killed} \subseteq BOOLEAN /\ {claude.closed, claude.late} \subseteq BOOLEAN
      /\ Numbered /\ Known /\ ByMode
  BY DEF RunInv, ClaudeCalls
<1>t. IsTurn(turn)
  BY DEF RunInv
<1>f. {"stdin", "captured", "answered", "batch", "pending", "done", "calls", "mcp"} \subseteq TurnFields
  BY DEF TurnFields
\* Nothing that the worker has gathered, and nothing that claude has done, changes.
<1>1. CASE Start \/ ToolCall \/ Limited \/ Abort \/ UNCHANGED clivars
  <2>1. UNCHANGED <<cliMode, events, turn, claude>>
    BY <1>1 DEF Start, ToolCall, Limited, StopRun, Abort, clivars
  <2> QED  BY <2>1, Unmoved
<1>2. ASSUME NEW x, Event(WithText(x)), UNCHANGED <<cliMode, claude>> PROVE RunInv'
  <2>1. events' = events + 1 /\ turn' = WithText(x)
    BY <1>2 DEF Event
  <2> QED  BY <1>0, <1>2, <2>1, TextBecomes, NoNewCall DEF Known, ByMode, RunInv
<1>3. CASE ResultEvent
  <2>1. turn' = [turn EXCEPT !.stdin = FALSE] /\ events' = events + 1 /\ UNCHANGED <<cliMode, claude>>
    BY <1>3 DEF ResultEvent, Event, Line
  <2>2. /\ IsTurn(turn') /\ turn'.batch = turn.batch /\ turn'.killed = turn.killed
        /\ turn'.calls = turn.calls /\ turn'.captured = turn.captured
        /\ turn'.pending = turn.pending /\ turn'.done = turn.done
    BY <1>t, <1>f, <2>1, FieldBecomes
  <2> QED  BY <1>0, <2>1, <2>2, NoNewCall DEF Known, ByMode, RunInv
<1>4. CASE ToolResult
  <2>1. PICK id \in claude.mcp : claude' = [claude EXCEPT !.executed = @ \cup {id}]
    BY <1>4 DEF ToolResult, Waiting
  <2>2. UNCHANGED <<cliMode, events, turn>>
    BY <1>4 DEF ToolResult
  <2>3. /\ claude' \in ClaudeCalls /\ claude'.mcp = claude.mcp /\ claude'.builtin = claude.builtin
        /\ claude'.late = claude.late /\ claude'.closed = claude.closed
        /\ claude'.executed = claude.executed \cup {id}
    BY <1>0, <2>1 DEF ClaudeCalls
  <2> QED  BY <1>0, <2>2, <2>3, NoNewCall DEF Known, ByMode, RunInv
<1>5. CASE LiveResult
  <2>1. PICK id \in claude.executed : Event([turn EXCEPT !.captured = @ \cup {id}, !.answered = TRUE])
                                      /\ UNCHANGED <<cliMode, claude>>
    BY <1>5 DEF LiveResult, Line
  <2>2. PICK t : t = [turn EXCEPT !.captured = @ \cup {id}]
    OBVIOUS
  <2>3. turn' = [t EXCEPT !.answered = TRUE] /\ events' = events + 1
    BY <2>1, <2>2 DEF Event
  <2>4. /\ IsTurn(t) /\ t.batch = turn.batch /\ t.killed = turn.killed /\ t.calls = turn.calls
        /\ t.captured = turn.captured \cup {id} /\ t.pending = turn.pending /\ t.done = turn.done
    BY <1>t, <1>f, <2>2, FieldBecomes
  <2>5. /\ IsTurn(turn') /\ turn'.batch = turn.batch /\ turn'.killed = turn.killed /\ turn'.calls = turn.calls
        /\ turn'.captured = turn.captured \cup {id} /\ turn'.pending = turn.pending /\ turn'.done = turn.done
    BY <1>f, <2>3, <2>4, FieldBecomes
  <2> QED  BY <1>0, <2>1, <2>3, <2>5, NoNewCall DEF Known, ByMode, RunInv
<1>6. CASE Allowed
  <2>0. UNCHANGED cliMode /\ events' = events + 1
    BY <1>6 DEF Allowed, Event, Line
  <2>1. PICK b \in BOOLEAN : b = (claude.closed \/ (cliMode = "deny" /\ claude.mcp # {}))
    OBVIOUS
  <2>2. claude' = [claude EXCEPT !.closed = b]
    BY <1>6, <2>1 DEF Allowed
  <2>3. /\ claude' \in ClaudeCalls /\ claude'.mcp = claude.mcp /\ claude'.builtin = claude.builtin
        /\ claude'.late = claude.late /\ claude'.closed = b /\ claude'.executed = claude.executed
    BY <1>0, <2>2 DEF ClaudeCalls
  <2>4. CASE cliMode = "live"
    <3>1. turn' = turn
      BY <1>6, <2>4 DEF Allowed, Event
    <3> QED  BY <1>0, <2>0, <2>1, <2>3, <2>4, <3>1, NoNewCall DEF Known, ByMode, RunInv
  <2>5. CASE cliMode # "live"
    <3>1. PICK t : t = [turn EXCEPT !.batch = TRUE]
      OBVIOUS
    <3>2. turn' = Killed(t)
      BY <1>6, <2>5, <3>1 DEF Allowed, Event
    <3>3. /\ IsTurn(t) /\ t.batch = TRUE /\ t.killed = turn.killed /\ t.calls = turn.calls
          /\ t.captured = turn.captured /\ t.pending = turn.pending /\ t.done = turn.done
      BY <1>t, <1>f, <3>1, FieldBecomes
    <3>4. /\ IsTurn(turn') /\ turn'.batch = TRUE /\ turn'.killed \in BOOLEAN /\ turn'.calls = turn.calls
          /\ turn'.captured = turn.captured /\ turn'.pending = turn.pending /\ turn'.done = turn.done
          /\ turn'.killed => turn.killed \/ (turn.calls # <<>> /\ turn.pending = {})
      BY <1>0, <3>2, <3>3, KilledBecomes
    <3>5. b => claude.closed \/ claude.mcp # {}
      BY <2>1
    <3>6. ~ claude.late /\ turn'.killed => turn.calls # <<>> /\ turn'.pending = {}
      BY <1>0, <3>4 DEF Known
    <3>7. turn'.captured \subseteq claude'.executed \cup claude.builtin /\ claude'.executed \subseteq claude.mcp
      BY <1>0, <2>3, <3>4 DEF ByMode, RunInv
    <3>8. {turn'.batch, turn'.killed} \subseteq BOOLEAN /\ events' \in Nat /\ events <= events'
      <4>1. {turn'.batch, turn'.killed} \subseteq BOOLEAN
        BY <3>4
      <4>2. events' \in Nat /\ events <= events'
        BY <1>0, <2>0
      <4> QED  BY <4>1, <4>2
    <3>9. claude'.closed => claude.closed \/ (turn'.batch /\ claude.mcp # {})
      BY <2>3, <3>4, <3>5
    <3> QED  BY <2>0, <2>3, <2>5, <3>4, <3>6, <3>7, <3>8, <3>9, NoNewCall
  <2> QED  BY <2>4, <2>5
<1>7. CASE BuiltinResult
  <2>1. PICK id \in claude.builtin :
          /\ Event(IF id \in turn.pending
                   THEN Killed([turn EXCEPT !.pending = @ \ {id}, !.done = @ \cup {id}, !.answered = TRUE])
                   ELSE IF cliMode = "live" THEN [turn EXCEPT !.captured = @ \cup {id}, !.answered = TRUE] ELSE turn)
          /\ claude' = [claude EXCEPT !.answered = @ \cup {id}]
    BY <1>7 DEF BuiltinResult
  <2>2. UNCHANGED cliMode /\ events' = events + 1
    BY <1>7 DEF BuiltinResult, Event, Line
  <2>3. /\ claude' \in ClaudeCalls /\ claude'.mcp = claude.mcp /\ claude'.builtin = claude.builtin
        /\ claude'.late = claude.late /\ claude'.closed = claude.closed /\ claude'.executed = claude.executed
    BY <1>0, <2>1 DEF ClaudeCalls
  <2>4. CASE id \in turn.pending
    <3>1. PICK t : t = [turn EXCEPT !.pending = @ \ {id}]
      OBVIOUS
    <3>2. PICK u : u = [t EXCEPT !.done = @ \cup {id}]
      OBVIOUS
    <3>3. PICK w : w = [u EXCEPT !.answered = TRUE]
      OBVIOUS
    <3>4. turn' = Killed(w)
      BY <2>1, <2>4, <3>1, <3>2, <3>3 DEF Event
    <3>5. /\ IsTurn(t) /\ t.batch = turn.batch /\ t.killed = turn.killed /\ t.calls = turn.calls
          /\ t.captured = turn.captured /\ t.pending = turn.pending \ {id} /\ t.done = turn.done
      BY <1>t, <1>f, <3>1, FieldBecomes
    <3>6. /\ IsTurn(u) /\ u.batch = turn.batch /\ u.killed = turn.killed /\ u.calls = turn.calls
          /\ u.captured = turn.captured /\ u.pending = turn.pending \ {id} /\ u.done = turn.done \cup {id}
      BY <1>f, <3>2, <3>5, FieldBecomes
    <3>7. /\ IsTurn(w) /\ w.batch = turn.batch /\ w.killed = turn.killed /\ w.calls = turn.calls
          /\ w.captured = turn.captured /\ w.pending = turn.pending \ {id} /\ w.done = turn.done \cup {id}
      BY <1>f, <3>3, <3>6, FieldBecomes
    <3>8. /\ IsTurn(turn') /\ turn'.batch = turn.batch /\ turn'.killed \in BOOLEAN /\ turn'.calls = turn.calls
          /\ turn'.captured = turn.captured
          /\ turn'.pending = turn.pending \ {id} /\ turn'.done = turn.done \cup {id}
          /\ turn'.killed => turn.killed \/ (turn.batch /\ turn.calls # <<>> /\ turn'.pending = {})
      BY <1>0, <3>4, <3>7, KilledBecomes
    <3>9. ~ claude.late => ~ turn.killed
      BY <1>0, <2>4 DEF Known
    <3>10. turn'.pending \cup turn'.done = turn.pending \cup turn.done
      BY <2>4, <3>8
    <3> QED  BY <1>0, <2>2, <2>3, <3>8, <3>9, <3>10, NoNewCall DEF Known, ByMode, RunInv
  <2>5. CASE id \notin turn.pending /\ cliMode = "live"
    <3>1. PICK t : t = [turn EXCEPT !.captured = @ \cup {id}]
      OBVIOUS
    <3>2. turn' = [t EXCEPT !.answered = TRUE]
      BY <2>1, <2>5, <3>1 DEF Event
    <3>3. /\ IsTurn(t) /\ t.batch = turn.batch /\ t.killed = turn.killed /\ t.calls = turn.calls
          /\ t.captured = turn.captured \cup {id} /\ t.pending = turn.pending /\ t.done = turn.done
      BY <1>t, <1>f, <3>1, FieldBecomes
    <3>4. /\ IsTurn(turn') /\ turn'.batch = turn.batch /\ turn'.killed = turn.killed /\ turn'.calls = turn.calls
          /\ turn'.captured = turn.captured \cup {id} /\ turn'.pending = turn.pending /\ turn'.done = turn.done
      BY <1>f, <3>2, <3>3, FieldBecomes
    <3> QED  BY <1>0, <2>2, <2>3, <3>4, NoNewCall DEF Known, ByMode, RunInv
  <2>6. CASE id \notin turn.pending /\ cliMode # "live"
    <3>1. turn' = turn
      BY <2>1, <2>6 DEF Event
    <3> QED  BY <1>0, <2>2, <2>3, <3>1, NoNewCall DEF Known, ByMode, RunInv
  <2> QED  BY <2>4, <2>5, <2>6
<1>8. CASE CallTool
  <2>0. cliMode # "none" /\ cliMode' = cliMode /\ events' = events + 1 /\ turn' = WithCall(events)
    BY <1>8 DEF CallTool, Event, Line
  <2>1. PICK late \in BOOLEAN : late = (claude.late \/ Ignored)
    BY <1>0
  <2>2. claude' = IF claude.closed THEN claude
                  ELSE [claude EXCEPT !.mcp = @ \cup {events}, !.late = late]
    BY <1>8, <2>1 DEF CallTool
  <2>3. /\ claude' \in ClaudeCalls /\ claude'.builtin = claude.builtin /\ claude'.executed = claude.executed
        /\ claude'.closed = claude.closed
        /\ claude'.mcp = (IF claude.closed THEN claude.mcp ELSE claude.mcp \cup {events})
        /\ claude'.late = (IF claude.closed THEN claude.late ELSE late)
    BY <1>0, <2>2 DEF ClaudeCalls
  <2>4. /\ IsTurn(turn') /\ turn'.batch = turn.batch /\ turn'.killed = turn.killed
        /\ turn'.captured = turn.captured /\ turn'.pending = turn.pending /\ turn'.done = turn.done
        /\ turn'.calls = (IF Ignored THEN turn.calls ELSE Append(turn.calls, events))
    <3>0. PICK calls : calls = Append(turn.calls, events)
      OBVIOUS
    <3>1. PICK t : t = [turn EXCEPT !.calls = calls]
      OBVIOUS
    <3>2. /\ IsTurn(t) /\ t.batch = turn.batch /\ t.killed = turn.killed
          /\ t.captured = turn.captured /\ t.pending = turn.pending /\ t.done = turn.done
          /\ t.calls = Append(turn.calls, events)
      <4>1. "calls" \in TurnFields
        BY <1>f
      <4>2. t.calls = calls /\ IsTurn(t)
        BY <1>t, <3>1, <4>1, FieldBecomes
      <4> QED  BY <1>t, <3>0, <3>1, <4>1, <4>2, FieldBecomes
    <3>3. PICK u : u = [t EXCEPT !.mcp = TRUE]
      OBVIOUS
    <3>4. /\ IsTurn(u) /\ u.batch = turn.batch /\ u.killed = turn.killed
          /\ u.captured = turn.captured /\ u.pending = turn.pending /\ u.done = turn.done
          /\ u.calls = Append(turn.calls, events)
      BY <1>f, <3>2, <3>3, FieldBecomes
    <3>5. turn' = IF Ignored THEN turn ELSE u
      BY <2>0, <3>0, <3>1, <3>3 DEF WithCall
    <3> QED  BY <1>0, <3>4, <3>5
  <2>5. /\ Append(turn.calls, events) \in Seq(Nat)
        /\ ToSet(Append(turn.calls, events)) = ToSet(turn.calls) \cup {events}
        /\ (ToSet(turn.calls) = {} <=> turn.calls = <<>>) /\ Append(turn.calls, events) # <<>>
    BY <1>0, SetOfAppend, AppendProperties
  <2>6. /\ events \notin claude.builtin /\ \A id \in claude'.mcp \cup claude'.builtin : id < events'
    <3>1. \A id \in claude.mcp \cup claude.builtin : id \in Nat /\ id < events
      BY <1>0 DEF Numbered, ClaudeCalls
    <3> QED  BY <1>0, <2>0, <2>3, <3>1
  <2>7. ASSUME ~ claude'.late
        PROVE  /\ ToSet(turn'.calls) = claude'.mcp
               /\ ~ claude.late /\ (turn.calls # <<>> => turn'.calls # <<>>)
               /\ claude.mcp \subseteq claude'.mcp
    <3>1. ~ claude.late /\ ToSet(turn.calls) = claude.mcp
          /\ (claude.closed => turn.batch /\ claude.mcp # {})
      BY <1>0, <2>1, <2>3, <2>7 DEF Known
    <3>2. CASE claude.closed
      <4>1. Ignored
        BY <2>5, <3>1, <3>2 DEF Ignored
      <4> QED  BY <2>3, <2>4, <2>5, <3>1, <3>2, <4>1
    <3>3. CASE ~ claude.closed
      <4>1. ~ Ignored
        BY <2>1, <2>3, <2>7, <3>3
      <4> QED  BY <2>3, <2>4, <2>5, <3>1, <3>3, <4>1
    <3> QED  BY <3>2, <3>3
  <2>8. Known'
    <3> SUFFICES ASSUME ~ claude'.late PROVE Known'
      BY DEF Known
    <3> QED  BY <1>0, <2>3, <2>4, <2>7 DEF Known
  <2>9. ByMode' /\ Numbered' /\ turn'.calls \in Seq(Nat)
    BY <1>0, <2>0, <2>3, <2>4, <2>5, <2>6 DEF ByMode, Numbered
  <2>10. claude'.mcp \cap claude'.builtin = {} /\ claude'.executed \subseteq claude'.mcp
    BY <2>3, <2>6 DEF RunInv
  <2> QED  BY <1>0, <2>0, <2>3, <2>4, <2>8, <2>9, <2>10 DEF RunInv
<1>9. CASE CallBuiltin
  <2>0. cliMode' = cliMode /\ events' = events + 1
    BY <1>9 DEF CallBuiltin, Event, Line
  <2>1. PICK late \in BOOLEAN : late = (claude.late \/ Ignored)
    BY <1>0
  <2>2. claude' = IF claude.closed THEN claude
                  ELSE [claude EXCEPT !.builtin = @ \cup {events}, !.late = late]
    BY <1>9, <2>1 DEF CallBuiltin
  <2>3. /\ claude' \in ClaudeCalls /\ claude'.mcp = claude.mcp /\ claude'.executed = claude.executed
        /\ claude'.closed = claude.closed
        /\ claude'.builtin = (IF claude.closed THEN claude.builtin ELSE claude.builtin \cup {events})
        /\ claude'.late = (IF claude.closed THEN claude.late ELSE late)
    BY <1>0, <2>2 DEF ClaudeCalls
  <2>4. /\ IsTurn(turn') /\ turn'.batch = turn.batch /\ turn'.killed = turn.killed
        /\ turn'.captured = turn.captured /\ turn'.calls = turn.calls /\ turn'.done = turn.done
        /\ turn'.pending = (IF Ignored THEN turn.pending ELSE turn.pending \cup {events})
    <3>1. PICK t : t = [turn EXCEPT !.pending = @ \cup {events}]
      OBVIOUS
    <3>2. /\ IsTurn(t) /\ t.batch = turn.batch /\ t.killed = turn.killed
          /\ t.captured = turn.captured /\ t.calls = turn.calls /\ t.done = turn.done
          /\ t.pending = turn.pending \cup {events}
      BY <1>t, <1>f, <3>1, FieldBecomes
    <3>3. turn' = IF Ignored THEN turn ELSE t
      BY <1>9, <3>1 DEF CallBuiltin, Event
    <3> QED  BY <1>0, <3>2, <3>3
  <2>5. ToSet(turn.calls) = {} <=> turn.calls = <<>>
    BY <1>0, SetOfAppend
  <2>6. /\ events \notin claude.mcp /\ \A id \in claude'.mcp \cup claude'.builtin : id < events'
    <3>1. \A id \in claude.mcp \cup claude.builtin : id \in Nat /\ id < events
      BY <1>0 DEF Numbered, ClaudeCalls
    <3> QED  BY <1>0, <2>0, <2>3, <3>1
  <2>7. Known'
    <3> SUFFICES ASSUME ~ claude'.late PROVE Known'
      BY DEF Known
    <3>1. /\ ~ claude.late /\ ToSet(turn.calls) = claude.mcp
          /\ turn.pending \cup turn.done = claude.builtin
          /\ (claude.closed => turn.batch /\ claude.mcp # {})
          /\ (turn.killed => turn.batch /\ turn.calls # <<>> /\ turn.pending = {})
      BY <1>0, <2>1, <2>3 DEF Known
    <3>2. CASE claude.closed
      <4>1. Ignored
        BY <2>5, <3>1, <3>2 DEF Ignored
      <4> QED  BY <2>3, <2>4, <3>1, <3>2, <4>1 DEF Known
    <3>3. CASE ~ claude.closed
      <4>1. ~ Ignored
        BY <2>1, <2>3, <3>3
      <4>2. ~ turn.killed
        BY <3>1, <4>1 DEF Ignored
      <4>3. turn'.pending \cup turn'.done = claude'.builtin
        BY <2>3, <2>4, <3>1, <3>3, <4>1
      <4> QED  BY <2>3, <2>4, <3>1, <3>3, <4>2, <4>3 DEF Known
    <3> QED  BY <3>2, <3>3
  <2>8. ByMode' /\ Numbered'
    BY <1>0, <2>0, <2>3, <2>4, <2>6 DEF ByMode, Numbered
  <2>9. claude'.mcp \cap claude'.builtin = {} /\ claude'.executed \subseteq claude'.mcp
    BY <2>3, <2>6 DEF RunInv
  <2> QED  BY <1>0, <2>0, <2>3, <2>4, <2>7, <2>8, <2>9 DEF RunInv
<1>10. ASSUME cliMode' = cliMode, events' = 0, turn' = NewTurn, claude' = Unknown PROVE RunInv'
  <2>1. IsTurn(NewTurn)
    BY DEF IsTurn, NewTurn, TurnFields
  <2>2. /\ Unknown \in ClaudeCalls /\ Unknown.mcp = {} /\ Unknown.builtin = {} /\ Unknown.executed = {}
        /\ Unknown.closed = FALSE
    BY DEF Unknown, ClaudeCalls
  <2>3. /\ NewTurn.calls = <<>> /\ NewTurn.pending = {} /\ NewTurn.done = {} /\ NewTurn.captured = {}
        /\ NewTurn.batch = FALSE /\ NewTurn.killed = FALSE
    BY DEF NewTurn
  <2>4. <<>> \in Seq(Nat) /\ ToSet(<<>>) = {}
    BY DEF ToSet
  <2>5. Known'
    BY <1>10, <2>2, <2>3, <2>4 DEF Known
  <2>6. Numbered' /\ ByMode'
    BY <1>10, <2>2, <2>3 DEF Numbered, ByMode
  <2> QED  BY <1>10, <2>1, <2>2, <2>3, <2>4, <2>5, <2>6 DEF RunInv
<1>11. CASE Exited
  <2>1. \/ UNCHANGED <<cliMode, events, turn, claude>>
        \/ cliMode' = cliMode /\ events' = 0 /\ turn' = NewTurn /\ claude' = Unknown
    BY <1>11 DEF Exited, StopRun, Retry, Completes
  <2> QED  BY <1>10, <2>1, Unmoved
<1>12. CASE Text
  BY <1>2, <1>12 DEF Text, Line
<1> QED
  BY <1>1, <1>3, <1>4, <1>5, <1>6, <1>7, <1>8, <1>9, <1>11, <1>12 DEF CliNext

\* What is reported when the output ends.
LEMMA CompletesReports ==
  ASSUME RunInv, Completes, UNCHANGED <<turn, claude>>
  PROVE  CallsAreReportedOnce' \/ reported' = reported
<1> SUFFICES ASSUME reported' # reported, ~ claude.late PROVE CallsAreReportedOnce'
  BY DEF CallsAreReportedOnce
<1>1. reported'.calls = Unresolved /\ reported'.resolved = Resolved
  <2>1. reported' = [kind |-> "complete",
                     pre |-> IF Unresolved = {} /\ Resolved = {} THEN turn.full ELSE turn.pre,
                     post |-> IF Unresolved = {} /\ Resolved # {} THEN turn.post ELSE <<>>,
                     calls |-> Unresolved, resolved |-> Resolved]
    BY DEF Completes, Retry, StopRun
  <2> HIDE DEF Unresolved, Resolved
  <2> QED  BY <2>1
<1>2. /\ ToSet(turn.calls) = claude.mcp /\ turn.pending \cup turn.done = claude.builtin
      /\ (turn.killed => turn.pending = {}) /\ claude.mcp \cap claude.builtin = {}
      /\ turn.captured \subseteq claude.executed \cup claude.builtin
  BY DEF RunInv, Known, ByMode
<1>3. \A r \in Resolved :
        \/ r[1] \in turn.done
        \/ cliMode = "live" /\ r[1] \in claude.mcp /\ (r[2] => r[1] \in turn.captured)
  <2> SUFFICES ASSUME NEW r \in Resolved
               PROVE  \/ r[1] \in turn.done
                      \/ cliMode = "live" /\ r[1] \in claude.mcp /\ (r[2] => r[1] \in turn.captured)
    OBVIOUS
  <2>1. \/ \E id \in turn.done : r = <<id, TRUE>>
        \/ cliMode = "live" /\ \E id \in claude.mcp : r = <<id, id \in turn.captured>>
    BY <1>2 DEF Resolved
  <2>2. ASSUME NEW id \in claude.mcp, r = <<id, id \in turn.captured>>
        PROVE  r[1] = id /\ (r[2] => id \in turn.captured)
    BY <2>2
  <2>3. ASSUME NEW id \in turn.done, r = <<id, TRUE>> PROVE r[1] = id
    BY <2>3
  <2> QED  BY <2>1, <2>2, <2>3
<1>4. {r[1] : r \in Resolved} = turn.done \cup (IF cliMode = "live" THEN claude.mcp ELSE {})
  <2>1. ASSUME NEW id \in turn.done PROVE \E r \in Resolved : r[1] = id
    <3>1. <<id, TRUE>> \in Resolved
      BY <2>1 DEF Resolved
    <3> QED  BY <3>1
  <2>2. ASSUME cliMode = "live", NEW id \in claude.mcp PROVE \E r \in Resolved : r[1] = id
    <3>1. <<id, id \in turn.captured>> \in Resolved
      BY <1>2, <2>2 DEF Resolved
    <3> QED  BY <3>1
  <2> QED  BY <1>3, <2>1, <2>2
<1>5. Unresolved = IF cliMode = "live" THEN {} ELSE claude.mcp
  BY <1>2 DEF Unresolved
<1>6. Unresolved \cup {r[1] : r \in Resolved} = claude.mcp \cup turn.done
  BY <1>4, <1>5
<1>7. \A r \in Resolved : r[1] \notin Unresolved
  BY <1>2, <1>3, <1>5
<1>8. \A id \in claude.mcp : <<id, TRUE>> \in Resolved => id \in claude.executed
  <2> SUFFICES ASSUME NEW id \in claude.mcp, <<id, TRUE>> \in Resolved PROVE id \in claude.executed
    OBVIOUS
  <2>1. id \notin claude.builtin
    BY <1>2
  <2>2. id \notin turn.done
    BY <1>2, <2>1
  <2>3. id \in turn.captured
    BY <1>3, <2>2
  <2> QED  BY <1>2, <2>1, <2>3
<1>9. turn.killed => claude.builtin \subseteq turn.done
  BY <1>2
<1> QED
  BY <1>1, <1>6, <1>7, <1>8, <1>9 DEF CallsAreReportedOnce

LEMMA CallInvStarts == CliInit => CallInv
<1> SUFFICES ASSUME CliInit PROVE CallInv
  OBVIOUS
<1>1. reported.kind = "none"
  BY DEF CliInit, Silent
<1>2. RunInv
  <2>1. IsTurn(NewTurn)
    BY DEF IsTurn, NewTurn, TurnFields
  <2>2. /\ Unknown \in ClaudeCalls /\ Unknown.mcp = {} /\ Unknown.builtin = {} /\ Unknown.executed = {}
        /\ Unknown.closed = FALSE
    BY DEF Unknown, ClaudeCalls
  <2>3. /\ NewTurn.calls = <<>> /\ NewTurn.pending = {} /\ NewTurn.done = {} /\ NewTurn.captured = {}
        /\ NewTurn.batch = FALSE /\ NewTurn.killed = FALSE
    BY DEF NewTurn
  <2>4. <<>> \in Seq(Nat) /\ ToSet(<<>>) = {}
    BY DEF ToSet
  <2>5. turn = NewTurn /\ claude = Unknown /\ events = 0
    BY DEF CliInit
  <2>6. Known /\ Numbered /\ ByMode
    BY <2>2, <2>3, <2>4, <2>5 DEF Known, Numbered, ByMode
  <2> QED  BY <2>1, <2>2, <2>3, <2>4, <2>5, <2>6 DEF RunInv
<1> QED
  BY <1>1, <1>2 DEF CallInv, CallsAreReportedOnce

\* What a run is reported to have called is what claude called, each call either
\* for the server to run or already resolved, and no result of claude's own tools
\* is lost when it is killed (claude.go: runJobOnce and what RunJob makes of it).
THEOREM ReportedOnce == CliSpec => []CallsAreReportedOnce
<1>1. CallInv /\ [CliNext]_clivars => CallInv'
  <2> SUFFICES ASSUME CallInv, [CliNext]_clivars PROVE CallInv'
    OBVIOUS
  <2>1. RunInv'
    BY RunInvKept DEF CallInv
  <2>2. reported'.kind = "none" => CallsAreReportedOnce'
    BY DEF CallsAreReportedOnce
  <2>3. CASE UNCHANGED clivars
    BY <2>1, <2>3 DEF clivars, CallInv, CallsAreReportedOnce
  <2>4. CASE Start
    BY <2>1, <2>4 DEF Start, Told, Silent, CallInv, CallsAreReportedOnce
  <2>5. CASE Text \/ CallTool \/ CallBuiltin \/ BuiltinResult \/ ToolCall \/ ToolResult \/ LiveResult
             \/ Allowed \/ ResultEvent \/ Abort
    <3>1. process = "running" /\ process' = process /\ reported' = reported
      BY <2>5 DEF Text, CallTool, CallBuiltin, BuiltinResult, ToolCall, ToolResult, LiveResult, Allowed,
                  ResultEvent, Abort, Event, Line
    <3> QED  BY <2>1, <2>2, <3>1 DEF CallInv
  <2>6. CASE Limited
    <3>1. /\ process = "running" /\ process' = "exited"
          /\ reported' = (IF attempt = 1 THEN Told("overload") ELSE reported)
      BY <2>6 DEF Limited, StopRun
    <3>2. Told("overload").kind = "overload"
      BY DEF Told, Silent
    <3> QED  BY <2>1, <2>2, <3>1, <3>2 DEF CallInv, CallsAreReportedOnce
  <2>7. CASE Exited
    <3>1. process = "running" /\ reported.kind = "none"
      BY <2>7 DEF Exited, CallInv
    <3>2. CASE Completes /\ UNCHANGED <<turn, claude>>
      <4>1. CallsAreReportedOnce'
        BY <2>2, <3>1, <3>2, CompletesReports DEF CallInv
      <4>2. process' = "exited" \/ reported' = reported
        BY <3>2 DEF Completes, StopRun, Retry
      <4> QED  BY <2>1, <3>1, <4>1, <4>2 DEF CallInv
    <3>3. CASE reported' = reported \/ (reported' = Told("error") /\ process' = "exited")
      <4>1. Told("error").kind = "error"
        BY DEF Told, Silent
      <4> QED  BY <2>1, <2>2, <3>1, <3>3, <4>1 DEF CallInv, CallsAreReportedOnce
    <3> QED  BY <2>7, <3>2, <3>3 DEF Exited, StopRun, Retry, Completes
  <2> QED  BY <2>3, <2>4, <2>5, <2>6, <2>7 DEF CliNext
<1>2. CallInv => CallsAreReportedOnce
  BY DEF CallInv
<1> QED
  BY CallInvStarts, <1>1, <1>2, PTL DEF CliSpec

-----------------------------------------------------------------------------
(* The parts beside each other.                                              *)

LEMMA LengthOf ==
  ASSUME NEW S, NEW s \in Seq(S), NEW n \in Nat, DOMAIN s = 1 .. n
  PROVE  Len(s) = n
<1>1. Len(s) \in Nat /\ DOMAIN s = 1 .. Len(s)
  BY LenProperties
<1>2. n \in 1 .. n \/ n = 0
  OBVIOUS
<1>3. Len(s) \in 1 .. Len(s) \/ Len(s) = 0
  BY <1>1
<1> QED
  BY <1>1, <1>2, <1>3

SpawnsBounded == engine \in {"llama", "sd"} /\ Len(servers) <= MaxSpawns
LEMMA SpawnsAreBounded ==
  ASSUME OneServerInv, SpawnsBounded, [ServerNext]_servervars
  PROVE  SpawnsBounded'
<1>0. /\ Len(servers) \in Nat /\ MaxSpawns \in Nat /\ engine \in {"llama", "sd"} /\ Len(servers) <= MaxSpawns
      /\ servers \in Seq(ServerRecords) /\ ServerTyped /\ llama \in Nat
  BY ServerFacts, ServerAssumption DEF OneServerInv, ServerTyped, SpawnsBounded
<1>1. engine' = engine
  BY DEF ServerNext, servervars, DialStart, DialReady, DialNotReady, PatchStop, PatchStart, PatchReady, RegisterCrash, Leave,
         ServerLoads, ServerDies, MonitorWakes, CrashRestart, CrashRecovered, PolicyUpdate, UpdateStop, UpdateStart, UpdateReady
<1>2. ASSUME NEW x \in ServerRecords, servers' = Append(servers, x), Len(servers) < MaxSpawns PROVE Len(servers') <= MaxSpawns
  <2>1. Len(Append(servers, x)) = Len(servers) + 1
    BY <1>0, AppendProperties
  <2> QED  BY <1>0, <1>2, <2>1
<1>3. ASSUME Len(servers) < MaxSpawns, servers' = Append(servers, [obj |-> llama + 1, life |-> "loading"])
      PROVE  Len(servers') <= MaxSpawns
  <2>1. [obj |-> llama + 1, life |-> "loading"] \in ServerRecords
    BY <1>0 DEF ServerRecords
  <2> QED  BY <1>2, <1>3, <2>1
<1>4. ASSUME llama > 0, StopServer(llama) PROVE Len(servers') <= MaxSpawns
  BY <1>0, <1>4, StopEffect
<1>5. ASSUME NEW s \in 1 .. Len(servers), NEW life \in {"ready", "gone"}, servers' = [servers EXCEPT ![s].life = life]
      PROVE  Len(servers') <= MaxSpawns
  <2>1. [servers[s] EXCEPT !.life = life] \in ServerRecords
    BY <1>0, ServerFacts, LifeBecomes
  <2>2. Len([servers EXCEPT ![s] = [servers[s] EXCEPT !.life = life]]) = Len(servers)
    BY <1>0, <2>1, ExceptSeq
  <2>3. servers' = [servers EXCEPT ![s] = [servers[s] EXCEPT !.life = life]]
    BY <1>5
  <2> QED  BY <1>0, <2>2, <2>3
<1>6. ASSUME UNCHANGED servers PROVE Len(servers') <= MaxSpawns
  BY <1>0, <1>6
<1>7. ASSUME DialStart PROVE Len(servers') <= MaxSpawns
  BY <1>3, <1>6, <1>7 DEF DialStart, Spawn
<1>8. ASSUME DialReady \/ RegisterCrash \/ UNCHANGED servervars PROVE Len(servers') <= MaxSpawns
  BY <1>6, <1>8 DEF DialReady, RegisterCrash, servervars
<1>9. ASSUME DialNotReady \/ PatchStop \/ PatchReady \/ Leave PROVE Len(servers') <= MaxSpawns
  <2>1. starter # "dialing" /\ (StopServer(llama) \/ UNCHANGED servers)
    BY <1>9 DEF DialNotReady, PatchStop, PatchReady, Leave
  <2> QED  BY <1>0, <1>4, <1>6, <2>1 DEF ServerTyped
<1>10. ASSUME PatchStart PROVE Len(servers') <= MaxSpawns
  BY <1>3, <1>6, <1>10 DEF PatchStart, Spawn
<1>11. ASSUME NEW s \in 1 .. Len(servers), ServerLoads(s) \/ ServerDies(s) PROVE Len(servers') <= MaxSpawns
  BY <1>5, <1>11 DEF ServerLoads, ServerDies
<1>12. ASSUME NEW s \in 1 .. Len(servers), MonitorWakes(s) \/ CrashRecovered(s) PROVE Len(servers') <= MaxSpawns
  BY <1>6, <1>12 DEF MonitorWakes, CrashRecovered
<1>13. ASSUME NEW s \in 1 .. Len(servers), CrashRestart(s) PROVE Len(servers') <= MaxSpawns
  <2>1. [obj |-> llama, life |-> "loading"] \in ServerRecords
    BY <1>0 DEF ServerRecords
  <2> QED  BY <1>2, <1>6, <1>13, <2>1 DEF CrashRestart
<1>14. ASSUME NEW u \in Updates, PolicyUpdate(u) \/ UpdateReady(u) PROVE Len(servers') <= MaxSpawns
  BY <1>6, <1>14 DEF PolicyUpdate, UpdateReady
<1>15. ASSUME NEW u \in Updates, UpdateStop(u) PROVE Len(servers') <= MaxSpawns
  <2>1. updater[u] = "queued" /\ StopServer(llama)
    BY <1>15 DEF UpdateStop
  <2>2. starter # "dialing"
    BY <2>1 DEF OneServerInv, BeforeServing
  <2> QED  BY <1>0, <1>4, <2>1, <2>2 DEF ServerTyped
<1>16. ASSUME NEW u \in Updates, UpdateStart(u) PROVE Len(servers') <= MaxSpawns
  BY <1>3, <1>6, <1>16 DEF UpdateStart, Spawn
<1>17. Len(servers') <= MaxSpawns
  BY <1>7, <1>8, <1>9, <1>10, <1>11, <1>12, <1>13, <1>14, <1>15, <1>16 DEF ServerNext
<1> QED
  BY <1>0, <1>1, <1>17 DEF SpawnsBounded

LEMMA WorkerTypesKept ==
  ASSUME ExecutionInv, ExecutionInv', WorkerTypeOK, [WorkerNext]_workervars
  PROVE  WorkerTypeOK'
<1>0. /\ MaxExecs \in Nat /\ MaxDelay \in Nat /\ MaxDelay >= 1 /\ MaxLinks \in Nat
      /\ main \in Loop \cup {"fetching", "backoff1", "starting", "parked", "exited", "failed"} /\ delay \in 1 .. MaxDelay
      /\ wire \in {"nil", "open", "broken"} /\ links \in 0 .. MaxLinks /\ Len(execs) <= MaxExecs /\ Len(execs) \in Nat
      /\ execs \in Seq(ExecRecords) /\ execs' \in Seq(ExecRecords) /\ activeJobs' \in [Jobs -> 0 .. Len(execs')]
  BY WorkerAssumption, ExecFacts DEF WorkerTypeOK, ExecutionInv
<1>1. ASSUME delay' \in 1 .. MaxDelay, wire' \in {"nil", "open", "broken"}, links' \in 0 .. MaxLinks, Len(execs') <= MaxExecs,
             main' \in Loop \cup {"fetching", "backoff1", "starting", "parked", "exited", "failed"}
      PROVE  WorkerTypeOK'
  BY <1>0, <1>1 DEF WorkerTypeOK
<1>2. Minimum(2 * delay, MaxDelay) \in 1 .. MaxDelay /\ 1 \in 1 .. MaxDelay
  BY <1>0 DEF Minimum
<1>3. ASSUME NEW ok, NEW failed, ConnectPermanent(ok, failed)
      PROVE  wire' \in {"nil", "open", "broken"} /\ links' \in 0 .. MaxLinks /\ main' \in {ok, failed}
  BY <1>0, <1>3 DEF ConnectPermanent
<1>4. CASE FetchPolicy \/ WaitForRouter \/ BackoffEnds \/ CloseOnSignal \/ LinkBreaks \/ Parked \/ UNCHANGED workervars
  BY <1>0, <1>1, <1>2, <1>4 DEF FetchPolicy, WaitForRouter, BackoffEnds, CloseOnSignal, LinkBreaks, Parked, workervars, Loop
<1>5. CASE ConnectFirst
  <2>1. PICK ok \in {"parked", "reading"} : ConnectPermanent(ok, "failed")
    BY <1>5 DEF ConnectFirst
  <2>2. UNCHANGED <<delay, execs>>
    BY <1>5 DEF ConnectFirst
  <2> QED  BY <1>0, <1>1, <1>3, <2>1, <2>2 DEF Loop
<1>6. CASE Reconnect
  <2>1. ConnectPermanent("reading", "backoff") /\ execs' = execs /\ delay' \in {1, Minimum(2 * delay, MaxDelay)}
    BY <1>6 DEF Reconnect
  <2> QED  BY <1>0, <1>1, <1>2, <1>3, <2>1 DEF Loop
<1>7. ASSUME DOMAIN execs' = 1 .. Len(execs) PROVE Len(execs') <= MaxExecs
  <2>1. Len(execs') = Len(execs)
    BY <1>0, <1>7, LengthOf
  <2> QED  BY <1>0, <2>1
<1>8. CASE Signal
  <2>1. DOMAIN execs' = 1 .. Len(execs) /\ UNCHANGED <<main, delay, wire, links>>
    BY <1>8 DEF Signal
  <2> QED  BY <1>0, <1>1, <1>7, <2>1
<1>9. CASE Disconnected
  <2>1. DOMAIN execs' = 1 .. Len(execs) /\ UNCHANGED <<wire, links>> /\ delay' = 1 /\ main' \in {"exited", "backoff"}
    BY <1>9 DEF Disconnected
  <2> QED  BY <1>0, <1>1, <1>2, <1>7, <2>1 DEF Loop
<1>10. ASSUME NEW j \in Jobs, ReadJob(j) PROVE WorkerTypeOK'
  <2>1. PICK x : execs' = Append(execs, x)
    BY <1>10 DEF ReadJob
  <2>2. Len(execs) < MaxExecs /\ UNCHANGED <<main, delay, wire, links>>
    BY <1>10 DEF ReadJob
  <2>3. Len(execs') = Len(execs) + 1
    BY <1>0, <2>1
  <2> QED  BY <1>0, <1>1, <2>2, <2>3
<1>11. DOMAIN execs = 1 .. Len(execs)
  BY <1>0, LenProperties
<1>12. ASSUME NEW j \in Jobs, ReadCancel(j) PROVE WorkerTypeOK'
  <2>1. DOMAIN execs' = DOMAIN execs /\ UNCHANGED <<main, delay, wire, links>>
    BY <1>12 DEF ReadCancel
  <2> QED  BY <1>0, <1>1, <1>7, <1>11, <2>1
<1>13. ASSUME NEW e \in 1 .. Len(execs), StartExecution(e) \/ EndExecution(e) \/ SendToolCallRequest(e) \/ ToolCallReturns(e)
                                          \/ ReadToolCallResult(e)
       PROVE  WorkerTypeOK'
  <2>1. DOMAIN execs' = 1 .. Len(execs) /\ UNCHANGED <<main, delay, wire, links>>
    BY <1>11, <1>13 DEF StartExecution, EndExecution, SendToolCallRequest, ToolCallReturns, ReadToolCallResult
  <2> QED  BY <1>0, <1>1, <1>7, <2>1
<1> QED
  BY <1>4, <1>5, <1>6, <1>8, <1>9, <1>10, <1>12, <1>13 DEF WorkerNext

ToolJobsTyped == toolJobs \in Seq({"running", "retry", "told", "lost"})
LEMMA ToolsTypesKept ==
  ASSUME PolicyInv, PolicyInv', TwTypeOK, ToolJobsTyped, [ToolsWorkerNext]_twvars
  PROVE  TwTypeOK' /\ ToolJobsTyped'
<1> USE DEF ToolJobsTyped, Stages, Links
<1>0. /\ MaxPolicies \in Nat /\ MaxToolJobs \in Nat /\ MaxSessions \in Nat /\ MaxRetryDelay \in Nat /\ MaxRetryDelay >= 1
      /\ reloads \in Seq(Stages) /\ reloads' \in Seq(Stages)
      /\ twLink' \in Links /\ twSocket' \in BOOLEAN /\ Len(reloads) \in Nat /\ Len(toolJobs) \in Nat
  BY ToolsWorkerAssumption DEF PolicyInv
<1>1. /\ twDelay \in 0 .. MaxRetryDelay /\ twSessions \in 0 .. MaxSessions
      /\ advertised \in 0 .. MaxPolicies /\ carried \in 0 .. MaxPolicies /\ announced \in 0 .. MaxPolicies /\ raced \in BOOLEAN /\ twDone \in BOOLEAN
      /\ Len(reloads) <= MaxPolicies /\ Len(toolJobs) <= MaxToolJobs
  BY DEF TwTypeOK
<1>2. Escalated \in 0 .. MaxRetryDelay
  BY <1>0, <1>1 DEF Escalated
<1>3. ASSUME BeginReload PROVE raced' \in BOOLEAN /\ Len(reloads') <= MaxPolicies
  <2>1. Len(Append(reloads, "introspecting")) = Len(reloads) + 1
    BY <1>0
  <2> QED  BY <1>0, <1>3, <2>1 DEF BeginReload
<1>4. DOMAIN reloads = 1 .. Len(reloads)
  BY <1>0, LenProperties
<1>5. CASE ToolsDial
  <2>1. twSessions < MaxSessions /\ twSessions' \in {twSessions, twSessions + 1} /\ twDelay' \in {twDelay, Escalated}
        /\ carried' \in {carried, advertised} /\ UNCHANGED <<twDone, reloads, advertised, announced, raced, toolJobs>>
    BY <1>5 DEF ToolsDial
  <2>2. twSessions' \in 0 .. MaxSessions
    BY <1>0, <1>1, <2>1
  <2> QED  BY <1>0, <1>1, <1>2, <2>1, <2>2 DEF TwTypeOK
<1>6. CASE ToolsHelloAck
  <2>1. twDelay' \in {0, Escalated} /\ (BeginReload \/ UNCHANGED <<reloads, raced>>)
        /\ UNCHANGED <<twSessions, twDone, advertised, carried, announced, toolJobs>>
    BY <1>6 DEF ToolsHelloAck, ToolsConnectFails
  <2>2. raced' \in BOOLEAN /\ Len(reloads') <= MaxPolicies /\ twDelay' \in 0 .. MaxRetryDelay
    BY <1>0, <1>1, <1>2, <1>3, <2>1
  <2> QED  BY <1>0, <1>1, <2>1, <2>2 DEF TwTypeOK
<1>12. CASE ToolsHello \/ ToolsTurnedAway
  <2>1. /\ twDelay' \in {twDelay, Escalated} /\ announced' \in {announced, carried}
        /\ UNCHANGED <<twSessions, twDone, reloads, advertised, carried, raced, toolJobs>>
    BY <1>12 DEF ToolsHello, ToolsTurnedAway, ToolsConnectFails
  <2> QED  BY <1>0, <1>1, <1>2, <2>1 DEF TwTypeOK
<1>7. CASE SocketFails \/ LoopEnds \/ Shutdown \/ UNCHANGED twvars
  <2>1. twDelay' \in {twDelay, Escalated} /\ twDone' \in {twDone, TRUE}
        /\ UNCHANGED <<twSessions, reloads, advertised, carried, announced, raced, toolJobs>>
    BY <1>7 DEF SocketFails, LoopEnds, Shutdown, twvars
  <2> QED  BY <1>0, <1>1, <1>2, <2>1 DEF TwTypeOK
<1>8. CASE ReloadPolicy
  <2>1. BeginReload /\ UNCHANGED <<twDelay, twSessions, twDone, advertised, carried, announced, toolJobs>>
    BY <1>8 DEF ReloadPolicy
  <2> QED  BY <1>0, <1>1, <1>3, <2>1 DEF TwTypeOK
<1>9. CASE ReceiveToolJob
  <2>1. Len(toolJobs) < MaxToolJobs /\ toolJobs' = Append(toolJobs, "running")
        /\ UNCHANGED <<twDelay, twSessions, twDone, reloads, advertised, carried, announced, raced>>
    BY <1>9 DEF ReceiveToolJob
  <2>2. toolJobs' \in Seq({"running", "retry", "told", "lost"}) /\ Len(toolJobs') = Len(toolJobs) + 1
    BY <2>1
  <2> QED  BY <1>0, <1>1, <2>1, <2>2 DEF TwTypeOK
<1>10. ASSUME NEW n \in 1 .. Len(reloads), UpdateAdvertisedTools(n) \/ SendPolicyReloaded(n)
       PROVE  TwTypeOK' /\ ToolJobsTyped'
  <2>1. DOMAIN reloads' = DOMAIN reloads /\ advertised' \in {advertised, n} /\ announced' \in {announced, n}
        /\ UNCHANGED <<carried, twDelay, twSessions, twDone, raced, toolJobs>>
    BY <1>10 DEF UpdateAdvertisedTools, SendPolicyReloaded
  <2>2. Len(reloads') = Len(reloads)
    BY <1>0, <1>4, <2>1, LengthOf
  <2>3. n \in 0 .. MaxPolicies
    BY <1>0, <1>1
  <2> QED  BY <1>0, <1>1, <2>1, <2>2, <2>3 DEF TwTypeOK
<1>11. ASSUME NEW k \in 1 .. Len(toolJobs), SendResult(k)
       PROVE  TwTypeOK' /\ ToolJobsTyped'
  <2>1. PICK x \in {"running", "retry", "told", "lost"} : toolJobs' = [toolJobs EXCEPT ![k] = x]
    BY <1>11 DEF SendResult
  <2>2. toolJobs' \in Seq({"running", "retry", "told", "lost"}) /\ Len(toolJobs') = Len(toolJobs)
    BY <2>1, ExceptSeq
  <2>3. UNCHANGED <<twDelay, twSessions, twDone, reloads, advertised, carried, announced, raced>>
    BY <1>11 DEF SendResult
  <2> QED  BY <1>0, <1>1, <2>2, <2>3 DEF TwTypeOK
<1> QED
  BY <1>5, <1>6, <1>7, <1>8, <1>9, <1>10, <1>11, <1>12 DEF ToolsWorkerNext

LEMMA BrowserTypesKept ==
  ASSUME BrowserInv, BrowserInv', BrowserTypeOK, [BrowserNext]_browservars
  PROVE  BrowserTypeOK'
<1>0. /\ sessions \in Seq(SessionRecords) /\ sessions' \in Seq(SessionRecords)
      /\ Len(sessions) \in Nat /\ Len(sessions') \in Nat /\ MaxBrowserSessions \in Nat
      /\ registry \in [Threads -> 0 .. Len(sessions)] /\ registry' \in [Threads -> 0 .. Len(sessions')]
      /\ sidecar \in {"off", "up", "dead"} /\ Len(sessions) <= MaxBrowserSessions /\ displaced \subseteq 1 .. Len(sessions)
  BY BrowserAssumption DEF BrowserInv, SessionTypes, BrowserTypeOK
<1>1. \A s \in 1 .. Len(sessions') : sessions'[s].side \in {"new", "void", "listening", "closing", "closed"}
  <2>1. \A s \in 1 .. Len(sessions') : sessions'[s] \in SessionRecords
    BY <1>0, ElementOfSeq
  <2> QED  BY <2>1 DEF SessionRecords, SessionSides
<1>2. ASSUME sidecar' \in {"off", "up", "dead"}, Len(sessions') <= MaxBrowserSessions, Len(sessions) <= Len(sessions'),
             displaced' = displaced
      PROVE  BrowserTypeOK'
  BY <1>0, <1>1, <1>2 DEF BrowserTypeOK
<1>3. ASSUME sidecar' \in {"off", "up", "dead"}, DOMAIN sessions' = 1 .. Len(sessions), displaced' \subseteq 1 .. Len(sessions)
      PROVE  BrowserTypeOK'
  <2>1. Len(sessions') = Len(sessions)
    BY <1>0, <1>3, LengthOf
  <2> QED  BY <1>0, <1>1, <1>3, <2>1 DEF BrowserTypeOK
<1>4. DOMAIN sessions = 1 .. Len(sessions)
  BY <1>0, LenProperties
<1>5. CASE SidecarStarts \/ SidecarDies \/ UNCHANGED browservars
  BY <1>0, <1>3, <1>4, <1>5 DEF SidecarStarts, SidecarDies, browservars
<1>6. ASSUME NEW c \in Callers, NEW t, NEW try, GetOrCreate(c, t, try), UNCHANGED <<sidecar, displaced>>
      PROVE  BrowserTypeOK'
  <2>1. CASE registry[t] # 0
    BY <1>0, <1>2, <1>6, <2>1 DEF GetOrCreate
  <2>2. CASE registry[t] = 0
    <3>1. PICK x : x = [thread |-> t, side |-> "new", known |-> FALSE]
      OBVIOUS
    <3>2. Len(sessions) < MaxBrowserSessions /\ sessions' = Append(sessions, x)
      BY <1>6, <2>2, <3>1 DEF GetOrCreate
    <3>3. DOMAIN sessions' = 1 .. Len(sessions) + 1
      BY <1>0, <3>2
    <3>4. Len(sessions') = Len(sessions) + 1
      BY <1>0, <3>3, LengthOf
    <3> QED  BY <1>0, <1>2, <1>6, <3>2, <3>4
  <2> QED  BY <2>1, <2>2
<1>7. ASSUME NEW c \in Callers, NEW t \in Threads, ExecuteCall(c, t) PROVE BrowserTypeOK'
  BY <1>6, <1>7 DEF ExecuteCall
<1>8. ASSUME NEW c \in Callers, CallAgain(c) PROVE BrowserTypeOK'
  BY <1>6, <1>8 DEF CallAgain
<1>9. ASSUME NEW c \in Callers, Touch(c) \/ Connect(c) \/ DoCall(c) \/ CallReturns(c) PROVE BrowserTypeOK'
  <2>1. DOMAIN sessions' = DOMAIN sessions /\ UNCHANGED <<sidecar, displaced>>
    BY <1>9 DEF Touch, Connect, DoCall, CallReturns
  <2> QED  BY <1>0, <1>3, <1>4, <2>1
<1>10. ASSUME NEW c \in Callers, ConnectFails(c) \/ CallFindsDead(c) PROVE BrowserTypeOK'
  <2>1. PICK t : t = sessions[callers[c].sess].thread
    OBVIOUS
  <2>2. t \in Threads
    <3>1. callers[c].at # "idle"
      BY <1>10 DEF ConnectFails, CallFindsDead
    <3> QED  BY <2>1, <3>1, BrowserFacts
  <2>3. DOMAIN sessions' = DOMAIN sessions /\ UNCHANGED sidecar
        /\ displaced' = displaced \cup ({registry[t]} \ {0, callers[c].sess})
    BY <1>10, <2>1 DEF ConnectFails, CallFindsDead
  <2>4. {registry[t]} \ {0, callers[c].sess} \subseteq 1 .. Len(sessions)
    BY <1>0, <2>2
  <2>5. displaced' \subseteq 1 .. Len(sessions)
    BY <1>0, <2>3, <2>4
  <2> QED  BY <1>0, <1>3, <1>4, <2>3, <2>5
<1>11. ASSUME NEW s \in 1 .. Len(sessions), SidecarForgets(s) \/ ListenFindsDead(s) \/ Close(s) PROVE BrowserTypeOK'
  <2>1. DOMAIN sessions' = DOMAIN sessions /\ UNCHANGED <<sidecar, displaced>>
    BY <1>11 DEF SidecarForgets, ListenFindsDead, Close
  <2> QED  BY <1>0, <1>3, <1>4, <2>1
<1>12. ASSUME NEW t \in Threads, Sweep(t) PROVE BrowserTypeOK'
  <2>1. DOMAIN sessions' = DOMAIN sessions /\ UNCHANGED <<sidecar, displaced>>
    BY <1>12 DEF Sweep
  <2> QED  BY <1>0, <1>3, <1>4, <2>1
<1> QED
  BY <1>5, <1>7, <1>8, <1>9, <1>10, <1>11, <1>12 DEF BrowserNext

\* What a server has written and nobody read is a short list of replies.
LineRecords == [id : {0, 1, 2}, reply : BOOLEAN]
LinesTyped == lines \in [McpCallers -> Seq(LineRecords)] /\ \A c \in McpCallers : Len(lines[c]) <= MaxLines
LEMMA LinesAreTyped ==
  ASSUME LinesTyped, [McpClientNext]_mcvars
  PROVE  LinesTyped'
<1>0. MaxLines \in Nat
  BY McpClientAssumption
<1>1. ASSUME NEW c \in McpCallers, NEW s \in Seq(LineRecords), Len(s) <= MaxLines, lines' = [lines EXCEPT ![c] = s]
      PROVE  LinesTyped'
  BY <1>1 DEF LinesTyped
<1>2. ASSUME NEW c \in McpCallers, ServerWrites(c) PROVE LinesTyped'
  <2>1. PICK line \in LineRecords : lines' = [lines EXCEPT ![c] = Append(@, line)]
    BY <1>2 DEF ServerWrites, Replies, LineRecords
  <2>2. PICK s \in Seq(LineRecords) : s = lines[c]
    BY DEF LinesTyped
  <2>3. PICK u : u = Append(s, line)
    OBVIOUS
  <2>4. Len(s) < MaxLines /\ Len(s) \in Nat
    BY <1>2, <2>2 DEF ServerWrites
  <2>5. u \in Seq(LineRecords) /\ Len(u) <= MaxLines
    <3>1. u \in Seq(LineRecords) /\ Len(u) = Len(s) + 1
      BY <2>3, AppendProperties
    <3> QED  BY <1>0, <2>4, <3>1
  <2>6. lines' = [lines EXCEPT ![c] = u]
    BY <2>1, <2>2, <2>3
  <2> QED  BY <1>1, <2>5, <2>6
<1>3. ASSUME NEW c \in McpCallers, ReadLine(c) PROVE LinesTyped'
  <2>1. lines[c] # <<>> /\ lines' = [lines EXCEPT ![c] = Tail(@)]
    BY <1>3 DEF ReadLine
  <2>2. PICK s \in Seq(LineRecords) : s = lines[c]
    BY DEF LinesTyped
  <2>3. s # <<>> /\ Len(s) <= MaxLines
    BY <2>1, <2>2 DEF LinesTyped
  <2>4. PICK u : u = Tail(s)
    OBVIOUS
  <2>5. u \in Seq(LineRecords) /\ Len(u) <= MaxLines
    <3>1. u \in Seq(LineRecords) /\ Len(u) = Len(s) - 1 /\ Len(s) \in Nat
      BY <2>3, <2>4, HeadTailProperties, LenProperties
    <3> QED  BY <1>0, <2>3, <3>1
  <2>6. lines' = [lines EXCEPT ![c] = u]
    BY <2>1, <2>2, <2>4
  <2> QED  BY <1>1, <2>5, <2>6
<1>4. \/ lines' = lines
      \/ \E c \in McpCallers : ServerWrites(c) \/ ReadLine(c)
  BY DEF McpClientNext, mcvars, InstallEnds, Installed, StartServer, ServerExits, ReadFails, HttpCall, HttpInitialized,
         HttpReturns, EnsureInstalled, Validate
<1> QED
  BY <1>2, <1>3, <1>4 DEF LinesTyped

LEMMA McpClientTypes ==
  ASSUME McpInv, LinesTyped
  PROVE  McpClientTypeOK
BY DEF McpInv, McpTypes, CallSteps, LinesTyped, McpClientTypeOK

\* A call that came late was made after the batch was complete.
LateIsIgnored == claude.late => Ignored
LEMMA CliControlKept ==
  ASSUME CliTypeOK, [CliNext]_clivars
  PROVE  /\ attempt' \in 1 .. 2 /\ process' \in {"none", "running", "exited"} /\ events' \in 0 .. MaxEvents
         /\ reported'.kind \in {"none", "complete", "error", "overload"} /\ aborted' \in BOOLEAN
<1>0. /\ attempt \in 1 .. 2 /\ process \in {"none", "running", "exited"} /\ events \in 0 .. MaxEvents
      /\ reported.kind \in {"none", "complete", "error", "overload"} /\ aborted \in BOOLEAN /\ MaxEvents \in Nat
  BY CliAssumption DEF CliTypeOK
<1>1. Told("error").kind = "error" /\ Told("overload").kind = "overload"
  BY DEF Told, Silent
<1>2. CASE Start \/ ToolCall \/ ToolResult \/ Limited \/ Abort \/ UNCHANGED clivars
  BY <1>0, <1>1, <1>2, Zenon DEF Start, ToolCall, ToolResult, Limited, StopRun, Abort, clivars
<1>3. ASSUME NEW t, Event(t), Line PROVE UNCHANGED <<attempt, process, reported, aborted>> /\ events' \in 0 .. MaxEvents
  BY <1>0, <1>3 DEF Event, Line
<1>4. CASE Text \/ CallTool \/ CallBuiltin \/ BuiltinResult \/ LiveResult \/ Allowed \/ ResultEvent
  <2>1. \E t : Event(t) /\ Line
    BY <1>4, Zenon DEF Text, CallTool, CallBuiltin, BuiltinResult, LiveResult, Allowed, ResultEvent
  <2> QED  BY <1>0, <1>3, <2>1
<1>5. ASSUME NEW messages, Retry(messages)
      PROVE  /\ attempt' \in {attempt, 2} /\ process' \in {"none", "exited"} /\ events' \in {events, 0}
             /\ UNCHANGED <<aborted, reported>>
  BY <1>5 DEF Retry, StopRun
<1>6. CASE Completes
  <2>1. CASE Retry(Trimmed(LastImage(chat)))
    BY <1>0, <1>5, <2>1
  <2>2. CASE /\ StopRun /\ UNCHANGED aborted
             /\ \E pre, post, calls, resolved : reported' = [kind |-> "complete", pre |-> pre, post |-> post,
                                                             calls |-> calls, resolved |-> resolved]
    <3>1. reported'.kind = "complete"
      BY <2>2
    <3> QED  BY <1>0, <2>2, <3>1 DEF StopRun
  <2> QED  BY <1>6, <2>1, <2>2, Zenon DEF Completes
<1>7. CASE Exited
  <2>1. \/ Completes
        \/ Retry(chat) \/ Retry(NoImages(chat))
        \/ StopRun /\ UNCHANGED <<aborted, reported>>
        \/ StopRun /\ reported' = Told("error") /\ UNCHANGED aborted
    BY <1>7, Zenon DEF Exited
  <2>2. CASE Retry(chat) \/ Retry(NoImages(chat))
    BY <1>0, <1>5, <2>2
  <2> QED  BY <1>0, <1>1, <1>6, <2>1, <2>2 DEF StopRun
<1> QED
  BY <1>2, <1>4, <1>7 DEF CliNext

LEMMA ProxiedAreCalls ==
  ASSUME RunInv, proxied \subseteq claude.mcp, [CliNext]_clivars
  PROVE  proxied' \subseteq claude'.mcp
<1>0. claude \in ClaudeCalls
  BY DEF RunInv
<1>1. CASE UNCHANGED <<proxied, claude>>
  BY <1>1
<1>2. CASE proxied' = proxied /\ claude.mcp \subseteq claude'.mcp
  BY <1>2
<1>3. CASE proxied' = {}
  BY <1>3
<1>4. CASE ToolCall
  BY <1>4 DEF ToolCall
<1>5. CASE CallTool
  <2>1. proxied' = proxied /\ claude' \in {claude, [claude EXCEPT !.mcp = @ \cup {events}, !.late = @ \/ Ignored]}
    BY <1>5 DEF CallTool
  <2> QED  BY <1>0, <1>2, <2>1 DEF ClaudeCalls
<1>6. CASE CallBuiltin \/ BuiltinResult \/ ToolResult \/ Allowed
  <2>1. proxied' = proxied /\ claude'.mcp = claude.mcp
    BY <1>0, <1>6 DEF CallBuiltin, BuiltinResult, ToolResult, Allowed, ClaudeCalls
  <2> QED  BY <1>2, <2>1
<1>7. CASE Exited
  BY <1>1, <1>3, <1>7 DEF Exited, StopRun, Retry, Completes
<1>8. CASE Start \/ Text \/ LiveResult \/ Limited \/ ResultEvent \/ Abort \/ UNCHANGED clivars
  BY <1>1, <1>8 DEF Start, Text, LiveResult, Limited, StopRun, ResultEvent, Abort, clivars
<1> QED
  BY <1>4, <1>5, <1>6, <1>7, <1>8 DEF CliNext

LEMMA CliTypesKept ==
  ASSUME RunInv, RunInv', CliTypeOK, LateIsIgnored, [CliNext]_clivars
  PROVE  CliTypeOK' /\ LateIsIgnored'
<1>0. /\ IsTurn(turn) /\ claude \in ClaudeCalls /\ {turn.batch, turn.killed} \subseteq BOOLEAN
      /\ turn.pending \subseteq claude.builtin /\ proxied \subseteq claude.mcp
  BY DEF RunInv, CliTypeOK
<1>f. {"stdin", "captured", "answered", "batch", "pending", "done", "calls", "mcp"} \subseteq TurnFields
  BY DEF TurnFields
\* Once every call is passed over, the worker's own part of the turn only shrinks.
<1>1. ASSUME turn'.pending \subseteq claude'.builtin, LateIsIgnored' PROVE CliTypeOK' /\ LateIsIgnored'
  BY <1>0, <1>1, CliControlKept, ProxiedAreCalls DEF CliTypeOK
<1>2. ASSUME ~ claude'.late PROVE CliTypeOK' /\ LateIsIgnored'
  BY <1>1, <1>2 DEF RunInv, Known, LateIsIgnored
<1>3. ASSUME Ignored, turn'.batch = turn.batch, turn'.calls = turn.calls, turn'.pending \subseteq turn.pending,
             claude.builtin \subseteq claude'.builtin
      PROVE  CliTypeOK' /\ LateIsIgnored'
  BY <1>0, <1>1, <1>3 DEF Ignored, LateIsIgnored
<1>4. ASSUME UNCHANGED <<turn, claude>> PROVE CliTypeOK' /\ LateIsIgnored'
  BY <1>2, <1>3, <1>4 DEF LateIsIgnored
<1>5. CASE Start \/ ToolCall \/ Limited \/ Abort \/ UNCHANGED clivars
  BY <1>4, <1>5 DEF Start, ToolCall, Limited, StopRun, Abort, clivars
<1>6. CASE ToolResult
  <2>1. turn' = turn /\ claude'.late = claude.late /\ claude'.builtin = claude.builtin
    BY <1>0, <1>6 DEF ToolResult, ClaudeCalls
  <2> QED  BY <1>2, <1>3, <2>1 DEF LateIsIgnored
<1>7. CASE Text
  <2>1. PICK x : turn' = WithText(x) /\ claude' = claude
    BY <1>7 DEF Text, Event
  <2> QED  BY <1>2, <1>3, <2>1 DEF WithText, LateIsIgnored
<1>8. CASE CallTool
  <2>1. /\ turn' = WithCall(events) /\ claude'.builtin = claude.builtin
        /\ claude'.late => claude.late \/ Ignored
    BY <1>0, <1>8 DEF CallTool, Event, ClaudeCalls
  <2>2. CASE Ignored
    BY <1>3, <2>1, <2>2 DEF WithCall
  <2> QED  BY <1>2, <2>1, <2>2 DEF LateIsIgnored
<1>9. CASE CallBuiltin
  <2>1. /\ Ignored => turn' = turn
        /\ claude.builtin \subseteq claude'.builtin /\ (claude'.late => claude.late \/ Ignored)
    BY <1>0, <1>9 DEF CallBuiltin, Event, ClaudeCalls
  <2>2. CASE Ignored
    BY <1>3, <2>1, <2>2
  <2> QED  BY <1>2, <2>1, <2>2 DEF LateIsIgnored
<1>10. CASE ResultEvent
  <2>1. turn' = [turn EXCEPT !.stdin = FALSE] /\ claude' = claude
    BY <1>10 DEF ResultEvent, Event
  <2>2. turn'.batch = turn.batch /\ turn'.calls = turn.calls /\ turn'.pending = turn.pending
    BY <1>0, <1>f, <2>1, FieldBecomes
  <2> QED  BY <1>2, <1>3, <2>1, <2>2 DEF LateIsIgnored
<1>11. CASE LiveResult
  <2>1. PICK id \in claude.executed : turn' = [turn EXCEPT !.captured = @ \cup {id}, !.answered = TRUE] /\ claude' = claude
    BY <1>11 DEF LiveResult, Event
  <2>2. PICK t : t = [turn EXCEPT !.captured = @ \cup {id}]
    OBVIOUS
  <2>3. turn' = [t EXCEPT !.answered = TRUE]
    BY <2>1, <2>2
  <2>4. IsTurn(t) /\ t.batch = turn.batch /\ t.calls = turn.calls /\ t.pending = turn.pending
    BY <1>0, <1>f, <2>2, FieldBecomes
  <2>5. turn'.batch = turn.batch /\ turn'.calls = turn.calls /\ turn'.pending = turn.pending
    BY <1>f, <2>3, <2>4, FieldBecomes
  <2> QED  BY <1>2, <1>3, <2>1, <2>5 DEF LateIsIgnored
<1>12. CASE Allowed
  <2>1. claude'.late = claude.late /\ claude'.builtin = claude.builtin
    BY <1>0, <1>12 DEF Allowed, ClaudeCalls
  <2>2. PICK t : t = [turn EXCEPT !.batch = TRUE]
    OBVIOUS
  <2>3. turn' = turn \/ turn' = Killed(t)
    BY <1>12, <2>2 DEF Allowed, Event
  <2>4. IsTurn(t) /\ t.batch = TRUE /\ t.killed = turn.killed /\ t.calls = turn.calls /\ t.pending = turn.pending
    BY <1>0, <1>f, <2>2, FieldBecomes
  <2>5. Killed(t).batch = TRUE /\ Killed(t).calls = turn.calls /\ Killed(t).pending = turn.pending
    BY <1>0, <2>4, KilledBecomes
  <2>6. Ignored => turn.batch = TRUE
    BY <1>0 DEF Ignored
  <2> QED  BY <1>2, <1>3, <2>1, <2>3, <2>5, <2>6 DEF LateIsIgnored
<1>13. CASE BuiltinResult
  <2>1. PICK id \in claude.builtin :
          turn' = IF id \in turn.pending
                  THEN Killed([turn EXCEPT !.pending = @ \ {id}, !.done = @ \cup {id}, !.answered = TRUE])
                  ELSE IF cliMode = "live" THEN [turn EXCEPT !.captured = @ \cup {id}, !.answered = TRUE] ELSE turn
    BY <1>13 DEF BuiltinResult, Event
  <2>2. claude'.late = claude.late /\ claude'.builtin = claude.builtin
    BY <1>0, <1>13 DEF BuiltinResult, ClaudeCalls
  <2>3. PICK p : p = [turn EXCEPT !.pending = @ \ {id}]
    OBVIOUS
  <2>4. PICK d : d = [p EXCEPT !.done = @ \cup {id}]
    OBVIOUS
  <2>5. PICK a : a = [d EXCEPT !.answered = TRUE]
    OBVIOUS
  <2>6. PICK c : c = [turn EXCEPT !.captured = @ \cup {id}]
    OBVIOUS
  <2>7. turn' \in {turn, Killed(a), [c EXCEPT !.answered = TRUE]}
    BY <2>1, <2>3, <2>4, <2>5, <2>6
  <2>8. IsTurn(p) /\ p.batch = turn.batch /\ p.killed = turn.killed /\ p.calls = turn.calls /\ p.pending \subseteq turn.pending
    BY <1>0, <1>f, <2>3, FieldBecomes
  <2>9. IsTurn(d) /\ d.batch = turn.batch /\ d.killed = turn.killed /\ d.calls = turn.calls /\ d.pending \subseteq turn.pending
    BY <1>f, <2>4, <2>8, FieldBecomes
  <2>10. IsTurn(a) /\ a.batch = turn.batch /\ a.killed = turn.killed /\ a.calls = turn.calls /\ a.pending \subseteq turn.pending
    BY <1>f, <2>5, <2>9, FieldBecomes
  <2>11. Killed(a).batch = turn.batch /\ Killed(a).calls = turn.calls /\ Killed(a).pending \subseteq turn.pending
    BY <1>0, <2>10, KilledBecomes
  <2>12. IsTurn(c) /\ c.batch = turn.batch /\ c.calls = turn.calls /\ c.pending = turn.pending
    BY <1>0, <1>f, <2>6, FieldBecomes
  <2>13. PICK u : u = [c EXCEPT !.answered = TRUE]
    OBVIOUS
  <2>14. u.batch = turn.batch /\ u.calls = turn.calls /\ u.pending = turn.pending
    BY <1>f, <2>12, <2>13, FieldBecomes
  <2> QED  BY <1>2, <1>3, <2>2, <2>7, <2>11, <2>13, <2>14 DEF LateIsIgnored
<1>14. CASE Exited
  <2>1. UNCHANGED <<turn, claude>> \/ claude' = Unknown
    BY <1>14 DEF Exited, StopRun, Retry, Completes
  <2>2. ~ Unknown.late
    BY DEF Unknown
  <2> QED  BY <1>2, <1>4, <2>1, <2>2
<1> QED
  BY <1>5, <1>6, <1>7, <1>8, <1>9, <1>10, <1>11, <1>12, <1>13, <1>14 DEF CliNext

LEMMA WrittenIsShort ==
  ASSUME NEW w \in Loaders, NEW old \in Seq(Blocks), loader[w] \in LoaderRecords, loader[w].body # <<>>
  PROVE  WrittenBlock(w, old) \in Seq(Blocks) /\ Len(WrittenBlock(w, old)) <= Len(old) + 1
<1>1. PICK x : x = Head(loader[w].body)
  OBVIOUS
<1>2. x \in Blocks /\ loader[w].offset \in Nat /\ Len(old) \in Nat
  <2>1. loader[w].body \in Seq(Blocks) /\ loader[w].offset \in Nat
    BY DEF LoaderRecords
  <2> QED  BY <1>1, <2>1, HeadTailProperties
<1>3. CASE loader[w].append \/ loader[w].offset >= Len(old)
  <2>1. WrittenBlock(w, old) = Append(old, x)
    BY <1>1, <1>3 DEF WrittenBlock
  <2>2. Append(old, x) \in Seq(Blocks) /\ Len(Append(old, x)) = Len(old) + 1
    BY <1>2, AppendProperties
  <2> QED  BY <1>2, <2>1, <2>2
<1>4. CASE ~ (loader[w].append \/ loader[w].offset >= Len(old))
  <2>1. WrittenBlock(w, old) = [old EXCEPT ![loader[w].offset + 1] = x]
    BY <1>1, <1>4 DEF WrittenBlock
  <2>2. loader[w].offset + 1 \in 1 .. Len(old)
    BY <1>2, <1>4
  <2>3. /\ [old EXCEPT ![loader[w].offset + 1] = x] \in Seq(Blocks)
        /\ Len([old EXCEPT ![loader[w].offset + 1] = x]) = Len(old)
    BY <1>2, <2>2, ExceptSeq
  <2> QED  BY <1>2, <2>1, <2>3
<1> QED
  BY <1>3, <1>4

\* A file grows by one block of one reply at a time, and stays under twice its length.
Short(files) == \A f \in Files : Len(files[f]) <= 2 * FileBlocks
LEMMA FilesAreShort ==
  ASSUME DownloadsInv, Short(temp), Short(dest), [DownloadsNext]_dlvars
  PROVE  Short(temp)' /\ Short(dest)'
<1>0. /\ temp \in [Files -> Seq(Blocks)] /\ dest \in [Files -> Seq(Blocks)] /\ FileBlocks \in Nat
      /\ \A w \in Loaders : loader[w] \in LoaderRecords /\ loader[w].at \in Files
  BY DownloadsAssumption DEF DownloadsInv, DlTypes, LoaderRecords
<1>1. ASSUME NEW files \in [Files -> Seq(Blocks)], Short(files), NEW f \in Files, NEW s, Len(s) <= 2 * FileBlocks
      PROVE  Short([files EXCEPT ![f] = s])
  BY <1>1 DEF Short
<1>2. Len(<<>>) <= 2 * FileBlocks
  BY <1>0
<1>3. CASE UNCHANGED <<temp, dest>>
  BY <1>3
<1>4. ASSUME NEW w \in Loaders, Rename(w) PROVE Short(temp)' /\ Short(dest)'
  <2>1. PICK f \in Files : f = loader[w].at
    BY <1>0
  <2>2. \/ UNCHANGED <<temp, dest>>
        \/ dest' = [dest EXCEPT ![f] = temp[f]] /\ temp' = [temp EXCEPT ![f] = <<>>]
    BY <1>4, <2>1 DEF Rename
  <2>3. Len(temp[f]) <= 2 * FileBlocks
    BY DEF Short
  <2>4. Short([dest EXCEPT ![f] = temp[f]]) /\ Short([temp EXCEPT ![f] = <<>>])
    BY <1>0, <1>1, <1>2, <2>3
  <2> QED  BY <2>2, <2>4
<1>5. ASSUME NEW w \in Loaders, Ask(w) PROVE Short(temp)' /\ Short(dest)'
  <2>1. \/ UNCHANGED <<temp, dest>> \/ Rename(w)
        \/ dest' = dest /\ temp' = [temp EXCEPT ![loader[w].at] = <<>>]
    BY <1>5 DEF Ask, OpenReply
  <2>2. Short([temp EXCEPT ![loader[w].at] = <<>>])
    BY <1>0, <1>1, <1>2
  <2> QED  BY <1>4, <2>1, <2>2
<1>6. ASSUME NEW w \in Loaders, CopyEnds(w) PROVE Short(temp)' /\ Short(dest)'
  BY <1>4, <1>6 DEF CopyEnds
<1>7. ASSUME NEW w \in Loaders, Copy(w) PROVE Short(temp)' /\ Short(dest)'
  <2>1. PICK f \in Files : f = loader[w].at
    BY <1>0
  <2>2. PICK t : t = WrittenBlock(w, temp[f])
    OBVIOUS
  <2>3. PICK d : d = WrittenBlock(w, dest[f])
    OBVIOUS
  <2>4. loader[w].body # <<>> /\ Len(temp[f]) < 2 * FileBlocks /\ Len(dest[f]) < 2 * FileBlocks
    BY <1>7, <2>1 DEF Copy
  <2>5. \/ UNCHANGED <<temp, dest>>
        \/ temp' = [temp EXCEPT ![f] = t] /\ dest' = dest
        \/ dest' = [dest EXCEPT ![f] = d] /\ temp' = temp
    BY <1>7, <2>1, <2>2, <2>3 DEF Copy
  <2>6. /\ Len(t) <= Len(temp[f]) + 1 /\ Len(d) <= Len(dest[f]) + 1
        /\ t \in Seq(Blocks) /\ d \in Seq(Blocks)
    BY <1>0, <2>2, <2>3, <2>4, WrittenIsShort
  <2>7. {Len(t), Len(d), Len(temp[f]), Len(dest[f])} \subseteq Nat
    BY <1>0, <2>6, LenProperties
  <2>8. Len(t) <= 2 * FileBlocks /\ Len(d) <= 2 * FileBlocks
    BY <1>0, <2>4, <2>6, <2>7
  <2>9. Short([temp EXCEPT ![f] = t]) /\ Short([dest EXCEPT ![f] = d])
    BY <1>0, <1>1, <2>8
  <2> QED  BY <2>5, <2>9
<1>8. ASSUME NEW w \in Loaders, Begin(w) \/ Local(w) \/ Check(w) \/ Cached(w) \/ Archive(w) \/ Unpack(w) \/ Unpacked(w) \/ Cut(w)
      PROVE  UNCHANGED <<temp, dest>>
  BY <1>8 DEF Begin, Local, Check, Cached, Archive, Unpack, Unpacked, Cut
<1>9. Publish \/ UNCHANGED dlvars => UNCHANGED <<temp, dest>>
  BY DEF Publish, dlvars
<1> QED
  BY <1>3, <1>5, <1>6, <1>7, <1>8, <1>9 DEF DownloadsNext

LEMMA DownloadTypesKept ==
  ASSUME DownloadsInv, DownloadsInv', DlTypeOK, [DownloadsNext]_dlvars
  PROVE  DlTypeOK'
<1>0. /\ published \in 1 .. MaxVersion /\ MaxVersion \in Nat /\ tainted \subseteq Files /\ Short(temp) /\ Short(dest)
      /\ \A w \in Loaders : loader[w].at \in Files
  BY DownloadsAssumption DEF DlTypeOK, Short
<1>1. Short(temp)' /\ Short(dest)'
  BY <1>0, FilesAreShort
<1>2. /\ published' = published \/ (published < MaxVersion /\ published' = published + 1)
      /\ tainted' = tainted \/ \E w \in Loaders : tainted' = tainted \cup {loader[w].at}
  BY DEF DownloadsNext, dlvars, Begin, Local, Check, Ask, OpenReply, Copy, CopyEnds, Rename, Put, Cached, Archive, Unpack,
         Unpacked, Cut, Publish
<1>3. published' \in 1 .. MaxVersion /\ tainted' \subseteq Files
  BY <1>0, <1>2
<1>4. bundle' \in Steps /\ torn' \in BOOLEAN
      /\ \A w \in Loaders : loader'[w].at \in Files /\ loader'[w].file \in {"none", "temp", "dest", "gone"}
  BY DEF DownloadsInv, DlTypes, LoaderRecords
<1> QED
  BY <1>1, <1>3, <1>4 DEF DlTypeOK, Short

\* A step of the composition is a step of one part that leaves the others as they are.
LEMMA WorkerPartsRun ==
  Spec => /\ ServerSpec /\ WorkerSpec /\ ExecutorSpec /\ ToolsWorkerSpec /\ BrowserSpec
          /\ McpClientSpec /\ AgentSpec /\ CliSpec /\ DownloadsSpec
<1>1. Init => /\ ServerInit /\ WorkerInit /\ ExecutorInit /\ ToolsWorkerInit /\ BrowserInit
              /\ McpClientInit /\ AgentInit /\ CliInit /\ DownloadsInit
  BY DEF Init
<1>2. ASSUME [Next]_partvars
      PROVE  /\ [ServerNext]_servervars /\ [WorkerNext]_workervars /\ [ExecutorNext]_execvars
             /\ [ToolsWorkerNext]_twvars /\ [BrowserNext]_browservars /\ [McpClientNext]_mcvars
             /\ [AgentNext]_agvars /\ [CliNext]_clivars /\ [DownloadsNext]_dlvars
  BY <1>2 DEF Next, partvars
<1> QED
  BY <1>1, <1>2, PTL DEF Spec, ServerSpec, WorkerSpec, ExecutorSpec, ToolsWorkerSpec, BrowserSpec, McpClientSpec,
                         AgentSpec, CliSpec, DownloadsSpec

\* Every part keeps its types, beside the others as alone: the counters of dials,
\* jobs, sessions and blocks stay within their limits whatever a step adds to them.
THEOREM WorkerPartsTyped == Spec => []WorkerPartsTypeOK
<1>1. ServerSpec => []ServerTypeOK
  <2>1. ServerInit => SpawnsBounded
    BY ServerAssumption DEF ServerInit, SpawnsBounded
  <2>2. OneServerInv /\ SpawnsBounded => ServerTypeOK
    BY DEF OneServerInv, ServerTyped, ObjectRecords, SpawnsBounded, ServerTypeOK, llama
  <2> QED  BY <2>1, <2>2, OneServerInvStarts, OneServerInvKept, SpawnsAreBounded, PTL DEF ServerSpec
<1>2. WorkerSpec => []WorkerTypeOK
  <2>1. WorkerInit => WorkerTypeOK
    BY WorkerAssumption DEF WorkerInit, WorkerTypeOK
  <2> QED  BY <2>1, ExecutionInvStarts, ExecutionInvKept, WorkerTypesKept, PTL DEF WorkerSpec
<1>3. ExecutorSpec => []ExecTypeOK
  <2>1. ExecInv => ExecTypeOK
    BY DEF ExecInv
  <2> QED  BY <2>1, ExecInductive, PTL
<1>4. ToolsWorkerSpec => []TwTypeOK
  <2>1. ToolsWorkerInit => TwTypeOK /\ ToolJobsTyped
    <3> SUFFICES ASSUME ToolsWorkerInit PROVE TwTypeOK /\ ToolJobsTyped
      OBVIOUS
    <3>1. Len(<<>>) = 0 /\ <<>> \in Seq({"running", "retry", "told", "lost"})
      OBVIOUS
    <3>2. /\ twLink = "down" /\ twSocket = FALSE /\ twDelay = 0 /\ twSessions = 0 /\ twDone = FALSE
          /\ reloads = <<>> /\ advertised = 0 /\ carried = 0 /\ announced = 0 /\ raced = FALSE /\ toolJobs = <<>>
      BY Zenon DEF ToolsWorkerInit
    <3>3. 0 \in 0 .. MaxRetryDelay /\ 0 \in 0 .. MaxSessions /\ 0 \in 0 .. MaxPolicies /\ 0 <= MaxPolicies /\ 0 <= MaxToolJobs
      BY ToolsWorkerAssumption
    <3>4. Len(reloads) <= MaxPolicies /\ Len(toolJobs) <= MaxToolJobs /\ ToolJobsTyped
      BY <3>1, <3>2, <3>3 DEF ToolJobsTyped
    <3> QED  BY <3>2, <3>3, <3>4 DEF TwTypeOK
  <2> QED  BY <2>1, PolicyInvStarts, PolicyInvKept, ToolsTypesKept, PTL DEF ToolsWorkerSpec
<1>5. BrowserSpec => []BrowserTypeOK
  <2>1. BrowserInit => BrowserTypeOK
    BY BrowserAssumption DEF BrowserInit, BrowserTypeOK
  <2> QED  BY <2>1, BrowserInvStarts, BrowserInvKept, BrowserTypesKept, PTL DEF BrowserSpec
<1>6. McpClientSpec => []McpClientTypeOK
  <2>1. McpClientInit => LinesTyped
    BY McpClientAssumption DEF McpClientInit, LinesTyped
  <2> QED  BY <2>1, McpInvStarts, McpInvKept, LinesAreTyped, McpClientTypes, PTL DEF McpClientSpec
<1>7. AgentSpec => []AgTypeOK
  <2>1. ContextInv => AgTypeOK
    BY DEF ContextInv
  <2> QED  BY <2>1, ContextInvStarts, ContextInvKept, PTL DEF AgentSpec
<1>8. CliSpec => []CliTypeOK
  <2>1. CliInit => CliTypeOK /\ LateIsIgnored
    <3> SUFFICES ASSUME CliInit PROVE CliTypeOK /\ LateIsIgnored
      OBVIOUS
    <3>1. attempt = 1 /\ process = "none" /\ events = 0 /\ turn = NewTurn /\ proxied = {} /\ aborted = FALSE
          /\ claude = Unknown /\ reported = Silent
      BY Zenon DEF CliInit
    <3>2. Silent.kind = "none" /\ Unknown.mcp = {} /\ ~ Unknown.late
      BY DEF Silent, Unknown
    <3>3. NewTurn.pending = {}
      BY DEF NewTurn
    <3>4. turn.pending = {} /\ reported.kind = "none" /\ claude.mcp = {} /\ ~ claude.late
      BY <3>1, <3>2, <3>3
    <3>5. aborted \in BOOLEAN
      BY <3>1, Zenon
    <3>6. attempt = 1 /\ events = 0 /\ process = "none" /\ proxied = {}
      BY <3>1, Zenon
    <3> QED  BY <3>4, <3>5, <3>6, CliAssumption DEF CliTypeOK, LateIsIgnored
  <2>2. CallInv => RunInv
    BY DEF CallInv
  <2> QED  BY <2>1, <2>2, CallInvStarts, RunInvKept, CliTypesKept, PTL DEF CliSpec
<1>9. DownloadsSpec => []DlTypeOK
  <2>1. DownloadsInit => DlTypeOK
    <3> SUFFICES ASSUME DownloadsInit PROVE DlTypeOK
      OBVIOUS
    <3>1. FileBlocks \in Nat /\ 1 \in 1 .. MaxVersion
      BY DownloadsAssumption
    <3>2. Len(<<>>) = 0 /\ Len(Whole(1)) = FileBlocks
      BY <3>1, WholeFile
    <3>3. /\ published = 1 /\ bundle = 0 /\ tainted = {} /\ torn = FALSE
          /\ temp = [f \in Files |-> <<>>] /\ dest \in [Files -> {<<>>, Whole(1)}]
          /\ loader = [w \in Loaders |-> IdleLoader]
      BY Zenon DEF DownloadsInit
    <3>4. \A f \in Files : Len(temp[f]) = 0 /\ (dest[f] = <<>> \/ dest[f] = Whole(1))
      BY <3>2, <3>3
    <3>5. \A f \in Files : Len(temp[f]) <= 2 * FileBlocks /\ Len(dest[f]) <= 2 * FileBlocks
      BY <3>1, <3>2, <3>4
    <3>6. IdleLoader.at \in Files /\ IdleLoader.file = "none"
      BY DEF IdleLoader, Files
    <3>7. \A w \in Loaders : loader[w] = IdleLoader
      BY <3>3
    <3>8. bundle \in Steps
      BY <3>3 DEF Steps
    <3> QED  BY <3>1, <3>3, <3>5, <3>6, <3>7, <3>8 DEF DlTypeOK
  <2> QED  BY <2>1, DownloadsInvStarts, DownloadsInvKept, DownloadTypesKept, PTL DEF DownloadsSpec
<1>10. WorkerPartsTypeOK <=> /\ ServerTypeOK /\ WorkerTypeOK /\ ExecTypeOK /\ TwTypeOK /\ BrowserTypeOK
                             /\ McpClientTypeOK /\ AgTypeOK /\ CliTypeOK /\ DlTypeOK
  BY DEF WorkerPartsTypeOK
<1> QED
  BY <1>1, <1>2, <1>3, <1>4, <1>5, <1>6, <1>7, <1>8, <1>9, <1>10, WorkerPartsRun, PTL
===============================================================================
