---------------------------- MODULE BrowserSessions ----------------------------
(* The browser sessions of a tools worker: one per thread, made on the first     *)
(* call, kept alive by a listening loop, replaced when the sidecar has forgotten  *)
(* it, and closed when idle.  Calls of one thread may run at the same time.       *)
EXTENDS Naturals, Sequences, FiniteSets

CONSTANTS
  Threads,             \* threads that use the browser
  Callers,             \* tool jobs under way
  MaxBrowserSessions   \* sessions made

ASSUME BrowserAssumption == MaxBrowserSessions \in Nat

VARIABLES
  sidecar,    \* "off", "discovering", "up", "dead"
  sessions,   \* each session: its thread, the client's side, and whether the sidecar knows it
  registry,   \* Registry.sessions: thread to session, 0 for none
  callers,    \* each tool job: where it is, with which session, and on which try
  displaced   \* sessions taken out of the registry in the place of another

browservars == <<sidecar, sessions, registry, callers, displaced>>

NoCall == [at |-> "idle", sess |-> 0, try |-> 1]
Uses(c, s) == callers[c].sess = s /\ callers[c].at # "idle"

BrowserInit ==
  /\ sidecar = "off" /\ sessions = <<>> /\ registry = [t \in Threads |-> 0] /\ callers = [c \in Callers |-> NoCall]
  /\ displaced = {}

\* Start, and DiscoverTools on a session of its own; the built-in list if it fails.
SidecarStarts ==
  /\ sidecar = "off" /\ sidecar' \in {"up", "dead"} /\ UNCHANGED <<sessions, registry, callers, displaced>>
SidecarDies ==
  /\ sidecar = "up" /\ sidecar' = "dead" /\ sessions' = [s \in 1 .. Len(sessions) |-> [sessions[s] EXCEPT !.known = FALSE]]
  /\ UNCHANGED <<registry, callers, displaced>>
\* The sidecar drops one session: no answer to its pings, its own timeout.
SidecarForgets(s) ==
  /\ sessions[s].known /\ sessions' = [sessions EXCEPT ![s].known = FALSE]
  /\ UNCHANGED <<sidecar, registry, callers, displaced>>
-----------------------------------------------------------------------------
\* GetOrCreate: the session of the thread, found and, the registry's lock let go
\* in between, touched; or a new one, which others find before it is connected.
GetOrCreate(c, t, try) ==
  IF registry[t] # 0
  THEN /\ callers' = [callers EXCEPT ![c] = [at |-> "found", sess |-> registry[t], try |-> try]]
       /\ UNCHANGED <<sessions, registry>>
  ELSE /\ Len(sessions) < MaxBrowserSessions
       /\ sessions' = Append(sessions, [thread |-> t, side |-> "new", known |-> FALSE])
       /\ registry' = [registry EXCEPT ![t] = Len(sessions) + 1]
       /\ callers' = [callers EXCEPT ![c] = [at |-> "connecting", sess |-> Len(sessions) + 1, try |-> try]]
ExecuteCall(c, t) ==
  /\ sidecar # "off" /\ callers[c].at = "idle" /\ GetOrCreate(c, t, 1) /\ UNCHANGED <<sidecar, displaced>>
Touch(c) ==
  /\ callers[c].at = "found" /\ callers' = [callers EXCEPT ![c].at = "ready"]
  /\ UNCHANGED <<sidecar, sessions, registry, displaced>>
\* connect: the handshake gives it an id, then the listening loop starts.
Connect(c) ==
  /\ callers[c].at = "connecting" /\ sidecar = "up"
  /\ sessions' = [sessions EXCEPT ![callers[c].sess].side = "listening", ![callers[c].sess].known = TRUE]
  /\ callers' = [callers EXCEPT ![c].at = "ready"] /\ UNCHANGED <<sidecar, registry, displaced>>
\* The handshake fails, mostly before the session has an id: there is nothing to
\* tell the sidecar then.
ConnectFails(c) ==
  LET s == callers[c].sess
  IN  /\ callers[c].at = "connecting" /\ callers' = [callers EXCEPT ![c] = NoCall]
      /\ registry' = [registry EXCEPT ![sessions[s].thread] = 0]
      /\ displaced' = displaced \cup ({registry[sessions[s].thread]} \ {0, s})
      /\ \E side \in {"closing", "void"} : sessions' = [sessions EXCEPT ![s].side = side]
      /\ UNCHANGED sidecar

\* doCall: in flight until it is answered.
DoCall(c) ==
  /\ callers[c].at = "ready" /\ callers' = [callers EXCEPT ![c].at = "calling"]
  /\ UNCHANGED <<sidecar, sessions, registry, displaced>>
CallReturns(c) ==
  /\ callers[c].at = "calling" /\ callers' = [callers EXCEPT ![c] = NoCall]
  /\ UNCHANGED <<sidecar, sessions, registry, displaced>>
\* The sidecar has no such session: whatever the registry holds for the thread
\* goes, the dead session is closed, and the call is made once more.
CallFindsDead(c) ==
  LET s == callers[c].sess  t == sessions[s].thread
  IN  /\ callers[c].at = "calling" /\ callers[c].try = 1 /\ sidecar = "up"
      /\ sessions[s].side \notin {"new", "void"} /\ ~ sessions[s].known
      /\ registry' = [registry EXCEPT ![t] = 0]
      /\ displaced' = displaced \cup ({registry[t]} \ {0, s})
      /\ sessions' = [sessions EXCEPT ![s].side = IF @ = "closed" THEN @ ELSE "closing"]
      /\ callers' = [callers EXCEPT ![c].at = "evicted"] /\ UNCHANGED sidecar
CallAgain(c) ==
  /\ callers[c].at = "evicted" /\ GetOrCreate(c, sessions[callers[c].sess].thread, 2) /\ UNCHANGED <<sidecar, displaced>>
-----------------------------------------------------------------------------
\* The listening loop ends with a 404; the session stays in the registry.
ListenFindsDead(s) ==
  /\ sessions[s].side = "listening" /\ ~ sessions[s].known /\ sidecar = "up"
  /\ sessions' = [sessions EXCEPT ![s].side = "closing"] /\ UNCHANGED <<sidecar, registry, callers, displaced>>
\* A session that was touched, when it was made or by a call about to begin, has
\* thirty minutes; one in a call is spared.  A call that only found it is not seen.
Spared(s) == \E c \in Callers : Uses(c, s) /\ callers[c].at \in {"connecting", "ready", "calling"}
\* Mutant: an idle session leaves the registry but is not closed.
SweepUnclosed(t) ==
  /\ registry[t] # 0 /\ ~ Spared(registry[t])
  /\ registry' = [registry EXCEPT ![t] = 0] /\ UNCHANGED <<sidecar, sessions, callers, displaced>>
\* sweepOnce: thirty minutes without use, and no call in flight.
Sweep(t) ==
  LET s == registry[t]
  IN  /\ s # 0 /\ ~ Spared(s)
      /\ registry' = [registry EXCEPT ![t] = 0]
      /\ sessions' = [sessions EXCEPT ![s].side = IF @ = "closed" THEN @ ELSE "closing"] /\ UNCHANGED <<sidecar, callers, displaced>>
\* close: the sidecar is told, once, and the listening loop stops.
Close(s) ==
  /\ sessions[s].side = "closing" /\ sessions' = [sessions EXCEPT ![s].side = "closed", ![s].known = FALSE]
  /\ UNCHANGED <<sidecar, registry, callers, displaced>>

BrowserNext ==
  \/ SidecarStarts \/ SidecarDies
  \/ \E c \in Callers : \/ Touch(c) \/ Connect(c) \/ ConnectFails(c) \/ DoCall(c) \/ CallReturns(c) \/ CallFindsDead(c) \/ CallAgain(c)
                        \/ \E t \in Threads : ExecuteCall(c, t)
  \/ \E s \in 1 .. Len(sessions) : SidecarForgets(s) \/ ListenFindsDead(s) \/ Close(s)
  \/ \E t \in Threads : Sweep(t)
BrowserSpec == BrowserInit /\ [][BrowserNext]_browservars
-----------------------------------------------------------------------------
BrowserTypeOK ==
  /\ sidecar \in {"off", "up", "dead"} /\ Len(sessions) <= MaxBrowserSessions
  /\ registry \in [Threads -> 0 .. Len(sessions)] /\ displaced \subseteq 1 .. Len(sessions)
  /\ \A s \in 1 .. Len(sessions) : sessions[s].side \in {"new", "void", "listening", "closing", "closed"}

\* A session that listens, and so keeps its browser alive, can be found again,
\* or is one that was taken out in the place of a dead one it had replaced.  And
\* what the registry offers, the worker does not close while the sidecar knows it.
SessionsAreOwned ==
  \A s \in 1 .. Len(sessions) :
    /\ sessions[s].side \in {"new", "listening"} => registry[sessions[s].thread] = s \/ s \in displaced
    /\ sessions[s].side \in {"closing", "closed"} /\ registry[sessions[s].thread] = s => ~ sessions[s].known
=============================================================================
