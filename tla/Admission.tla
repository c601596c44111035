------------------------------ MODULE Admission ------------------------------
(* How a request reaches a handler of the router: the /v1 normalisation, the   *)
(* routes of the four HTTP handlers and the WebSocket hello, and the key check  *)
(* with its cache of Argon2 verdicts.  One request is in progress; the cache    *)
(* keeps the verdicts of the requests before it, and the MCP handler the        *)
(* sessions they opened: a message to one of those brings no key.               *)
EXTENDS Naturals, FiniteSets

CONSTANTS
  CacheBound,  \* verdicts in the cache at most; it has no bound in the code
  SessionIds   \* ids of MCP sessions, drawn at random and never used again

ASSUME AdmissionAssumption == CacheBound \in Nat \ {0}

Keys == {"admin", "api", "tools", "unknown"}    \* "admin" is the key whose hash is the admin hash
Roles == {"admin", "api", "tools"}

VARIABLES
  toolsKey,  \* AUXOT_TOOLS_KEY_HASH is set
  verdicts,  \* the cache: [key, hash, valid]
  opener,    \* opener[s]: the key of the request that opened session s
  streams,   \* the MCP sessions whose SSE stream is open
  ask,       \* the request: [to, v1s, key, session]
  stage,     \* "idle", "routed", "hashing", "answered"
  reply      \* what the client is told

sessions == <<opener, streams>>
admvars == <<toolsKey, verdicts, sessions, ask, stage, reply>>

\* Endpoints by handler.  Open ones have no key check, and a message to an MCP
\* session none but the one its session was opened with.
OpenAI == {"chat", "chat_list", "chat_get", "chat_delete", "chat_messages", "legacy", "embeddings", "models", "model"}
Anthropic == {"messages", "count_tokens", "batches", "batch", "a_models", "a_model", "a_other"}
Tools == {"tools_list", "tools_execute", "mcp_sse"}
MCPMessages == {"mcp_message"}
Sockets == {"gpu_hello", "tools_hello"}
Open == {"health", "nowhere"}
Endpoints == OpenAI \cup Anthropic \cup Tools \cup MCPMessages \cup Sockets \cup Open

AdmTypeOK ==
  /\ toolsKey \in BOOLEAN /\ Cardinality(verdicts) <= CacheBound
  /\ verdicts \subseteq [key : Keys, hash : Roles, valid : BOOLEAN]
  /\ opener \in [SessionIds -> Keys \cup {"none"}] /\ streams \subseteq SessionIds
  /\ ask \in [to : Endpoints, v1s : 0 .. 2, key : Keys \cup {"none"}, session : SessionIds \cup {"none"}]
  /\ stage \in {"idle", "routed", "hashing", "answered"}
  /\ reply \in {"nothing", "served", "unauthorized", "not_found", "not_implemented", "refused"}

Nobody == [to |-> "health", v1s |-> 0, key |-> "none", session |-> "none"]
AdmissionInit ==
  /\ toolsKey \in BOOLEAN /\ verdicts = {} /\ stage = "idle" /\ reply = "nothing"
  /\ ask = Nobody /\ opener = [s \in SessionIds |-> "none"] /\ streams = {}

\* v1Tolerant: how many /v1 segments are left of the n the client sent.
AfterV1(to, n) ==
  IF to \in OpenAI THEN 0 ELSE IF to \in Anthropic THEN 1 ELSE n

\* The routes.  OpenAI paths have no /v1 and Anthropic paths one.
Routed(to, n) ==
  CASE to \in OpenAI -> IF n = 0 THEN "handler" ELSE "not_implemented"
    [] to \in Anthropic -> IF n = 1 THEN "handler" ELSE "not_found"
    [] to \in Tools \cup MCPMessages -> IF n = 0 /\ toolsKey THEN "handler" ELSE "not_found"
    [] to = "tools_hello" -> IF toolsKey THEN "handler" ELSE "refused"
    [] to = "nowhere" -> "not_found"
    [] OTHER -> "handler"

\* The hash a handler has its key compared with.
Hash(to) == CASE to = "gpu_hello" -> "admin" [] to = "tools_hello" -> "tools" [] OTHER -> "api"

\* Argon2: the key is the one whose hash is configured.
Matches(key, hash) == key = hash

Arrive ==
  /\ stage = "idle"
  /\ \E to \in Endpoints, n \in 0 .. 2, key \in Keys \cup {"none"}, s \in SessionIds \cup {"none"} :
       /\ n > 0 => to \in OpenAI \cup Anthropic
       /\ s # "none" => to \in MCPMessages
       /\ ask' = [to |-> to, v1s |-> n, key |-> key, session |-> s]
       /\ LET r == Routed(to, AfterV1(to, n)) IN
          IF r # "handler" THEN stage' = "answered" /\ reply' = r
          ELSE IF to = "health" THEN stage' = "answered" /\ reply' = "served"
          ELSE stage' = "routed" /\ reply' = "nothing"
  /\ UNCHANGED <<toolsKey, verdicts, sessions>>

Leave ==
  /\ stage = "answered" /\ stage' = "idle" /\ ask' = Nobody /\ reply' = "nothing"
  /\ UNCHANGED <<toolsKey, verdicts, sessions>>

\* handleSSE gives the client a session; no other handler has one to give.
OpenSession ==
  IF ask.to # "mcp_sse" THEN UNCHANGED sessions
  ELSE \E s \in SessionIds :
         /\ opener[s] = "none" /\ opener' = [opener EXCEPT ![s] = ask.key]
         /\ streams' = streams \cup {s}

\* A key that is right lets the handler go on.
Answer(valid) ==
  /\ stage' = "answered" /\ reply' = IF valid THEN "served" ELSE "unauthorized"
  /\ IF valid THEN OpenSession ELSE UNCHANGED sessions

\* A request whose handler has a key to check.
AsksForKey == stage = "routed" /\ ask.to \notin MCPMessages

\* requireAuth: no key is turned away before the verifier is asked; an
\* Anthropic client sends it as x-api-key or as a Bearer token.
MissingKey ==
  /\ AsksForKey /\ ask.key = "none" /\ Answer(FALSE)
  /\ UNCHANGED <<toolsKey, verdicts, ask>>

\* Mutant: verdicts are cached by key alone.
SameVerdictOfKey(c, key, hash) == c.key = key
\* verifyWithCache: what is cached is the key and the hash it was compared with.
SameVerdict(c, key, hash) == c.key = key /\ c.hash = hash
CacheHit ==
  /\ AsksForKey /\ ask.key # "none"
  /\ \E c \in verdicts : SameVerdict(c, ask.key, Hash(ask.to)) /\ Answer(c.valid)
  /\ UNCHANGED <<toolsKey, verdicts, ask>>
CacheMiss ==
  /\ AsksForKey /\ ask.key # "none"
  /\ ~ \E c \in verdicts : SameVerdict(c, ask.key, Hash(ask.to))
  /\ stage' = "hashing" /\ UNCHANGED <<toolsKey, verdicts, sessions, ask, reply>>
Verify ==
  /\ stage = "hashing"
  /\ LET valid == Matches(ask.key, Hash(ask.to)) IN
     /\ Cardinality(verdicts) < CacheBound
     /\ verdicts' = verdicts \cup {[key |-> ask.key, hash |-> Hash(ask.to), valid |-> valid]}
     /\ Answer(valid)
  /\ UNCHANGED <<toolsKey, ask>>
\* A verdict is not used after its TTL; it is replaced by the next one.
VerdictExpires ==
  /\ \E c \in verdicts : verdicts' = verdicts \ {c}
  /\ UNCHANGED <<toolsKey, sessions, ask, stage, reply>>

\* handleMessage looks for the session the message names and for no key.
MessageToSession ==
  /\ stage = "routed" /\ ask.to \in MCPMessages
  /\ stage' = "answered" /\ reply' = IF ask.session \in streams THEN "served" ELSE "not_found"
  /\ UNCHANGED <<toolsKey, verdicts, sessions, ask>>
\* The client of a session leaves its stream, which forgets the session.
SessionEnds ==
  /\ \E s \in streams : streams' = streams \ {s}
  /\ UNCHANGED <<toolsKey, verdicts, opener, ask, stage, reply>>

AdmissionNext ==
  \/ Arrive \/ Leave \/ MissingKey \/ CacheHit \/ CacheMiss \/ Verify \/ VerdictExpires
  \/ MessageToSession \/ SessionEnds
AdmissionSpec == AdmissionInit /\ [][AdmissionNext]_admvars
-----------------------------------------------------------------------------
\* The role whose key an endpoint asks for, as the comments on the routes state it.
RoleOf(to) ==
  CASE to \in OpenAI \cup Anthropic \cup Tools -> "api"
    [] to = "gpu_hello" -> "admin" [] to = "tools_hello" -> "tools" [] OTHER -> "nobody"

\* The request asks for something this router has.
Exists == ask.to # "nowhere" /\ (ask.to \in Tools \cup MCPMessages \cup {"tools_hello"} => toolsKey)

\* Whatever verdicts are cached and however the path spells /v1, a request that
\* exists on this router is served exactly if it brings the key of its role.  A
\* message to an MCP session is served exactly if the session is open, whatever
\* key it brings or does not: it was an API key, though, that opened the session.
ServedByRole ==
  stage = "answered" /\ Exists =>
    IF ask.to \in MCPMessages
    THEN /\ reply = "served" => ask.session \in SessionIds /\ opener[ask.session] = "api"
         /\ ask.session \in streams => reply = "served"
    ELSE reply = "served" <=> RoleOf(ask.to) = "nobody" \/ ask.key = RoleOf(ask.to)
=============================================================================
