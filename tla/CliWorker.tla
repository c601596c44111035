------------------------------- MODULE CliWorker -------------------------------
(* A job on a CLI worker: the conversation becomes a session file, the claude      *)
(* process streams events, and what they amount to is reported. A job of the       *)
(* server's own tools has them executed while claude runs ("live"); one with a     *)
(* caller's tools is killed once claude has named the tools to call ("deny").      *)
EXTENDS Naturals, Sequences, SequencesExt, FiniteSets

CONSTANTS MaxEvents  \* lines of claude's output in a run

ASSUME CliAssumption == MaxEvents \in Nat

VARIABLES
  cliMode,   \* "none": no tools, "live" or "deny"
  chat,      \* the messages of the job
  session,   \* the session file and what is written to claude's stdin
  attempt,   \* runs of the process
  process,   \* "none", "running", "exited"
  events,    \* lines of output so far
  turn,      \* what runJobOnce has gathered
  proxied,   \* tool calls that reached the live proxy
  aborted,   \* the job was cancelled
  claude,    \* the calls claude made in its first batch and which of them were executed
  reported   \* what RunJob told the server

clivars == <<cliMode, chat, session, attempt, process, events, turn, proxied, aborted, claude, reported>>

Message(role, image) == [role |-> role, image |-> image]
User == Message("user", FALSE)
Shot == Message("user", TRUE)
Says == Message("assistant", FALSE)
Result == Message("tool", TRUE)
Chats == {<<User>>, <<User, Says, Shot>>, <<User, Says, User, User>>, <<Shot, Says, Result, Result>>, <<User, Result>>}
-----------------------------------------------------------------------------
LastRole(s, roles) == IF \E n \in DOMAIN s : s[n].role \in roles
                      THEN CHOOSE n \in DOMAIN s : s[n].role \in roles /\ \A m \in n + 1 .. Len(s) : s[m].role \notin roles
                      ELSE 0
\* buildSessionFile: the history that goes before what claude is asked now. After tool
\* results the whole conversation is history; otherwise it stops at the last reply.
Continues(s) ==
  LET tail == SubSeq(s, LastRole(s, {"user"}) + 1, Len(s)) IN
  /\ LastRole(s, {"user"}) # 0
  /\ \A n \in DOMAIN tail : tail[n].role \in {"tool", "assistant"}
  /\ \E n \in DOMAIN tail : tail[n].role = "tool"
Before(s) == IF Continues(s) THEN s ELSE SubSeq(s, 1, LastRole(s, {"user"}) - 1)
Resumed(s) ==
  LET last == LastRole(Before(s), {"assistant"}) IN
  IF last = 0 THEN <<>> ELSE IF Continues(s) THEN s ELSE SubSeq(Before(s), 1, last)
\* Entries of the file: results in a row make one user entry.
Entries(h) ==
  FoldLeft(LAMBDA out, m :
    IF m.role = "tool" /\ out # <<>> /\ Last(out).role = "tool"
    THEN Append(Front(out), [Last(out) EXCEPT !.image = @ \/ m.image])
    ELSE Append(out, m), <<>>, h)
Prompt(s) == IF LastRole(s, {"user"}) = 0 THEN <<>> ELSE IF Continues(s) THEN <<"Continue.">> ELSE <<s[LastRole(s, {"user"})]>>
Session(s) == [file |-> Entries(Resumed(s)), stdin |-> Prompt(s)]

\* The recoveries of RunJob: no images at all, or only the last one of the present turn
\* and the oldest fifth of the conversation gone.
Bare(m) == [m EXCEPT !.image = FALSE]
NoImages(s) == [n \in DOMAIN s |-> Bare(s[n])]
LastImage(s) == [n \in DOMAIN s |->
  IF n < LastRole(s, {"user"}) \/ \E m \in n + 1 .. Len(s) : s[m].image THEN Bare(s[n]) ELSE s[n]]
Oldest(s) == LET fifth == Len(s) \div 5 IN
             LET drop == IF fifth < 1 THEN 1 ELSE fifth IN IF drop >= Len(s) THEN Len(s) \div 2 ELSE drop
Trimmed(s) == SubSeq(s, Oldest(s) + 1, Len(s))
-----------------------------------------------------------------------------
NewTurn == [full |-> <<>>, pre |-> <<>>, post |-> <<>>, shown |-> <<>>, calls |-> <<>>, pending |-> {},
            done |-> {}, captured |-> {}, mcp |-> FALSE, answered |-> FALSE, batch |-> FALSE,
            stdin |-> TRUE, killed |-> FALSE]
Unknown == [mcp |-> {}, builtin |-> {}, answered |-> {}, executed |-> {}, closed |-> FALSE, late |-> FALSE]
Silent == [kind |-> "none", pre |-> <<>>, post |-> <<>>, calls |-> {}, resolved |-> {}]
Told(kind) == [Silent EXCEPT !.kind = kind]

CliInit ==
  /\ cliMode \in {"none", "live", "deny"} /\ chat \in Chats /\ session = Session(<<>>)
  /\ attempt = 1 /\ process = "none" /\ events = 0 /\ turn = NewTurn /\ proxied = {}
  /\ aborted = FALSE /\ claude = Unknown /\ reported = Silent

\* runJobOnce up to cmd.Start: the files, the proxy and the process may fail.
Start ==
  /\ process = "none" /\ reported.kind = "none" /\ events = 0
  /\ session' = Session(chat)
  /\ \/ process' = "running" /\ UNCHANGED reported
     \/ process' = "exited" /\ reported' = Told("error")
  /\ UNCHANGED <<cliMode, chat, attempt, events, turn, proxied, aborted, claude>>

Event(t) == process = "running" /\ events < MaxEvents /\ events' = events + 1 /\ turn' = t
Line == UNCHANGED <<cliMode, chat, session, attempt, process, aborted, reported>>
\* After the batch is complete claude only retries what was denied.
Ignored == turn.batch /\ turn.calls # <<>>
\* Text before a tool's result and after it is kept apart; on the deny path what follows
\* a call is claude retrying.
WithText(x) ==
  IF Ignored THEN turn
  ELSE LET t == [turn EXCEPT !.full = Append(@, x)] IN
       IF turn.mcp /\ cliMode # "live" THEN t
       ELSE IF turn.answered THEN [t EXCEPT !.post = Append(@, x), !.shown = Append(@, x)]
       ELSE [t EXCEPT !.pre = Append(@, x), !.shown = Append(@, x)]
Text == \E x \in {"word", "too long"} : Event(WithText(x)) /\ Line /\ UNCHANGED <<proxied, claude>>
WithCall(id) == IF Ignored THEN turn ELSE [turn EXCEPT !.calls = Append(@, id), !.mcp = TRUE]
CallTool ==
  /\ cliMode # "none" /\ Event(WithCall(events)) /\ Line /\ UNCHANGED proxied
  /\ claude' = IF claude.closed THEN claude ELSE [claude EXCEPT !.mcp = @ \union {events}, !.late = @ \/ Ignored]
CallBuiltin ==
  /\ Event(IF Ignored THEN turn ELSE [turn EXCEPT !.pending = @ \union {events}]) /\ Line /\ UNCHANGED proxied
  /\ claude' = IF claude.closed THEN claude ELSE [claude EXCEPT !.builtin = @ \union {events}, !.late = @ \/ Ignored]
-----------------------------------------------------------------------------
\* Mutant: claude is killed although its own tools still run.
KilledAtOnce(t) == IF t.batch /\ t.calls # <<>> /\ t.stdin THEN [t EXCEPT !.stdin = FALSE, !.killed = TRUE] ELSE t
\* Killed closes stdin and cancels the process, once every builtin call has its result.
Killed(t) == IF t.batch /\ t.calls # <<>> /\ t.pending = {} /\ t.stdin
             THEN [t EXCEPT !.stdin = FALSE, !.killed = TRUE] ELSE t
BuiltinResult ==
  \E id \in claude.builtin \ claude.answered :
    /\ Event(IF id \in turn.pending
             THEN Killed([turn EXCEPT !.pending = @ \ {id}, !.done = @ \union {id}, !.answered = TRUE])
             ELSE IF cliMode = "live" THEN [turn EXCEPT !.captured = @ \union {id}, !.answered = TRUE] ELSE turn)
    /\ claude' = [claude EXCEPT !.answered = @ \union {id}] /\ Line /\ UNCHANGED proxied
\* tools/call of a live job: the MCP subprocess posts it to the proxy of the worker and
\* waits, one call at a time; the answer comes back to claude, which echoes it.
Waiting == {id \in claude.mcp : id \in proxied /\ id \notin claude.executed}
ToolCall ==
  /\ process = "running" /\ cliMode = "live" /\ Waiting = {}
  /\ \E id \in claude.mcp \ proxied : proxied' = proxied \union {id}
  /\ UNCHANGED <<cliMode, chat, session, attempt, process, events, turn, aborted, claude, reported>>
ToolResult ==
  /\ process = "running" /\ \E id \in Waiting : claude' = [claude EXCEPT !.executed = @ \union {id}]
  /\ UNCHANGED <<cliMode, chat, session, attempt, process, events, turn, proxied, aborted, reported>>
LiveResult ==
  \E id \in claude.executed \ turn.captured :
    Event([turn EXCEPT !.captured = @ \union {id}, !.answered = TRUE]) /\ Line /\ UNCHANGED <<proxied, claude>>
StopRun == process' = "exited" /\ UNCHANGED <<cliMode, chat, session, attempt, events, turn, proxied, claude>>
\* rate_limit_event ends each turn of the model; a limit that was hit ends the run.
Allowed ==
  /\ Event(IF cliMode = "live" THEN turn ELSE Killed([turn EXCEPT !.batch = TRUE])) /\ Line /\ UNCHANGED proxied
  /\ claude' = [claude EXCEPT !.closed = @ \/ (cliMode = "deny" /\ claude.mcp # {})]
Limited ==
  /\ process = "running" /\ StopRun /\ UNCHANGED aborted
  /\ reported' = IF attempt = 1 THEN Told("overload") ELSE reported
ResultEvent == Event([turn EXCEPT !.stdin = FALSE]) /\ turn.stdin /\ Line /\ UNCHANGED <<proxied, claude>>
Abort ==
  /\ process = "running" /\ ~ aborted /\ aborted' = TRUE
  /\ UNCHANGED <<cliMode, chat, session, attempt, process, events, turn, proxied, claude, reported>>
-----------------------------------------------------------------------------
\* RunJob runs the process once more; what the second run would retry is dropped.
Retry(messages) ==
  IF attempt = 2 THEN StopRun /\ UNCHANGED <<aborted, reported>>
  ELSE /\ attempt' = 2 /\ chat' = messages /\ process' = "none" /\ events' = 0 /\ turn' = NewTurn
       /\ proxied' = {} /\ claude' = Unknown /\ UNCHANGED <<cliMode, session, aborted, reported>>
\* Calls that were executed while claude ran are resolved, with what claude was seen to
\* be told; the others are for the server to dispatch.
Unresolved == IF cliMode = "live" THEN {} ELSE ToSet(turn.calls)
Resolved == {<<id, TRUE>> : id \in turn.done}
            \union IF cliMode = "live" THEN {<<id, id \in turn.captured>> : id \in ToSet(turn.calls)} ELSE {}
Completes ==
  IF Unresolved = {} /\ Resolved = {} /\ "too long" \in ToSet(turn.full)
  THEN Retry(Trimmed(LastImage(chat)))
  ELSE /\ StopRun /\ UNCHANGED aborted
       /\ reported' = [kind |-> "complete",
                       pre |-> IF Unresolved = {} /\ Resolved = {} THEN turn.full ELSE turn.pre,
                       post |-> IF Unresolved = {} /\ Resolved # {} THEN turn.post ELSE <<>>,
                       calls |-> Unresolved, resolved |-> Resolved]
\* The output ends. A run that failed without a word is retried or reported as an error;
\* one that had begun to answer counts as complete.
Exited ==
  /\ process = "running"
  /\ \E status \in {"ok", "error", "cache", "image"} :
       LET failed == status # "ok" \/ aborted \/ turn.killed
           mute == turn.calls = <<>> /\ turn.full = <<>> IN
       IF failed /\ mute /\ aborted THEN StopRun /\ UNCHANGED <<aborted, reported>>
       ELSE IF failed /\ mute /\ status = "cache" THEN Retry(chat)
       ELSE IF failed /\ mute /\ status = "image" THEN Retry(NoImages(chat))
       ELSE IF failed /\ mute THEN StopRun /\ reported' = Told("error") /\ UNCHANGED aborted
       ELSE Completes

CliNext ==
  \/ Start \/ Text \/ CallTool \/ CallBuiltin \/ BuiltinResult \/ ToolCall \/ ToolResult \/ LiveResult
  \/ Allowed \/ Limited \/ ResultEvent \/ Abort \/ Exited
CliSpec == CliInit /\ [][CliNext]_clivars
-----------------------------------------------------------------------------
CliTypeOK ==
  /\ attempt \in 1 .. 2 /\ process \in {"none", "running", "exited"} /\ events \in 0 .. MaxEvents
  /\ reported.kind \in {"none", "complete", "error", "overload"} /\ aborted \in BOOLEAN
  /\ proxied \subseteq claude.mcp /\ turn.pending \subseteq claude.builtin

\* What a run is reported to have called is what claude called: a call is handed to the
\* server or given as resolved, never both, and killing claude for its calls discards no
\* result of its own tools. Except after a turn that ended without a call, when the
\* batch is already marked and a second call in a later turn goes unread.
CallsAreReportedOnce ==
  reported.kind = "complete" /\ ~ claude.late =>
    /\ reported.calls \union {r[1] : r \in reported.resolved} = claude.mcp \union turn.done
    /\ \A r \in reported.resolved : r[1] \notin reported.calls
    /\ \A id \in claude.mcp : <<id, TRUE>> \in reported.resolved => id \in claude.executed
    /\ turn.killed => claude.builtin \subseteq turn.done
=============================================================================
