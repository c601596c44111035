------------------------------ MODULE AgentWorker ------------------------------
(* The agent worker: it offers the server the context it reads in a workspace     *)
(* (SOUL.md and the files beside it), runs the tools and takes the uploads the     *)
(* server asks for, and pushes the context again when the files change. Every      *)
(* message is handled by a goroutine of its own.                                   *)
EXTENDS Naturals, FiniteSets

CONSTANTS
  Refreshers,  \* goroutines that may hold a context at once
  MaxRevision, \* changes made to the workspace
  MaxBackoff,  \* where the reconnect delay stops doubling
  MaxDials     \* connections made

ASSUME AgentAssumption == MaxRevision \in Nat /\ MaxBackoff \in Nat \ {0} /\ MaxDials \in Nat

VARIABLES
  agLink,        \* "down", "dialled", "hello", "up", "exited"
  agDelay,       \* backoff of the next dial
  dials,         \* connections so far
  workspace,     \* its revision, whether SOUL.md is there, whether it loads
  bootstrapping, \* Worker.bootstrap
  offer,         \* the context read for a hello that is yet to be written
  told,          \* the context the server was last given on this connection
  watching,      \* the file watcher runs
  debounce,      \* its timer: never made, armed, fired
  held,          \* what each refreshing goroutine read and has yet to push
  agTool,        \* a tool call: "none", "running", "told", "lost"
  upload,        \* an upload: "none", "temporary", "placed", "told", "refused"
  missed         \* since the last lone refresh: "no", refreshes overlapped: "overlap", a change went unseen: "unseen"

agvars == <<agLink, agDelay, dials, workspace, bootstrapping, offer, told, watching, debounce, held, agTool, upload, missed>>

\* A context is the revision it was built from; without SOUL.md it is a fixed prompt.
Bootstrap == MaxRevision + 1
Nothing == MaxRevision + 2
SystemPrompt == IF workspace.soul THEN workspace.rev ELSE Bootstrap
Readable == workspace.soul => workspace.loads
Refreshing == {g \in Refreshers : held[g] # Nothing}
Noted(alone) == IF alone THEN "no" ELSE IF missed = "unseen" THEN missed ELSE "overlap"
Connected == agLink \in {"dialled", "hello", "up"}

AgentInit ==
  /\ agLink = "down" /\ agDelay = 1 /\ dials = 0 /\ bootstrapping = FALSE
  /\ workspace \in [rev : {0}, soul : BOOLEAN, loads : {TRUE}]
  /\ offer = Nothing /\ told = Nothing /\ watching = FALSE /\ debounce = "none" /\ missed = "no"
  /\ held = [g \in Refreshers |-> Nothing] /\ agTool = "none" /\ upload = "none"
-----------------------------------------------------------------------------
\* connectAndRun fails or ends: the watcher and its timer go with the connection.
Backed == IF agDelay < MaxBackoff THEN 2 * agDelay ELSE agDelay
Dropped ==
  /\ agLink' = "down" /\ agDelay' = Backed /\ offer' = Nothing /\ told' = Nothing
  /\ watching' = FALSE /\ debounce' = "none"

\* The connection is published, then the workspace is read, then the hello is
\* written: a tool of an earlier connection may end, and push, in between.
AgentDial ==
  /\ agLink = "down" /\ dials < MaxDials /\ dials' = dials + 1
  /\ \/ agLink' = "dialled" /\ UNCHANGED <<agDelay, offer, told, watching, debounce>>
     \/ Dropped
  /\ UNCHANGED <<workspace, bootstrapping, held, agTool, upload, missed>>
AgentRead ==
  /\ agLink = "dialled" /\ offer = Nothing
  /\ \/ /\ Readable /\ offer' = SystemPrompt /\ bootstrapping' = ~ workspace.soul /\ missed' = Noted(Refreshing = {})
        /\ UNCHANGED <<agLink, agDelay, told, watching, debounce>>
     \/ ~ Readable /\ Dropped /\ UNCHANGED <<bootstrapping, missed>>
  /\ UNCHANGED <<dials, workspace, held, agTool, upload>>
AgentHello ==
  /\ agLink = "dialled" /\ offer # Nothing
  /\ \/ agLink' = "hello" /\ told' = offer /\ offer' = Nothing /\ UNCHANGED <<agDelay, watching, debounce>>
     \/ Dropped
  /\ UNCHANGED <<dials, workspace, bootstrapping, held, agTool, upload, missed>>
AgentHelloAck ==
  /\ agLink = "hello"
  /\ \/ agLink' = "up" /\ agDelay' = 1 /\ UNCHANGED <<offer, told, watching, debounce>>
     \/ Dropped
  /\ UNCHANGED <<dials, workspace, bootstrapping, held, agTool, upload, missed>>
Lost ==
  /\ agLink = "up" /\ Dropped
  /\ UNCHANGED <<dials, workspace, bootstrapping, held, agTool, upload, missed>>
AgentExit ==
  /\ agLink # "exited" /\ agLink' = "exited" /\ watching' = FALSE /\ debounce' = "none"
  /\ offer' = Nothing /\ told' = Nothing
  /\ UNCHANGED <<agDelay, dials, workspace, bootstrapping, held, agTool, upload, missed>>
-----------------------------------------------------------------------------
\* runPromptFileWatcher: it may fail to start; an event arms the timer anew.
WatchStarts ==
  /\ agLink = "up" /\ ~ watching /\ watching' = TRUE
  /\ UNCHANGED <<agLink, agDelay, dials, workspace, bootstrapping, offer, told, debounce, held, agTool, upload, missed>>
\* Mutant: a change while the timer's refresh is under way does not rearm it.
ScheduleOnce == debounce' = IF debounce = "none" THEN "armed" ELSE debounce
Schedule == debounce' = "armed"
\* Someone edits the workspace. Files of a directory made after the watcher started are not seen.
Change ==
  /\ workspace.rev < MaxRevision /\ agLink # "exited"
  /\ \E soul, loads \in BOOLEAN : workspace' = [rev |-> workspace.rev + 1, soul |-> soul, loads |-> loads]
  /\ \/ watching /\ Schedule /\ UNCHANGED missed
     \/ missed' = "unseen" /\ UNCHANGED debounce
  /\ UNCHANGED <<agLink, agDelay, dials, bootstrapping, offer, told, watching, held, agTool, upload>>
\* sendContextUpdate and maybeLeaveBootstrapAfterTool read the workspace, then push what they read.
Read(g) ==
  IF Readable
  THEN /\ held' = [held EXCEPT ![g] = SystemPrompt] /\ missed' = Noted(Refreshing = {} /\ offer = Nothing)
       /\ bootstrapping' = (bootstrapping /\ ~ workspace.soul)
  ELSE UNCHANGED <<held, missed, bootstrapping>>
Refresh(g) ==
  /\ agLink = "up" /\ held[g] = Nothing /\ Read(g)
  /\ UNCHANGED <<agLink, agDelay, dials, workspace, offer, told, watching, debounce, agTool, upload>>
DebounceFires(g) ==
  /\ debounce = "armed" /\ held[g] = Nothing /\ debounce' = "fired" /\ Read(g)
  /\ UNCHANGED <<agLink, agDelay, dials, workspace, offer, told, watching, agTool, upload>>
\* Written to whatever connection there is; before the hello it is no context yet.
Push(g) ==
  /\ held[g] # Nothing /\ held' = [held EXCEPT ![g] = Nothing]
  /\ told' = IF agLink \in {"hello", "up"} THEN held[g] ELSE told
  /\ UNCHANGED <<agLink, agDelay, dials, workspace, bootstrapping, offer, watching, debounce, agTool, upload, missed>>
-----------------------------------------------------------------------------
ToolExecute ==
  /\ agLink = "up" /\ agTool # "running" /\ agTool' = "running"
  /\ UNCHANGED <<agLink, agDelay, dials, workspace, bootstrapping, offer, told, watching, debounce, held, upload, missed>>
\* The result or the error goes to whichever connection is there. Only a tool that
\* succeeded looks whether SOUL.md has appeared.
ToolEnds(g) ==
  /\ agTool = "running" /\ agTool' = IF Connected THEN "told" ELSE "lost"
  /\ \/ bootstrapping /\ workspace.soul /\ held[g] = Nothing /\ Read(g)
     \/ UNCHANGED <<held, missed, bootstrapping>>
  /\ UNCHANGED <<agLink, agDelay, dials, workspace, offer, told, watching, debounce, upload>>
\* handleFileUpload: a temporary name first, then the one the server is told.
FileUpload ==
  /\ \/ agLink = "up" /\ upload \notin {"temporary", "placed"} /\ upload' \in {"temporary", "refused"}
     \/ upload = "temporary" /\ upload' \in {"placed", "refused"}
     \/ upload = "placed" /\ upload' = IF Connected THEN "told" ELSE "none"
  /\ UNCHANGED <<agLink, agDelay, dials, workspace, bootstrapping, offer, told, watching, debounce, held, agTool, missed>>

AgentNext ==
  \/ AgentDial \/ AgentRead \/ AgentHello \/ AgentHelloAck \/ Lost \/ AgentExit \/ WatchStarts \/ Change \/ ToolExecute \/ FileUpload
  \/ \E g \in Refreshers : Refresh(g) \/ DebounceFires(g) \/ Push(g) \/ ToolEnds(g)
AgentSpec == AgentInit /\ [][AgentNext]_agvars
-----------------------------------------------------------------------------
AgTypeOK ==
  /\ agLink \in {"down", "dialled", "hello", "up", "exited"} /\ agDelay \in 1 .. 2 * MaxBackoff /\ dials \in 0 .. MaxDials
  /\ workspace \in [rev : 0 .. MaxRevision, soul : BOOLEAN, loads : BOOLEAN] /\ bootstrapping \in BOOLEAN
  /\ offer \in 0 .. Nothing /\ told \in 0 .. Nothing /\ held \in [Refreshers -> 0 .. Nothing]
  /\ watching \in BOOLEAN /\ missed \in {"no", "overlap", "unseen"} /\ debounce \in {"none", "armed", "fired"}

\* When nothing is left to be done the server holds the context of the workspace as it
\* is; except when a change was made that no watch covered, or two refreshes overlapped
\* and the one that read first may have spoken last.
ContextCatchesUp ==
  agLink = "up" /\ Refreshing = {} /\ debounce # "armed" /\ Readable /\ missed = "no" => told = SystemPrompt
=============================================================================
