---------------------------- MODULE MCWorkerParts ----------------------------
(* Model checking of the parts of the worker programs. They share no state with *)
(* each other: each behaviour runs one of them, the others stay as they start,  *)
(* and one search visits the states of all of them.                             *)
EXTENDS LlamaServer, WorkerProcess, Executor, ToolsWorker, BrowserSessions, McpClient,
        AgentWorker, CliWorker, Downloads, TLC

VARIABLE focus  \* the part that runs

partvars == <<focus, servervars, workervars, execvars, twvars, browservars, mcvars, agvars, clivars, dlvars>>

\* One of the states a part may start in, for the behaviours that leave it alone.
Resting ==
  /\ IF focus = "server" THEN TRUE ELSE engine = "llama"
  /\ IF focus = "worker" THEN TRUE ELSE backend = "gpu"
  /\ IF focus = "executor" THEN TRUE ELSE image = FALSE /\ effort = "none" /\ history = <<"system", "user">>
  /\ IF focus = "agent" THEN TRUE ELSE workspace = [rev |-> 0, soul |-> TRUE, loads |-> TRUE]
  /\ IF focus = "cli" THEN TRUE ELSE cliMode = "none" /\ chat = <<User>>
  /\ IF focus = "downloads" THEN TRUE ELSE plan = "split"

Init ==
  /\ focus \in {"server", "worker", "executor", "tools", "browser", "mcp", "agent", "cli", "downloads"}
  /\ Resting
  /\ ServerInit /\ WorkerInit /\ ToolsWorkerInit /\ BrowserInit /\ McpClientInit
  /\ AgentInit /\ CliInit /\ DownloadsInit /\ ExecutorInit

Next ==
  \/ /\ focus = "server" /\ ServerNext
     /\ UNCHANGED <<focus, workervars, execvars, twvars, browservars, mcvars, agvars, clivars, dlvars>>
  \/ /\ focus = "worker" /\ WorkerNext
     /\ UNCHANGED <<focus, servervars, execvars, twvars, browservars, mcvars, agvars, clivars, dlvars>>
  \/ /\ focus = "executor" /\ ExecutorNext
     /\ UNCHANGED <<focus, servervars, workervars, twvars, browservars, mcvars, agvars, clivars, dlvars>>
  \/ /\ focus = "tools" /\ ToolsWorkerNext
     /\ UNCHANGED <<focus, servervars, workervars, execvars, browservars, mcvars, agvars, clivars, dlvars>>
  \/ /\ focus = "browser" /\ BrowserNext
     /\ UNCHANGED <<focus, servervars, workervars, execvars, twvars, mcvars, agvars, clivars, dlvars>>
  \/ /\ focus = "mcp" /\ McpClientNext
     /\ UNCHANGED <<focus, servervars, workervars, execvars, twvars, browservars, agvars, clivars, dlvars>>
  \/ /\ focus = "agent" /\ AgentNext
     /\ UNCHANGED <<focus, servervars, workervars, execvars, twvars, browservars, mcvars, clivars, dlvars>>
  \/ /\ focus = "cli" /\ CliNext
     /\ UNCHANGED <<focus, servervars, workervars, execvars, twvars, browservars, mcvars, agvars, dlvars>>
  \/ /\ focus = "downloads" /\ DownloadsNext
     /\ UNCHANGED <<focus, servervars, workervars, execvars, twvars, browservars, mcvars, agvars, clivars>>

Spec == Init /\ [][Next]_partvars

\* Processes of one host are alike.
Interchangeable == Permutations(Loaders)

\* Every variable of every part, the resting ones included, has its type: the
\* code's enumerations, counters within their limits, records of known shape.
WorkerPartsTypeOK ==
  /\ ServerTypeOK /\ WorkerTypeOK /\ ExecTypeOK /\ TwTypeOK /\ BrowserTypeOK
  /\ McpClientTypeOK /\ AgTypeOK /\ CliTypeOK /\ DlTypeOK
=============================================================================
