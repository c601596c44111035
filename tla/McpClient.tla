------------------------------- MODULE McpClient -------------------------------
(* The MCP calls of a tools worker.  A stdio server is a package, installed once *)
(* for all its callers, and a process that lives for one call or introspection;   *)
(* an HTTP server is a handshake and a request, each a POST of its own.           *)
EXTENDS Naturals, Sequences, FiniteSets

CONSTANTS
  McpCallers,   \* tool jobs, introspections and validations
  Packages,     \* package@version
  MaxLines      \* lines a server writes that nobody reads yet

ASSUME McpClientAssumption == MaxLines \in Nat

VARIABLES
  installs,     \* McpInstaller.states: "none", "running", "ok", "failed"
  installRuns,  \* how often each package's install was started
  mcpCalls,     \* each caller: what it is, its step, and what it ended with
  processes,    \* the stdio server of each caller: "none", "alive", "gone"
  lines,        \* what that server wrote and the reader passed on: the id, 0 for none, and if it is a reply
  mcpSession    \* the session id an HTTP caller sends: "none", "given"

mcvars == <<installs, installRuns, mcpCalls, processes, lines, mcpSession>>

Kinds == {"call", "validate"}
Ready == [package |-> "none", kind |-> "none", step |-> "idle", got |-> "none"]
\* "request": the server's own request was taken for the reply.
Ended == {"result", "request", "error"}

McpClientInit ==
  /\ installs = [p \in Packages |-> "none"] /\ installRuns = [p \in Packages |-> 0]
  /\ mcpCalls = [c \in McpCallers |-> Ready] /\ processes = [c \in McpCallers |-> "none"]
  /\ lines = [c \in McpCallers |-> <<>>] /\ mcpSession = [c \in McpCallers |-> "none"]

Step(c, step) == mcpCalls' = [mcpCalls EXCEPT ![c].step = step]
\* Whatever ends a call kills its server; the deferred Kill.
End(c, got) ==
  /\ mcpCalls' = [mcpCalls EXCEPT ![c].step = "over", ![c].got = got]
  /\ processes' = [processes EXCEPT ![c] = IF @ = "alive" THEN "gone" ELSE @]
-----------------------------------------------------------------------------
\* EnsureInstalled: the first caller of a package starts the install, all wait.
\* validate_configuration does not install: the runner fetches what it needs.
EnsureInstalled(c, p) ==
  /\ mcpCalls[c].step = "idle"
  /\ mcpCalls' = [mcpCalls EXCEPT ![c] = [package |-> p, kind |-> "call", step |-> "installing", got |-> "none"]]
  /\ installs' = [installs EXCEPT ![p] = IF @ = "none" THEN "running" ELSE @]
  /\ installRuns' = [installRuns EXCEPT ![p] = @ + (IF installs[p] = "none" THEN 1 ELSE 0)]
  /\ UNCHANGED <<processes, lines, mcpSession>>
Validate(c, p) ==
  /\ mcpCalls[c].step = "idle"
  /\ mcpCalls' = [mcpCalls EXCEPT ![c] = [package |-> p, kind |-> "validate", step |-> "starting", got |-> "none"]]
  /\ UNCHANGED <<installs, installRuns, processes, lines, mcpSession>>
InstallEnds(p) ==
  /\ installs[p] = "running" /\ \E end \in {"ok", "failed"} : installs' = [installs EXCEPT ![p] = end]
  /\ UNCHANGED <<installRuns, mcpCalls, processes, lines, mcpSession>>
\* The install of the package is over, or the caller's time is.  A failure is
\* kept: no later call tries again.
Installed(c) ==
  LET p == mcpCalls[c].package
  IN  /\ mcpCalls[c].step = "installing" /\ UNCHANGED <<installs, installRuns, lines, mcpSession>>
      /\ \/ installs[p] = "ok" /\ Step(c, "starting") /\ UNCHANGED processes
         \/ installs[p] = "failed" /\ End(c, "error")
         \/ End(c, "error")

\* McpExecute and McpIntrospect: initialize is request 1, the rest request 2.
StartServer(c) ==
  /\ mcpCalls[c].step = "starting" /\ UNCHANGED <<installs, installRuns, lines, mcpSession>>
  /\ \/ Step(c, "initializing") /\ processes' = [processes EXCEPT ![c] = "alive"]
     \/ End(c, "error")
\* The server writes a reply, one it gave before included; a log line or a
\* notification; or a request of its own, a ping, whose id is its own count.
Replies(c) == {1} \cup (IF mcpCalls[c].step = "calling" THEN {2} ELSE {})
ServerWrites(c) ==
  /\ processes[c] = "alive" /\ Len(lines[c]) < MaxLines
  /\ \E line \in [id : Replies(c), reply : {TRUE}] \cup [id : {0, 1, 2}, reply : {FALSE}] :
       lines' = [lines EXCEPT ![c] = Append(@, line)]
  /\ UNCHANGED <<installs, installRuns, mcpCalls, processes, mcpSession>>
ServerExits(c) ==
  /\ processes[c] = "alive" /\ processes' = [processes EXCEPT ![c] = "gone"]
  /\ UNCHANGED <<installs, installRuns, mcpCalls, lines, mcpSession>>
\* readResp: lines for another id are passed over; nothing but the id is compared.
Wanted(c) == IF mcpCalls[c].step = "initializing" THEN 1 ELSE 2
\* Mutant: any line with an id is taken for the reply.
AwaitedAny(line, want) == line.id # 0
Awaited(line, want) == line.id = want
Taken(line) == IF line.id # 2 THEN "stray" ELSE IF line.reply THEN "result" ELSE "request"
ReadLine(c) ==
  /\ mcpCalls[c].step \in {"initializing", "calling"} /\ mcpCalls[c].package # "http" /\ lines[c] # <<>>
  /\ lines' = [lines EXCEPT ![c] = Tail(@)] /\ UNCHANGED <<installs, installRuns, mcpSession>>
  /\ IF ~ Awaited(Head(lines[c]), Wanted(c)) THEN UNCHANGED <<mcpCalls, processes>>
     ELSE \/ mcpCalls[c].step = "initializing" /\ Step(c, "calling") /\ UNCHANGED processes
          \/ /\ mcpCalls[c].step = "calling" /\ processes' = [processes EXCEPT ![c] = IF @ = "alive" THEN "gone" ELSE @]
             /\ mcpCalls' = [mcpCalls EXCEPT ![c].step = "over", ![c].got = Taken(Head(lines[c]))]
          \/ End(c, "error")
\* No line came: the server closed its output, or the time is over.
ReadFails(c) ==
  /\ mcpCalls[c].step \in {"initializing", "calling"} /\ mcpCalls[c].package # "http" /\ lines[c] = <<>> /\ End(c, "error")
  /\ UNCHANGED <<installs, installRuns, lines, mcpSession>>
-----------------------------------------------------------------------------
\* McpHttpExecute and McpHttpIntrospect: each POST answers itself.  When the
\* notification's POST fails the session id is lost, and the call goes on.
HttpCall(c) ==
  /\ mcpCalls[c].step = "idle" /\ UNCHANGED <<installs, installRuns, processes, lines>>
  /\ \/ \E given \in {"none", "given"} :
          /\ mcpCalls' = [mcpCalls EXCEPT ![c] = [package |-> "http", kind |-> "call", step |-> "initializing", got |-> "none"]]
          /\ mcpSession' = [mcpSession EXCEPT ![c] = given]
     \/ mcpCalls' = [mcpCalls EXCEPT ![c] = [package |-> "http", kind |-> "call", step |-> "over", got |-> "error"]] /\ UNCHANGED mcpSession
HttpInitialized(c) ==
  /\ mcpCalls[c].package = "http" /\ mcpCalls[c].step = "initializing" /\ Step(c, "calling")
  /\ \E sent \in {mcpSession[c], "none"} : mcpSession' = [mcpSession EXCEPT ![c] = sent]
  /\ UNCHANGED <<installs, installRuns, processes, lines>>
HttpReturns(c) ==
  /\ mcpCalls[c].package = "http" /\ mcpCalls[c].step = "calling" /\ \E got \in Ended : End(c, got)
  /\ UNCHANGED <<installs, installRuns, lines, mcpSession>>

McpClientNext ==
  \/ \E p \in Packages : InstallEnds(p)
  \/ \E c \in McpCallers : \/ Installed(c) \/ StartServer(c) \/ ServerWrites(c) \/ ServerExits(c) \/ ReadLine(c) \/ ReadFails(c)
                           \/ HttpCall(c) \/ HttpInitialized(c) \/ HttpReturns(c)
                           \/ \E p \in Packages : EnsureInstalled(c, p) \/ Validate(c, p)
McpClientSpec == McpClientInit /\ [][McpClientNext]_mcvars
-----------------------------------------------------------------------------
McpClientTypeOK ==
  /\ installs \in [Packages -> {"none", "running", "ok", "failed"}]
  /\ \A c \in McpCallers : mcpCalls[c].step \in {"idle", "installing", "starting", "initializing", "calling", "over"}
  /\ processes \in [McpCallers -> {"none", "alive", "gone"}] /\ \A c \in McpCallers : Len(lines[c]) <= MaxLines

\* A package is installed once, however many callers want it and however their
\* waits end; a call runs its server only after that install succeeded, kills it
\* when it ends, and ends with an error or with a line that has its request's id.
CallsEndInOrder ==
  /\ \A p \in Packages : installRuns[p] <= 1
  /\ \A c \in McpCallers :
       /\ processes[c] # "none" /\ mcpCalls[c].kind = "call" => installs[mcpCalls[c].package] = "ok"
       /\ mcpCalls[c].step = "over" => processes[c] # "alive" /\ mcpCalls[c].got \in Ended
=============================================================================
