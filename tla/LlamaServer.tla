----------------------------- MODULE LlamaServer -----------------------------
(* The inference server a GPU worker runs beside itself: llama-server, started *)
(* with fewer and fewer slots until it fits, restarted with a patched chat     *)
(* template, after a crash, and when the policy changes; or sd-server, which   *)
(* is started once and restarted after a crash.  A LlamaProcess object can     *)
(* start several operating-system processes, each watched by its own monitor.  *)
EXTENDS Naturals, Sequences, FiniteSets

CONSTANTS
  MaxSlots,    \* slots the first policy asks for
  MaxSpawns,   \* server processes started
  Updates      \* policy updates received

ASSUME ServerAssumption == MaxSlots \in Nat \ {0} /\ MaxSpawns \in Nat \ {0}

VARIABLES
  engine,      \* "llama" or "sd"
  objects,     \* the LlamaProcess objects: running flag, crash callback, slots
  servers,     \* the operating-system processes: object and life
  monitors,    \* the goroutine of each: "waits", "sleeps", "restarts", "over"
  starter,     \* run(): "dialing", "waiting", "patching", "rewaiting", "connecting", "serving", "exited"
  slots,       \* slots the worker runs with, and announces
  updater,     \* onPolicyUpdate of each update: "idle", "queued", "stopped", "waiting", "over"
  llamaMu,     \* who restarts the server
  swapped,     \* the worker left for a new model, or amid a restart
  unheard      \* a crash came before OnCrash was called, or a restart failed

servervars == <<engine, objects, servers, monitors, starter, slots, updater, llamaMu, swapped, unheard>>

llama == Len(objects)                   \* the variable llama: the newest object
Alive(s) == servers[s].life \in {"loading", "ready", "killed"}
Serving(s) == servers[s].life \in {"loading", "ready"}
ServersOf(o) == {s \in 1 .. Len(servers) : servers[s].obj = o}
IsReady(o) == \E s \in ServersOf(o) : servers[s].life = "ready"

ServerInit ==
  /\ engine \in {"llama", "sd"} /\ objects = <<>> /\ servers = <<>> /\ monitors = <<>>
  /\ slots = IF engine = "llama" THEN MaxSlots ELSE 1
  /\ starter = "dialing" /\ updater = [u \in Updates |-> "idle"] /\ llamaMu = "free"
  /\ swapped = FALSE /\ unheard = FALSE
-----------------------------------------------------------------------------
\* Start: a process and its monitor; fails if the object is running, or the
\* binary cannot be executed.
Spawn(o, objs) ==
  /\ Len(servers) < MaxSpawns /\ ~ objs[o].running
  /\ servers' = Append(servers, [obj |-> o, life |-> "loading"]) /\ monitors' = Append(monitors, "waits")
  /\ objects' = [objs EXCEPT ![o].running = TRUE]
NewObject(hook) == Append(objects, [running |-> FALSE, hook |-> hook, slots |-> slots])

\* Stop: clears the flag, interrupts the process, kills it after five seconds.
StopServer(o) ==
  /\ objects' = [objects EXCEPT ![o].running = FALSE]
  /\ IF objects[o].running /\ \E s \in ServersOf(o) : Serving(s)
     THEN \E life \in {"gone", "killed"} :
            servers' = [s \in 1 .. Len(servers) |-> IF s \in ServersOf(o) /\ Serving(s)
                                                   THEN [servers[s] EXCEPT !.life = life] ELSE servers[s]]
     ELSE UNCHANGED servers

\* One slot fewer, or give up.
DialDown ==
  /\ slots' = IF slots > 1 THEN slots - 1 ELSE slots
  /\ starter' = IF slots > 1 THEN "dialing" ELSE "exited"
DialStart ==
  /\ starter = "dialing"
  /\ \/ Spawn(llama + 1, NewObject(FALSE)) /\ starter' = "waiting" /\ UNCHANGED slots
     \/ objects' = NewObject(FALSE) /\ DialDown /\ UNCHANGED <<servers, monitors>>
  /\ UNCHANGED <<engine, updater, llamaMu, swapped, unheard>>
DialReady ==
  /\ starter = "waiting" /\ IsReady(llama) /\ starter' \in (IF engine = "llama" THEN {"patching", "connecting"} ELSE {"connecting"})
  /\ UNCHANGED <<engine, objects, servers, monitors, slots, updater, llamaMu, swapped, unheard>>
\* The server exited, took ten minutes, or the worker is shutting down.
DialNotReady ==
  /\ starter = "waiting" /\ StopServer(llama) /\ DialDown
  /\ UNCHANGED <<engine, monitors, updater, llamaMu, swapped, unheard>>

\* CheckReasoningSupport wrote a patched template: stop and start again.
PatchStop ==
  /\ starter = "patching" /\ StopServer(llama) /\ starter' = "repatching"
  /\ UNCHANGED <<engine, monitors, slots, updater, llamaMu, swapped, unheard>>
PatchStart ==
  /\ starter = "repatching"
  /\ \/ Spawn(llama + 1, NewObject(FALSE)) /\ starter' = "rewaiting"
     \/ objects' = NewObject(FALSE) /\ starter' = "exited" /\ UNCHANGED <<servers, monitors>>
  /\ UNCHANGED <<engine, slots, updater, llamaMu, swapped, unheard>>
PatchReady ==
  /\ starter = "rewaiting"
  /\ \/ IsReady(llama) /\ starter' = "connecting" /\ UNCHANGED <<objects, servers>>
     \/ StopServer(llama) /\ starter' = "exited"
  /\ UNCHANGED <<engine, monitors, slots, updater, llamaMu, swapped, unheard>>

\* Capabilities are read and the connection is made before OnCrash is called.
RegisterCrash ==
  /\ starter = "connecting" /\ starter' = "serving" /\ objects' = [objects EXCEPT ![llama].hook = TRUE]
  /\ UNCHANGED <<engine, servers, monitors, slots, updater, llamaMu, swapped, unheard>>
\* run() returns: the deferred Stop.  It does not wait for the lock: a restart
\* that is under way may start one more server before the process is gone.
Leave ==
  /\ starter \in {"connecting", "serving"} /\ StopServer(llama) /\ starter' = "exited"
  /\ swapped' = (llamaMu # "free" \/ (\E u \in Updates : updater[u] = "queued")
                  \/ (\E s \in 1 .. Len(monitors) : monitors[s] = "sleeps"))
  /\ UNCHANGED <<engine, monitors, slots, updater, llamaMu, unheard>>
-----------------------------------------------------------------------------
ServerLoads(s) ==
  /\ servers[s].life = "loading" /\ servers' = [servers EXCEPT ![s].life = "ready"]
  /\ UNCHANGED <<engine, objects, monitors, starter, slots, updater, llamaMu, swapped, unheard>>
ServerDies(s) ==
  /\ Alive(s) /\ servers' = [servers EXCEPT ![s].life = "gone"]
  /\ UNCHANGED <<engine, objects, monitors, starter, slots, updater, llamaMu, swapped, unheard>>

\* No callback is registered while the worker starts or an update waits.
TooEarly == starter # "serving" \/ \E u \in Updates : updater[u] = "waiting"
\* The monitor: an exit while running is a crash, and is told to whoever asked.
MonitorWakes(s) ==
  LET o == servers[s].obj
  IN  /\ monitors[s] = "waits" /\ servers[s].life = "gone" /\ starter # "exited"
      /\ objects' = [objects EXCEPT ![o].running = FALSE]
      /\ monitors' = [monitors EXCEPT ![s] = IF objects[o].running /\ objects[o].hook THEN "sleeps" ELSE "over"]
      /\ unheard' = (unheard \/ (objects[o].running /\ ~ objects[o].hook /\ TooEarly))
      /\ UNCHANGED <<engine, servers, starter, slots, updater, llamaMu, swapped>>

\* The crash callback: two seconds, the lock, Start on the current object.
CrashRestart(s) ==
  /\ monitors[s] = "sleeps" /\ llamaMu = "free" /\ starter # "exited"
  /\ \/ /\ Len(servers) < MaxSpawns /\ ~ objects[llama].running /\ llamaMu' = "crash" /\ UNCHANGED unheard
        /\ servers' = Append(servers, [obj |-> llama, life |-> "loading"])
        /\ monitors' = Append([monitors EXCEPT ![s] = "restarts"], "waits")
        /\ objects' = [objects EXCEPT ![llama].running = TRUE]
     \/ /\ monitors' = [monitors EXCEPT ![s] = "over"] /\ unheard' = (unheard \/ ~ objects[llama].running)
        /\ UNCHANGED <<objects, servers, llamaMu>>
  /\ UNCHANGED <<engine, starter, slots, updater, swapped>>
CrashRecovered(s) ==
  /\ monitors[s] = "restarts" /\ starter # "exited" /\ llamaMu' = "free" /\ monitors' = [monitors EXCEPT ![s] = "over"]
  /\ UNCHANGED <<engine, objects, servers, starter, slots, updater, swapped, unheard>>
-----------------------------------------------------------------------------
\* onPolicyUpdate, in a goroutine of its own: the same settings are skipped, a
\* new model ends the process without the deferred Stop.
PolicyUpdate(u) ==
  /\ engine = "llama" /\ starter = "serving" /\ updater[u] = "idle"
  /\ \/ updater' = [updater EXCEPT ![u] = "over"] /\ UNCHANGED <<starter, swapped>>
     \/ updater' = [updater EXCEPT ![u] = "queued"] /\ UNCHANGED <<starter, swapped>>
     \/ starter' = "exited" /\ swapped' = TRUE /\ UNCHANGED updater
  /\ UNCHANGED <<engine, objects, servers, monitors, slots, llamaMu, unheard>>
\* Mutant: the new server is started beside the old one.
UpdateBeside(u) ==
  /\ updater[u] = "queued" /\ llamaMu = "free" /\ starter # "exited"
  /\ updater' = [updater EXCEPT ![u] = "stopped"] /\ llamaMu' = "update"
  /\ UNCHANGED <<engine, objects, servers, monitors, starter, slots, swapped, unheard>>
UpdateStop(u) ==
  /\ updater[u] = "queued" /\ llamaMu = "free" /\ starter # "exited"
  /\ updater' = [updater EXCEPT ![u] = "stopped"] /\ llamaMu' = "update" /\ StopServer(llama)
  /\ UNCHANGED <<engine, monitors, starter, slots, swapped, unheard>>
UpdateStart(u) ==
  /\ updater[u] = "stopped" /\ starter # "exited"
  /\ \/ /\ Spawn(llama + 1, NewObject(FALSE)) /\ updater' = [updater EXCEPT ![u] = "waiting"]
        /\ UNCHANGED <<llamaMu, unheard>>
     \/ /\ objects' = NewObject(FALSE) /\ updater' = [updater EXCEPT ![u] = "over"] /\ llamaMu' = "free"
        /\ unheard' = TRUE /\ UNCHANGED <<servers, monitors>>
  /\ UNCHANGED <<engine, starter, slots, swapped>>
\* Mutant: the new object gets no crash callback.
UpdateUnheard(u) ==
  /\ updater[u] = "waiting" /\ starter # "exited" /\ updater' = [updater EXCEPT ![u] = "over"] /\ llamaMu' = "free"
  /\ unheard' = (unheard \/ ~ IsReady(llama))
  /\ UNCHANGED <<engine, objects, servers, monitors, starter, slots, swapped>>
\* The new object gets its crash callback once it is ready; if it is not, never.
UpdateReady(u) ==
  /\ updater[u] = "waiting" /\ starter # "exited" /\ updater' = [updater EXCEPT ![u] = "over"] /\ llamaMu' = "free"
  /\ \/ IsReady(llama) /\ objects' = [objects EXCEPT ![llama].hook = TRUE] /\ UNCHANGED unheard
     \/ ~ IsReady(llama) /\ unheard' = TRUE /\ UNCHANGED objects
  /\ UNCHANGED <<engine, servers, monitors, starter, slots, swapped>>

ServerNext ==
  \/ DialStart \/ DialReady \/ DialNotReady \/ PatchStop \/ PatchStart \/ PatchReady \/ RegisterCrash \/ Leave
  \/ \E s \in 1 .. Len(servers) : ServerLoads(s) \/ ServerDies(s) \/ MonitorWakes(s) \/ CrashRestart(s) \/ CrashRecovered(s)
  \/ \E u \in Updates : PolicyUpdate(u) \/ UpdateStop(u) \/ UpdateStart(u) \/ UpdateReady(u)
ServerSpec == ServerInit /\ [][ServerNext]_servervars
-----------------------------------------------------------------------------
ServerTypeOK ==
  /\ engine \in {"llama", "sd"} /\ slots \in 1 .. MaxSlots /\ Len(servers) <= MaxSpawns /\ Len(monitors) = Len(servers)
  /\ objects \in Seq([running : BOOLEAN, hook : BOOLEAN, slots : 1 .. MaxSlots])
  /\ \A s \in 1 .. Len(servers) : servers[s].obj \in 1 .. Len(objects)

\* Two servers never share the port and the memory of the GPU, but for one that
\* was killed and is going; and none is left when the worker has returned.
OneServer ==
  /\ Cardinality({s \in 1 .. Len(servers) : Serving(s)}) <= 1
  /\ starter = "exited" /\ ~ swapped => \A s \in 1 .. Len(servers) : ~ Serving(s)

Recovering ==
  \/ \E s \in 1 .. Len(servers) : monitors[s] \in {"sleeps", "restarts"} \/ (monitors[s] = "waits" /\ servers[s].life = "gone")
  \/ \E u \in Updates : updater[u] \in {"stopped", "waiting"}

\* A worker that takes jobs has a server, or someone is bringing one up, or it
\* gave up: the crash came before anyone asked to be told, or a restart failed.
DownHasReason ==
  starter = "serving" /\ ~ (\E s \in 1 .. Len(servers) : Serving(s)) => Recovering \/ unheard
=============================================================================
