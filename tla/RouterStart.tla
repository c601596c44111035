----------------------------- MODULE RouterStart -----------------------------
(* How a router comes to serve: the setup command makes keys, the operator     *)
(* puts their hashes where the router reads them, LoadConfig resolves the      *)
(* model in the registry, main starts Redis and the server, and a worker that  *)
(* says hello is told its policy.  A key and its hash are the number of the    *)
(* setup that made them.                                                       *)
EXTENDS Naturals, Sequences, SequencesExt

CONSTANT MaxSetups  \* setup commands run

ASSUME StartAssumption == MaxSetups \in Nat \ {0}

VARIABLES
  environ,   \* the key hashes in the process environment
  dotenv,    \* the key hashes in the .env file
  setups,    \* setup commands run so far
  shown,     \* roles whose keys the last of them showed
  printed,   \* hashes it printed for the operator to copy
  applied,   \* whether they are where the router reads them
  catalog,   \* the rows of the model registry
  wanted,    \* the other variables of the router's environment
  config,    \* what LoadConfig returned
  router,    \* "down", "configured", "redis", "serving", "draining"
  greeting   \* the last policy sent to a worker

startvars == <<environ, dotenv, setups, shown, printed, applied, catalog, wanted, config, router, greeting>>
keyvars == <<environ, dotenv, setups, shown, printed, applied>>

Unset == 0
Old == MaxSetups + 1  \* a key of another installation
KeyRoles == {"admin", "api", "tools"}
NoHashes == [r \in KeyRoles |-> Unset]

\* godotenv.Load: a variable that is set wins over the file.
Effective == [r \in KeyRoles |-> IF environ[r] # Unset THEN environ[r] ELSE dotenv[r]]

Row(name, quant, maxctx) == [id |-> name \o "-" \o quant, name |-> name, quant |-> quant, maxctx |-> maxctx]
Quants == {"Q4_K_M", "Q8_0", "IQ3_S", "F16"}
Variants == {Row("m", q, 262144) : q \in Quants}
Catalogs == {Append(rows, Row("n", "Q4_K_S", 8192)) : rows \in {r \in BoundedSeq(Variants, 2) : IsInjective(r)}}
Environments == [model : {"m", "n", "m-F16", "x"}, quant : {"none", "Q8_0"}, type : {"gpu", "cli"},
                 ctx : {4096, 131072}]
\* While the router is down.
NoConfig == [keys |-> NoHashes, run |-> "none"]
NoEnvironment == [type |-> "none"]
NoGreeting == [worker |-> "none"]

StartInit ==
  /\ environ \in {NoHashes, [NoHashes EXCEPT !.tools = Old], [r \in KeyRoles |-> Old]} /\ dotenv = NoHashes
  /\ setups = 0 /\ shown = {} /\ printed = NoHashes /\ applied = FALSE
  /\ catalog = <<>> /\ wanted = NoEnvironment /\ config = NoConfig /\ router = "down" /\ greeting = NoGreeting
-----------------------------------------------------------------------------
\* Mutant: a tools key is shown although the configured one is kept.
ShownAlways(tools) == KeyRoles
\* runSetup keeps a tools key that is configured: it neither shows nor writes a new one.
Shown(tools) == IF tools = Unset THEN KeyRoles ELSE KeyRoles \ {"tools"}
Hashes(roles) == [r \in KeyRoles |-> IF r \in roles THEN setups + 1 ELSE Unset]

CanSetUp == router = "down" /\ setups < MaxSetups
\* setup --write-env refuses to overwrite a .env file.
SetupWriteEnv ==
  /\ CanSetUp /\ dotenv = NoHashes
  /\ shown' = Shown(Effective.tools) /\ dotenv' = Hashes(shown') /\ applied' = TRUE
  /\ setups' = setups + 1 /\ printed' = NoHashes
  /\ UNCHANGED <<environ, catalog, wanted, config, router, greeting>>
SetupPrint(roles) ==
  /\ CanSetUp /\ shown' = roles /\ printed' = Hashes(roles) /\ applied' = FALSE
  /\ setups' = setups + 1 /\ UNCHANGED <<environ, dotenv, catalog, wanted, config, router, greeting>>
Setup == SetupPrint(Shown(Effective.tools))
SetupCLI == SetupPrint({"admin", "api"})
NewToolsKey == SetupPrint({"tools"})
\* fly secrets set: the three hashes become the environment of the deployment.
SetupFly ==
  /\ CanSetUp /\ shown' = KeyRoles /\ environ' = Hashes(KeyRoles) /\ applied' = TRUE
  /\ setups' = setups + 1 /\ printed' = NoHashes
  /\ UNCHANGED <<dotenv, catalog, wanted, config, router, greeting>>

\* The operator copies what setup printed: a tools key to wherever one is set,
\* everything else to .env.
OperatorCopies ==
  /\ router = "down" /\ printed # NoHashes
  /\ LET inEnv == IF environ.tools # Unset THEN {"tools"} ELSE {}
         Take(old, roles) == [r \in KeyRoles |-> IF r \in roles /\ printed[r] # Unset THEN printed[r] ELSE old[r]]
     IN  environ' = Take(environ, inEnv) /\ dotenv' = Take(dotenv, KeyRoles \ inEnv)
  /\ printed' = NoHashes /\ applied' = TRUE
  /\ UNCHANGED <<setups, shown, catalog, wanted, config, router, greeting>>
-----------------------------------------------------------------------------
Preferred == <<"Q4_K_S", "Q4_K_M", "Q5_K_S", "Q5_K_M", "Q6_K", "Q8_0">>
\* The places in the registry of the rows that match.
FindByID(rows, id) == {n \in DOMAIN rows : rows[n].id = id}
FindByName(rows, name) == {n \in DOMAIN rows : rows[n].name = name}
WithQuant(rows, variants, quant) == {n \in variants : rows[n].quant = quant}
FindByNameAndQuant(rows, name, quant) == WithQuant(rows, FindByName(rows, name), quant)

\* Mutant: the registry's first row of the name.
AutoSelectFirst(rows, variants) == variants
\* Those of the first of the preferred quantizations, else those that are not F16,
\* else all.
AutoSelect(rows, variants) ==
  LET some == {p \in DOMAIN Preferred : WithQuant(rows, variants, Preferred[p]) # {}}
      plain == {n \in variants : rows[n].quant # "F16"}
  IN  IF some # {} THEN WithQuant(rows, variants, Preferred[Min(some)])
      ELSE IF plain # {} THEN plain ELSE variants
\* The candidates; resolveModel takes the first in the registry and fails without one.
ResolveModel(rows, model, quant) ==
  IF FindByID(rows, model) # {} THEN FindByID(rows, model)
  ELSE IF quant # "none" THEN FindByNameAndQuant(rows, model, quant)
  ELSE AutoSelect(rows, FindByName(rows, model))

\* The context of a CLI router is 200000 unless it was set.
CLIConfig(w) == [model |-> w.model, quant |-> "none", ctx |-> IF w.ctx = 131072 THEN 200000 ELSE w.ctx, parallel |-> 1]
GPUConfig(w, row) == [model |-> row.name, quant |-> row.quant, parallel |-> 2,
                      ctx |-> IF w.ctx > row.maxctx THEN row.maxctx ELSE w.ctx]

LoadConfig ==
  /\ router = "down" /\ Effective.admin # Unset /\ Effective.api # Unset
  /\ catalog' \in Catalogs /\ wanted' \in Environments
  /\ LET found == ResolveModel(catalog', wanted'.model, wanted'.quant)
     IN  IF wanted'.type = "cli" THEN config' = [keys |-> Effective, run |-> CLIConfig(wanted')]
         ELSE found # {} /\ config' = [keys |-> Effective, run |-> GPUConfig(wanted', catalog'[Min(found)])]
  /\ router' = "configured" /\ UNCHANGED <<keyvars, greeting>>
\* The process starts over with nothing.
Exits ==
  /\ router' = "down" /\ catalog' = <<>> /\ wanted' = NoEnvironment /\ config' = NoConfig /\ greeting' = NoGreeting
  /\ UNCHANGED keyvars
EntersPhase(phase) == router' = phase /\ UNCHANGED <<keyvars, catalog, wanted, config, greeting>>
\* Without AUXOT_REDIS_URL main starts a Redis of its own and turns its clock.
StartRedis == router = "configured" /\ (EntersPhase("redis") \/ Exits)
\* NewServer needs Redis to answer and the consumer group to exist.
NewServer == router = "redis" /\ (EntersPhase("serving") \/ Exits)

IsCLIBackend(backend) == backend \in {"claude", "cursor", "codex"}
\* Mutant: every CLI worker is told the configured model.
CLIModelConfigured(announced) == config.run.model
\* In mixed mode the configured model is the GPU model: a CLI worker keeps its own.
CLIModel(announced) == IF wanted.type = "cli" THEN config.run.model ELSE announced
HandleHello ==
  /\ router = "serving" /\ greeting = NoGreeting
  /\ \E backend \in {"llama.cpp", "codex"} :
       greeting' = IF wanted.type = "cli" \/ IsCLIBackend(backend)
                   THEN [worker |-> "cli", backend |-> backend, model |-> CLIModel("announced"), ctx |-> 200000, parallel |-> 1]
                   ELSE [worker |-> "gpu", backend |-> backend, model |-> config.run.model, ctx |-> config.run.ctx,
                         parallel |-> config.run.parallel]
  /\ UNCHANGED <<keyvars, catalog, wanted, config, router>>

\* A signal, or a listener that fails, ends Start; Shutdown drains for ten seconds.
Shutdown == router = "serving" /\ (EntersPhase("draining") \/ Exits)
Exit == router = "draining" /\ Exits

StartNext ==
  \/ SetupWriteEnv \/ Setup \/ SetupCLI \/ NewToolsKey \/ SetupFly \/ OperatorCopies
  \/ LoadConfig \/ StartRedis \/ NewServer \/ HandleHello \/ Shutdown \/ Exit
StartSpec == StartInit /\ [][StartNext]_startvars
-----------------------------------------------------------------------------
StartTypeOK ==
  /\ setups \in 0 .. MaxSetups /\ shown \subseteq KeyRoles /\ applied \in BOOLEAN
  /\ environ \in [KeyRoles -> 0 .. Old] /\ dotenv \in [KeyRoles -> 0 .. Old] /\ printed \in [KeyRoles -> 0 .. Old]
  /\ router \in {"down", "configured", "redis", "serving", "draining"}

\* Once what setup showed is in place the router takes the keys it showed.  Only
\* a GPU or API key of the environment may stand above the one in .env.
KeysShownWork ==
  router = "serving" /\ applied =>
    \A r \in shown : r = "tools" \/ environ[r] = Unset => config.keys[r] = setups

Rank(quant) == IF quant = "F16" THEN 8 ELSE IF quant \in ToSet(Preferred) THEN CHOOSE i \in 1 .. 6 : Preferred[i] = quant ELSE 7

\* A GPU router serves a model of the registry within its context; the asked
\* quantization, or one that no row of that name ranks above.
ModelResolved ==
  router = "serving" /\ wanted.type = "gpu" =>
    \E v \in ToSet(catalog) :
      /\ v.name = config.run.model /\ v.quant = config.run.quant /\ config.run.ctx <= v.maxctx
      /\ \/ v.id = wanted.model
         \/ v.name = wanted.model /\ wanted.quant = v.quant
         \/ /\ v.name = wanted.model /\ wanted.quant = "none"
            /\ \A u \in ToSet(catalog) : u.name = v.name => Rank(v.quant) <= Rank(u.quant)

\* A worker is told to load a model only if the registry has it, and a CLI
\* worker is never given the name of a GPU model.
PolicyRunnable ==
  greeting # NoGreeting =>
    /\ greeting.worker = "gpu" => ~ IsCLIBackend(greeting.backend) /\ \E v \in ToSet(catalog) : v.name = greeting.model
    /\ greeting.worker = "cli" => greeting.model = "announced" \/ wanted.type = "cli"
=============================================================================
