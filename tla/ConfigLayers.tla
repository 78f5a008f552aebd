---------------------------- MODULE ConfigLayers ----------------------------
(***************************************************************************)
(* cuma-config: how a layer (global file, project file, environment,       *)
(* flags) goes over the layers below it (merge.rs, env.rs, apply_cli_      *)
(* overrides), and what a merged configuration must satisfy (validate of   *)
(* model.rs and sandbox.rs).                                               *)
(*                                                                         *)
(* A layer is a whole configuration in which what was not written has its  *)
(* default value, for that is all that parsing leaves of it. One field of  *)
(* each kind stands for the fields merged the same way: strategy and       *)
(* weights, retries for the scalars, cost for the options, allowlist for   *)
(* the lists and agents, sandboxes and mcp, the tables.                    *)
(***************************************************************************)
EXTENDS Integers, FiniteSets

Absent == -1
Empty == [x \in {} |-> x]

\* A preset stands for its five numbers; Manual has those of Balanced.
Preset(strategy) ==
  CASE strategy = "Manual" -> "Balanced"
    [] strategy \in {"LocalFirst", "PrivacyFirst"} -> "Local"
    [] OTHER -> strategy

Default ==
  [strategy |-> "Balanced", weights |-> "Balanced", retries |-> 3, parallel |-> 4,
   cost |-> Absent, allowlist |-> {}, trusted |-> {}, requireSandbox |-> FALSE,
   sandbox |-> TRUE, agentSandbox |-> "auto", memoryServer |-> "none",
   agents |-> Empty, sandboxes |-> Empty, mcp |-> Empty]

\* merge_field, merge_option and merge_collection.
Over(below, above, default) == IF above # default THEN above ELSE below

\* A layer that only chooses a strategy brings its weights.
WeightsOver(below, above) ==
  IF above.weights # "Balanced" THEN above.weights
  ELSE IF above.strategy # "Balanced" THEN Preset(above.strategy)
  ELSE below.weights

\* A table is merged by key: the entries of both, and the one of the layer above
\* where both have one.
Onto(below, above) ==
  [x \in DOMAIN below \cup DOMAIN above |->
     IF x \in DOMAIN above THEN above[x] ELSE below[x]]

Merge(below, above) ==
  [f \in DOMAIN Default |->
     CASE f = "weights" -> WeightsOver(below, above)
       [] f \in {"agents", "sandboxes", "mcp"} -> Onto(below[f], above[f])
       [] OTHER -> Over(below[f], above[f], Default[f])]

\* env::apply and apply_cli_overrides set what was given, and a strategy
\* always brings its weights; flags are a smaller set of fields.
Set(config, given) ==
  [f \in DOMAIN config |->
     IF f = "weights" /\ "strategy" \in DOMAIN given THEN Preset(given.strategy)
     ELSE IF f \in DOMAIN given THEN given[f] ELSE config[f]]

-----------------------------------------------------------------------------
\* SandboxSettings::validate: the keys of each kind that must be well formed
\* (set, absolute, a URL, positive, a label...), and those of which exactly one
\* must be set. A section is its kind, the keys that are and the native runtime it
\* names.
MustHold(kind) ==
  CASE kind = "native" -> {"runtime"}
    [] kind = "docker" -> {"image", "program", "network", "home"}
    [] kind = "microsandbox" -> {"image", "program", "home", "secrets", "env"}
    [] kind = "arcbox" -> {"program", "ttl_secs"}
    [] kind = "kubernetes" -> {"program", "namespace", "container", "ready_timeout_secs",
                               "lifetime_secs"}
    [] kind = "e2b" -> {"api_url", "domain", "template", "user", "envd_scheme", "envd_port",
                        "timeout_secs", "api_key_ref"}
    [] kind = "opensandbox" -> {"server_url", "image", "cpu", "memory", "tunnel_port",
                                "timeout_secs", "api_key_ref"}
    [] kind = "wasmer" -> {"program"}
    [] kind = "command" -> {"prefix", "isolation"}
    [] kind = "plugin" -> {"program", "timeout_secs"}
OneOf(kind) ==
  CASE kind = "arcbox" -> {"image", "template", "dockerfile"}
    [] kind = "kubernetes" -> {"image", "warm_pool"}
    [] OTHER -> {}
SandboxValid(s) ==
  /\ MustHold(s.kind) \subseteq s.keys
  /\ OneOf(s.kind) # {} => Cardinality(OneOf(s.kind) \cap s.keys) = 1

BuiltIn == {"auto", "ai-jail", "bubblewrap", "sandbox-exec", "firejail"}
KnownSandbox(config, name) == name \in BuiltIn \cup DOMAIN config.sandboxes

\* Config::validate.
Valid(config) ==
  /\ config.weights # "zero"
  /\ config.parallel >= 1 /\ config.retries <= 10
  /\ config.cost = Absent \/ config.cost > 0
  /\ config.memoryServer = "none" \/ config.memoryServer \in DOMAIN config.mcp
  /\ \A name \in DOMAIN config.sandboxes :
       name \notin BuiltIn /\ SandboxValid(config.sandboxes[name])
  /\ KnownSandbox(config, config.agentSandbox)
  /\ \A a \in DOMAIN config.agents :
       config.agents[a].sandbox = "default" \/ KnownSandbox(config, config.agents[a].sandbox)

\* Config::load: the default, the global file, the project's, the environment.
Load(global, project, env) == Set(Merge(Merge(Default, global), project), env)

-----------------------------------------------------------------------------
\* Registry::for_agent of cuma-sandbox, by name; "none" with sandboxing off.
SandboxOf(config, a) ==
  IF ~config.sandbox THEN "none"
  ELSE IF config.agents[a].sandbox = "default" THEN config.agentSandbox
  ELSE config.agents[a].sandbox

\* AgentSandbox::detect and detect_only of confine.rs: the first native runtime
\* that works, or the one that is named if it does.
Runtimes == <<"ai-jail", "bubblewrap", "sandbox-exec", "firejail">>
Detect(name, works) ==
  LET usable == {i \in DOMAIN Runtimes : Runtimes[i] \in works /\ name \in {"auto", Runtimes[i]}}
  IN  IF usable = {} THEN "none" ELSE Runtimes[CHOOSE i \in usable : \A k \in usable : i <= k]

\* SandboxProvider::shortfall: no runtime that works, or hosts to filter and a
\* sandbox that cannot. A plugin filters if its probe reply says so, and refusals()
\* comes before anything probes it, when its capabilities say it does not.
Filters == {"ai-jail", "microsandbox", "opensandbox", "wasmer"}

\* A section's own runtime is not looked at.
RuntimeOfAny(config, name, works) ==
  IF name \in BuiltIn THEN Detect(name, works)
  ELSE IF config.sandboxes[name].kind = "native" THEN Detect("auto", works)
  ELSE config.sandboxes[name].kind

RuntimeOf(config, name, works) ==
  IF name \in BuiltIn THEN Detect(name, works)
  ELSE IF config.sandboxes[name].kind = "native" THEN Detect(config.sandboxes[name].runtime, works)
  ELSE config.sandboxes[name].kind
Shortfall(config, name, works) ==
  /\ config.sandbox
  /\ LET runtime == RuntimeOf(config, name, works)
     IN  runtime = "none" \/ (config.allowlist # {} /\ runtime \notin Filters)

\* local_agents, and the refusals among them.
LocalAgents(config) ==
  {a \in DOMAIN config.agents : config.agents[a].enabled /\ config.agents[a].protocol = "acp"}
Refusals(config, works) ==
  {a \in LocalAgents(config) :
     config.requireSandbox /\ Shortfall(config, SandboxOf(config, a), works)}
=============================================================================
