------------------------------ MODULE Harness ------------------------------
(***************************************************************************)
(* One `cuma serve` (harness.rs and commands.rs of cuma-cli): the server   *)
(* loads its configuration and builds an orchestrator for the directory it *)
(* was started in; over ACP it builds one more for every directory an      *)
(* editor opens, with a configuration of its own. The files are read anew  *)
(* every time, and people edit them meanwhile.                             *)
(***************************************************************************)
EXTENDS ConfigLayers

CONSTANTS Dir,          \* directories an editor may open
          StartedIn,    \* the one CUMA was started in
          Global,       \* what the global file may say
          Project,      \* [Dir -> what its .cuma/config.toml may say]
          Environment,  \* what CUMA_* variables may be set
          Flags,        \* what flags may be given
          Works,        \* native runtimes that work here
          Within,       \* [Dir -> SUBSET Dir]: the directory and those it is inside of
          MaxFileEdits

\* A layer is a whole configuration; its weights are its own or those of no choice.
Layer(c) == DOMAIN c = DOMAIN Default /\ c.weights \in {"Balanced", "explicit", "zero"}

\* An agent is known by the file that defines it. Neither the environment nor the
\* flags define agents or write out weights; what they set are fields.
ASSUME FilesAssumption ==
  /\ StartedIn \in Dir /\ MaxFileEdits \in Nat
  /\ \A g \in Global : Layer(g) /\ \A a \in DOMAIN g.agents : g.agents[a].definedBy \notin Dir
  /\ \A d \in Dir : \A f \in Project[d] :
       Layer(f) /\ \A a \in DOMAIN f.agents : f.agents[a].definedBy = d
  /\ \A s \in Environment \cup Flags : DOMAIN s \subseteq DOMAIN Default \ {"weights", "agents"}

VARIABLES globalFile, projectFile,  \* the files, as they are now
          env, flags,
          server,                   \* the configuration CUMA started with
          pool,                     \* [Dir -> what was built for it]
          listening,                \* "starting", "ready", "failed" or the protocol served
          fileEdits

harnessVars == <<globalFile, projectFile, env, flags, server, pool, listening, fileEdits>>

NotBuilt == [built |-> FALSE, config |-> Default, agents |-> Empty]

HarnessTypeOK ==
  /\ globalFile \in Global /\ \A d \in Dir : projectFile[d] \in Project[d]
  /\ Valid(server) /\ \A d \in Dir : Valid(pool[d].config)
  /\ listening \in {"starting", "ready", "failed", "acp", "a2a", "mcp"}
  /\ fileEdits \in 0..MaxFileEdits

HarnessInit ==
  /\ globalFile \in Global /\ env \in Environment /\ flags \in Flags
  /\ projectFile \in [Dir -> UNION {Project[d] : d \in Dir}]
  /\ \A d \in Dir : projectFile[d] \in Project[d]
  /\ server = Default /\ pool = [d \in Dir |-> NotBuilt]
  /\ listening = "starting" /\ fileEdits = 0

-----------------------------------------------------------------------------
\* build_orchestrator: refused agents are left out, the others are registered,
\* as unavailable when asking them what they can do failed; A2A agents need no
\* sandbox.
Buildable(config) ==
  {a \in DOMAIN config.agents : config.agents[a].enabled} \ Refusals(config, Works)
Builds(config) ==
  {[built |-> TRUE, config |-> config, agents |-> answered] :
     answered \in [Buildable(config) -> {"Unknown", "Unavailable"}]}

\* is_trusted_workspace: where CUMA was started, and what the configuration it
\* started with lists.
TrustsOwnWord(d) ==
  d = StartedIn \/ Within[d] \cap (server.trusted \cup projectFile[d].trusted) # {}
TrustedWorkspace(d) == d = StartedIn \/ Within[d] \cap server.trusted # {}

\* Config::load and the flags over it, or an error.
Start ==
  /\ listening = "starting"
  /\ LET loaded == Load(globalFile, projectFile[StartedIn], env)
         config == Set(loaded, flags)
     IN  IF ~Valid(loaded) \/ ~Valid(config)
         THEN listening' = "failed" /\ UNCHANGED <<server, pool>>
         ELSE /\ server' = config
              /\ \E built \in Builds(config) :
                   /\ pool' = [pool EXCEPT ![StartedIn] = built]
                   /\ listening' = IF built.agents = Empty THEN "failed" ELSE "ready"
  /\ UNCHANGED <<globalFile, projectFile, env, flags, fileEdits>>

\* A token that is named has to be there and to be long enough; beyond this
\* machine there has to be one, or a proxy that is said to authenticate.
Exposed(tokens, loopback, allowed) ==
  tokens # "bad" /\ (tokens = "good" \/ loopback \/ allowed)

Listen(protocol) ==
  /\ listening = "ready"
  /\ \/ /\ protocol # "a2a"
        /\ listening' = protocol
     \/ /\ protocol = "a2a"
        /\ \E tokens \in {"none", "bad", "good"}, loopback, allowed \in BOOLEAN :
             listening' = IF Exposed(tokens, loopback, allowed) THEN "a2a" ELSE "failed"
  /\ UNCHANGED <<globalFile, projectFile, env, flags, server, pool, fileEdits>>

\* workspace_builder, workspace_config: a trusted directory is loaded like the
\* server's, an untrusted one is served with the server's configuration, its own file
\* set aside.
WorkspaceConfigAsLoaded(d) ==
  IF TrustedWorkspace(d) THEN Load(globalFile, projectFile[d], env) ELSE server
WorkspaceConfig(d) ==
  IF TrustedWorkspace(d) THEN Set(Load(globalFile, projectFile[d], env), flags) ELSE server
OpenWorkspace(d) ==
  /\ listening = "acp" /\ ~pool[d].built
  /\ TrustedWorkspace(d) => Valid(Load(globalFile, projectFile[d], env))
  /\ LET config == WorkspaceConfig(d)
     IN  /\ Valid(config)
         /\ \E built \in Builds(config) :
              built.agents # Empty /\ pool' = [pool EXCEPT ![d] = built]
  /\ UNCHANGED <<globalFile, projectFile, env, flags, server, listening, fileEdits>>

\* Somebody edits a file. The server never reads its own again.
EditFile ==
  /\ fileEdits < MaxFileEdits
  /\ fileEdits' = fileEdits + 1
  /\ \/ globalFile' \in Global /\ UNCHANGED projectFile
     \/ \E d \in Dir, text \in UNION {Project[x] : x \in Dir} :
          /\ text \in Project[d] /\ projectFile' = [projectFile EXCEPT ![d] = text]
          /\ UNCHANGED globalFile
  /\ UNCHANGED <<env, flags, server, pool, listening>>

HarnessNext ==
  \/ Start
  \/ \E p \in {"acp", "a2a", "mcp"} : Listen(p)
  \/ \E d \in Dir : OpenWorkspace(d)
  \/ EditFile

HarnessSpec == HarnessInit /\ [][HarnessNext]_harnessVars

-----------------------------------------------------------------------------

\* "opening a folder in an editor must not run it" (harness.rs): an agent that
\* only a directory's own file defines is never launched unless whoever started
\* CUMA trusts that directory, whatever the file itself says.
OnlyTrustedFilesApply ==
  \A d \in Dir : \A a \in DOMAIN pool[d].agents :
    pool[d].config.agents[a].definedBy \in Dir =>
      LET by == pool[d].config.agents[a].definedBy
      IN  by = StartedIn \/ Within[by] \cap server.trusted # {}

\* "Otherwise a layer that sets `strategy` alone would clobber the weights it is
\* supposed to be selecting a preset for" (merge.rs): through all the layers, the
\* weights in effect were written out or are those of the strategy in effect, also
\* where the guide has a project that sets a strategy keep the global weights.
WeightsFitStrategy ==
  \A d \in Dir : pool[d].built =>
    pool[d].config.weights \in {"explicit", Preset(pool[d].config.strategy)}

\* The native runtime a sandbox asks for, "none" where it is of another kind.
Asked(config, name) ==
  IF name \in BuiltIn THEN name
  ELSE IF config.sandboxes[name].kind = "native" THEN config.sandboxes[name].runtime
  ELSE "none"

\* "that agent does not run, rather than running less confined than asked": where
\* confinement is required, a local agent runs under the runtime its sandbox names or
\* not at all ("that one or none, never another", confine.rs), and with hosts to
\* filter under none of those SECURITY.md lists as unable to, whichever layer asked
\* for the sandbox, the hosts and the requirement.
RequiredConfinement ==
  \A d \in Dir : \A a \in DOMAIN pool[d].agents :
    LET config == pool[d].config
        name == SandboxOf(config, a)
        asked == Asked(config, name)
    IN  config.requireSandbox /\ config.sandbox /\ config.agents[a].protocol = "acp" =>
          /\ asked \in BuiltIn \ {"auto"} => asked \in Works
          /\ asked = "auto" => Works # {}
          /\ config.allowlist # {} =>
               \/ asked \in {"auto", "ai-jail"} /\ "ai-jail" \in Works
               \/ asked = "none" /\ config.sandboxes[name].kind \notin
                                     {"docker", "arcbox", "kubernetes", "e2b", "command"}

\* What the flags and variables CUMA was started with set holds in every directory,
\* flags over variables, whatever the files of those opened later say.
StartedAsAsked ==
  \A d \in Dir : pool[d].built =>
    /\ \A f \in DOMAIN flags : pool[d].config[f] = flags[f]
    /\ \A f \in DOMAIN env \ DOMAIN flags : pool[d].config[f] = env[f]

\* Every directory is served as whoever started CUMA asked, whatever files people
\* edit and editors open.
ServedAsAsked ==
  OnlyTrustedFilesApply /\ WeightsFitStrategy /\ RequiredConfinement /\ StartedAsAsked
=============================================================================
