------------------------------ MODULE MC_Local ------------------------------
(***************************************************************************)
(* What CUMA does on the user's machine, component by component: agents'   *)
(* work brought back from sandboxes and worktrees, skills, confinement,    *)
(* routing and its memory, configuration, planning, the terminal           *)
(* interface.  They share no state here; each behaviour is about one,      *)
(* chosen by focus, and leaves the others in one of their initial states.  *)
(***************************************************************************)
EXTENDS SandboxSync, Sandboxes, Worktrees, SkillStore, Confine,
        Records, Harness, Planner, Tui, TLC

CONSTANTS t1, t2,  \* isolated tasks
          j1, j2   \* routed ones

VARIABLE focus

vars == <<focus, syncVars, launchVars, bridgeVars, worktreeVars, skillVars, confineVars,
          memoryVars, noteVars, harnessVars, planVars, tuiVars>>

-----------------------------------------------------------------------------
(* The values of the components' constants.                                *)

\* A file that may become a directory, and an ignored one.
MCPath == {"a", "a/x", "b"}
MCRank == ("a" :> 1) @@ ("a/x" :> 2) @@ ("b" :> 3)
MCUnder == {<<"a", "a/x">>}

\* A skill whose signature, or the digest its registry publishes, comes and goes,
\* or that the operator's own directory has as a manifest alone.
Pack(signature, digest, content) ==
  [origin |-> "https", sound |-> TRUE, signature |-> signature, published |-> digest,
   content |-> content]

Packs == {Pack("Valid", "matches", "one"), Pack("Absent", "matches", "two"),
          Pack("UnknownKey", "none", "two"), Pack("Valid", "differs", "one"),
          [Pack("Absent", "none", "none") EXCEPT !.origin = "file"]}

\* Home, the workspace, its repository, a configured path and one the command
\* names, in each other or not.
Homes == {<<>>, <<"root">>, <<"home", "u">>, <<"opt", "u">>}
Spots(h) == {h, h \o <<"work">>, h \o <<".claude">>, <<"tmp", "wt">>, <<"srv">>, <<"home">>, <<>>}
Layouts(h) ==
  [home : {h}, workspace : Spots(h), git : {{}, {h \o <<"work", ".git">>}, {<<"srv", ".git">>}},
   extra : {{}, {h \o <<"data">>}, {<<"tmp">>}, {<<"home">>}},
   command : {{}, {h \o <<".ssh", "id">>}, {h \o <<"bin">>}},
   exe : {{h \o <<"bin", "cuma">>}}, resolv : {{<<"run", "resolv">>}}]
Tries(h) ==
  {h \o p : p \in {<<".ssh">>, <<".ssh", "id">>, <<".claude", "x">>, <<".gitconfig">>,
                   <<"work", "f">>, <<"secret">>, <<"data">>, <<"bin">>, <<"bin", "cuma">>}}

AllLayouts == UNION {Layouts(h) : h \in Homes}
Dots == (".ssh" :> "hidden") @@ (".claude" :> "writable") @@ (".gitconfig" :> "readable")
AllTries == UNION {Tries(h) : h \in Homes}
            \cup {<<"usr", "x">>, <<"tmp", "wt", "f">>, <<"srv", "f">>, <<"srv", ".git", "x">>,
                  <<"home">>, <<"run">>, <<"run", "resolv">>}

\* A target with a price, one nobody knows the price of, and a remote one.
MCTarget(agent, model, price, success, protocol) ==
  [agent |-> agent, model |-> model, price |-> price, latency |-> 60000, coding |-> 80,
   reasoning |-> -1, success |-> success, window |-> 4, capabilities |-> {"edit"},
   enabled |-> TRUE, available |-> TRUE, health |-> "Healthy", breakerOpen |-> FALSE,
   protocol |-> protocol]

MCTargets ==
  << MCTarget("a", "m", 2, 90, "Acp"), MCTarget("b", "none", -1, -1, "Acp"),
     MCTarget("c", "none", 1, 100, "A2A") >>
MCRouter ==
  [strategy |-> "PrivacyFirst", pinAgent |-> "none", pinModel |-> "m", excludeAgents |-> {},
   excludeModels |-> {}, adaptive |-> 50, minSamples |-> 1,
   weights |-> [quality |-> 25, cost |-> 15, latency |-> 15, reliability |-> 35, context |-> 10]]
MCJobs ==
  (j1 :> [tokens |-> 2, complexity |-> 50, requires |-> {"edit"}])
  @@ (j2 :> [tokens |-> -1, complexity |-> 0, requires |-> {}])

\* Files that choose a strategy, define agents and sandboxes, claim to be
\* trusted, or do not validate.
Agent(by, sandbox, protocol) ==
  [enabled |-> TRUE, protocol |-> protocol, sandbox |-> sandbox, definedBy |-> by]
Box(boxKind) == [kind |-> boxKind, keys |-> MustHold(boxKind), runtime |-> "auto"]
Jail(name) == [Box("native") EXCEPT !.runtime = name]
GlobalFiles ==
  {[Default EXCEPT !.strategy = "CostFirst", !.requireSandbox = TRUE, !.allowlist = {"h"},
      !.agents = ("g" :> Agent("global", "default", "acp"))],
   [Default EXCEPT !.weights = "explicit", !.trusted = {"t"}, !.requireSandbox = TRUE,
      !.sandboxes = ("vm" :> Box("microsandbox")) @@ ("jail" :> Jail("firejail")),
      !.agents = ("g" :> Agent("global", "vm", "acp")) @@ ("j" :> Agent("global", "jail", "acp"))]}
OwnAgent(d) == [Default EXCEPT !.strategy = "PrivacyFirst", !.trusted = {d},
                  !.agents = ("p" :> Agent(d, "default", "a2a"))]
OwnSandbox(d) == [Default EXCEPT !.sandboxes = ("vm" :> Box("docker")),
                    !.allowlist = {"h"}, !.agents = ("g" :> Agent(d, "vm", "acp"))]
Invalid(d) == [Default EXCEPT !.retries = 11, !.agents = ("p" :> Agent(d, "vm", "acp"))]

Dirs == {"s", "t", "u"}
AllProjectFiles == [s |-> {Default, OwnSandbox("s"), Invalid("s")},
                    t |-> {OwnAgent("t"), OwnSandbox("t")},
                    u |-> {OwnAgent("u"), Invalid("u")}]
Alone == [d \in Dirs |-> {d}]
EnvironmentSets == {Empty, [strategy |-> "Manual"]}
FlagSets == {Empty, [cost |-> 0], [strategy |-> "QualityFirst", cost |-> 2]}

\* Replies of three lines, with dependencies that repeat, dangle or look ahead,
\* lines nobody can run and lines that are none.
Deps == {SetToBag(S) : S \in {{}, {1}, {2}, {1, 2}, {3}}} \cup {1 :> 2}
Lines == [row : {TRUE}, type : {"Implementation", "Research"}, deps : Deps]
         \cup {[row |-> FALSE, type |-> "General", deps |-> EmptyBag]}

Replies == [1..3 -> Lines]

\* What the theorems about skills and about confinement assume besides.
ASSUME InstancesAssumption == SkillAssumption /\ LayoutAssumption(STRING)

-----------------------------------------------------------------------------
Component ==
  {"sync", "launch", "bridge", "worktrees", "skills", "confine", "routing", "memory",
   "config", "plan", "tui"}

\* A component that is not in focus is left in one initial state.
Init ==
  /\ focus \in Component
  /\ IF focus = "sync" THEN TRUE ELSE here = [p \in MCPath |-> "nothing"]
  /\ IF focus = "launch" THEN TRUE ELSE kind = "native" /\ copied = FALSE /\ purpose = "Execute"
  /\ IF focus = "bridge" THEN TRUE ELSE service = "process" /\ input = 0
  /\ IF focus = "skills" THEN TRUE ELSE offered = Pack("Valid", "matches", "one")
  /\ IF focus = "confine" THEN TRUE ELSE layout = CHOOSE l \in AllLayouts : TRUE
  /\ IF focus = "routing" THEN TRUE ELSE session = TRUE
  /\ IF focus = "memory" THEN TRUE ELSE backend = "null" /\ up = FALSE
  /\ IF focus = "config" THEN TRUE
     ELSE /\ globalFile = (CHOOSE g \in GlobalFiles : TRUE)
          /\ projectFile = [d \in Dirs |-> CHOOSE f \in AllProjectFiles[d] : TRUE]
          /\ env = Empty /\ flags = Empty
  /\ IF focus = "plan" THEN TRUE ELSE worded = TRUE
  /\ IF focus = "tui" THEN TRUE ELSE installed = 0
  /\ SyncInit /\ LaunchInit /\ BridgeInit /\ WorktreeInit
  /\ SkillInit
  /\ ConfineInit /\ MemoryInit /\ HarnessInit /\ PlanInit
  /\ NotesInit /\ TuiInit

Next ==
  \/ /\ focus = "sync" /\ SyncNext
     /\ UNCHANGED <<focus, launchVars, bridgeVars, worktreeVars, skillVars, confineVars,
                    memoryVars, noteVars, harnessVars, planVars, tuiVars>>
  \/ /\ focus = "launch" /\ LaunchNext
     /\ UNCHANGED <<focus, syncVars, bridgeVars, worktreeVars, skillVars, confineVars, memoryVars,
                    noteVars, harnessVars, planVars, tuiVars>>
  \/ /\ focus = "bridge" /\ BridgeNext
     /\ UNCHANGED <<focus, syncVars, launchVars, worktreeVars, skillVars, confineVars, memoryVars,
                    noteVars, harnessVars, planVars, tuiVars>>
  \/ /\ focus = "worktrees" /\ WorktreeNext
     /\ UNCHANGED <<focus, syncVars, launchVars, bridgeVars, skillVars, confineVars, memoryVars,
                    noteVars, harnessVars, planVars, tuiVars>>
  \/ /\ focus = "skills" /\ SkillNext
     /\ UNCHANGED <<focus, syncVars, launchVars, bridgeVars, worktreeVars, confineVars,
                    memoryVars, noteVars, harnessVars, planVars, tuiVars>>
  \/ /\ focus = "confine" /\ ConfineNext
     /\ UNCHANGED <<focus, syncVars, launchVars, bridgeVars, worktreeVars, skillVars, memoryVars,
                    noteVars, harnessVars, planVars, tuiVars>>
  \/ /\ focus = "routing" /\ MemoryNext
     /\ UNCHANGED <<focus, syncVars, launchVars, bridgeVars, worktreeVars, skillVars, confineVars,
                    noteVars, harnessVars, planVars, tuiVars>>
  \/ /\ focus = "memory" /\ NotesNext
     /\ UNCHANGED <<focus, syncVars, launchVars, bridgeVars, worktreeVars, skillVars, confineVars,
                    memoryVars, harnessVars, planVars, tuiVars>>
  \/ /\ focus = "config" /\ HarnessNext
     /\ UNCHANGED <<focus, syncVars, launchVars, bridgeVars, worktreeVars, skillVars, confineVars,
                    memoryVars, noteVars, planVars, tuiVars>>
  \/ /\ focus = "plan" /\ PlanNext
     /\ UNCHANGED <<focus, syncVars, launchVars, bridgeVars, worktreeVars, skillVars, confineVars,
                    memoryVars, noteVars, harnessVars, tuiVars>>
  \/ /\ focus = "tui" /\ TuiNext
     /\ UNCHANGED <<focus, syncVars, launchVars, bridgeVars, worktreeVars, skillVars, confineVars,
                    memoryVars, noteVars, harnessVars, planVars>>

Spec == Init /\ [][Next]_vars

-----------------------------------------------------------------------------
\* The types of all variables.
TypeOK ==
  /\ focus \in Component
  /\ SyncTypeOK /\ LaunchTypeOK /\ BridgeTypeOK
  /\ WorktreeTypeOK /\ SkillTypeOK
  /\ ConfineTypeOK /\ MemoryTypeOK /\ NotesTypeOK
  /\ HarnessTypeOK
  /\ PlanTypeOK /\ TuiTypeOK
=============================================================================
