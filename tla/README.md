# A TLA+ model of CUMA

CUMA plans a goal into a graph of tasks and runs the tasks on coding agents, in
waves, with retries, reroutes, circuit breakers and a ledger that keeps two
tasks from writing the same files. Agents run in sandboxes or git worktrees and
are reached over ACP or A2A; CUMA is itself served over ACP and A2A, uses tools
over MCP, installs skills, remembers what it learned and has a terminal
interface. This directory models the control of all of these. The crates are
under `src/crates`; every definition that models code is mapped to its lines in
`PROJECT.json`.

## The system

| Component | State | Operations | Interacts with |
|---|---|---|---|
| `cuma-orchestrator` session walk (`executor.rs`: `run_session`, `execute_graph`, `admit_concurrently`) | a graph per session, the wave, its claims | plan, admit, launch, join, fold, cascade; drop of an aborted run | ledger (shared by all sessions), planner, `execute_task` |
| `cuma-orchestrator` task execution (`execute_task`) | attempts, abandoned targets, handoff, counters | route, invoke, record, retry, reroute, re-plan, give up | router, breakers, registry, adapters |
| `cuma-workspace` ownership (`ownership.rs`, `index.rs`) | path -> task | `claim`, `release`, `predict_writes` | the walk of every session |
| `cuma-workspace` worktrees, confinement (`git.rs`, `confine.rs`) | worktrees, snapshots; a profile of what an agent may touch | snapshot, patch, apply; render a profile | `isolate`, `settle_isolated`; launches |
| `cuma-resilience` (`breaker.rs`, `retry.rs`) | a breaker per agent and per model | `allows`, `record_success`, `record_failure`, `decide` | `execute_task`, router |
| `cuma-core` (`task.rs`, `error.rs`, `event.rs`, `ports.rs`) | statuses, dependencies, error classes, the event bus, a launch | `ready_tasks`, `cascade_skip`, `validate`, publish, finish, drop | everything |
| `cuma-router`, `cuma-registry` | candidates, scores, history; health per agent | `route`, `snapshot`, `set_health` | `execute_task` |
| `cuma-usage`, `cuma-persistence` | spend; SQLite rows | `record`, `record_attempt`, load | routing, the recorder |
| `cuma-memory` | pages of an external memory | recall, remember, hand off | `execute_task`, terminal interface |
| `cuma-planner` | none | `plan`, `parse_plan`, `replan` | the walk |
| `cuma-protocol-a2a` server | tasks, snapshots, channels, abort handles, store | start, drive, cancel, stream, list, evict, restart | `run_session` of one shared orchestrator |
| `cuma-protocol-a2a` client | what is believed of a peer; an attempt | send, stream, poll, reconnect, fall back, cancel | an attempt's outcome |
| `cuma-server-acp` | sessions, turns, running prompts; an orchestrator per directory | prompt, cancel, load, save; build, evict | `run_session` |
| `cuma-protocol-acp`, `cuma-sandbox` | a launch, a sandbox, a copy of the workspace | open, turn, relay, collect, merge, remove | an attempt's outcome, the workspace |
| `cuma-protocol-mcp` | open connections | call, open, replace, reap | tools, memory |
| `cuma-skills` | packages, `installed.json`, guides | install, enable, update, remove | prompts |
| `cuma-config`, `cuma-cli` | layers of settings; orchestrators built from them | load, merge, validate, trust, serve | everything |
| `cuma-tui` | the view model, a session, a search | keys, events | the bus, memory |
| `cuma-providers`, `cuma-testkit` | none | requests; mocks | |

What is hard: one orchestrator serves many sessions at once (each ACP prompt is
spawned, each A2A task too), so waves of different sessions interleave on the
ledger, the breakers, the registry and the spend; a run may be dropped at any
await, and only there; each task of a wave works on its own copy of the graph;
what a task decides rests on a snapshot that others have changed since; work
done elsewhere must come back whole while the user types; channels drop what a
slow reader has not taken. `PROJECT.json` lists these hazards at their lines,
with the properties that cover them.

## Modules

| Module | Models |
|---|---|
| `PathClaims` | paths, `normalize`, `overlaps`, `predict_writes`, the index, the ledger's rows (pure operators) |
| `Ownership`, `Ownership_proofs` | the ledger's promise: tasks claim and release; abstract specification of what the walk relies on |
| `TaskGraph` | statuses, readiness, the order of a wave, the cascade, the halves of a split (pure operators) |
| `Sessions`, `Sessions_proofs` | several sessions walking their graphs over one ledger; refines `Ownership` |
| `Resilience` | error classes, the breaker, `decide` (pure operators) |
| `TaskExecution`, `TaskExecution_proofs` | concurrent `execute_task`s over shared breakers and registry health |
| `A2AWire` | the protocol's vocabulary: states, spellings, dialects, errors, cards (pure operators) |
| `A2ATable`, `A2APages` | the table of tasks: eviction, filtered listing; a client that walks its pages |
| `A2ATask` | one A2A task: start, drive, cancel, streams, store, restart |
| `A2AClient` | attempts on a remote A2A agent |
| `AcpSessions` | one session of the ACP server: prompts, cancellation, turns, its file |
| `AcpWorkspaces` | an orchestrator per working directory |
| `McpPool` | connections to an MCP server |
| `AgentLaunch` | one turn of an ACP agent in each kind of sandbox, up to what the attempt reports |
| `SandboxBridge` | the relay into a sandbox over HTTP, helper commands, fill and fetch |
| `Sandboxes` | a launch and its relay side by side |
| `SandboxSync` | record, compare and merge a copy of the workspace |
| `Worktrees` | isolated tasks: snapshot, worktree, patch, apply |
| `SkillStore` | what a skill is worth and how it is installed, enabled, updated, removed |
| `Confine` | the native confinement profile under its four runtimes |
| `RouteScore`, `RoutingMemory` | filters and scores; spend, history and database rows of concurrent attempts |
| `LongTermMemory` | notes recalled and pages written through a backend that comes and goes |
| `Records` | what a session leaves for later ones: `RoutingMemory` and `LongTermMemory` side by side |
| `ConfigLayers`, `Harness` | layers, merging, validation; `cuma serve` building orchestrators from files that change |
| `Planner` | the model's reply, the rules, `validate` |
| `Tui` | the event loop and the view model |
| `A2A_proofs` | proofs about `A2ATask`, `A2AClient`, `A2APages` |
| `Acp_proofs` | proofs about `AcpSessions`, `AcpWorkspaces` |
| `Protocols_proofs` | proofs about `McpPool`, and about the protocol components side by side |
| `Local_proofs` | proofs about `Worktrees`, `SkillStore`, `Harness`, `Planner`, and about all components of the user's machine side by side |
| `Machine_proofs` | proofs about `SandboxSync`, `Sandboxes`, `Records`, `Tui`, `Confine` |
| `MC_*` | values for the constants; `MC_Protocols` and `MC_Local` extend their components, which share no state, and explore one at a time |

### State and actions

*Ownership.* `claims` is the ledger's map. A path is its sequence of
components; a spelled path also says whether it starts with `./`, because
`normalize` drops that and the index lookups do not. `Claim` is all or nothing,
as in `OwnershipLedger::claim`; `Release` is `release`. `granted` is a history
variable for the properties. The scanner of `predicted_writes` is abstracted to
the set of paths a description names, empty when it names none.

*Sessions.* A session's `pc` follows `run_session`: planning, the head of a pass
(`BeginPass`, `Finish`), admission of one ready task after the other (`Admit`,
one step per task because each takes the ledger's lock), `Launch`, `TaskEnds`
for every task of the wave in any order, `Join`, and `Fold` for one result
after the other. `Abort` drops the run at an await and `DropClaims` is
`ClaimsGuard::drop`. A task ends completed, failed, replanned (its copy of the
graph has grown by two halves), or unmerged (split, and then its worktree could
not be applied). `FoldRow` keeps the code's order: the row, then the grown copy
if the task ran alone, else the cascade. `CascadeSkip` is the least set that is
closed under a round of the code's loop, and `BehindSplit` likewise the least set
of tasks that wait for a split one; both are defined by quantification over sets,
so that they can be reasoned about. `deferredTo` remembers whose claims deferred a
session, for `StallHasCause`.

*TaskExecution.* A worker is a slot in which one task after the other runs
`execute_task`. One step runs from one point where another task can intervene to
the next: the snapshot (`LoopTop`), routing and marking (`RouteTask`,
`RoutingFailed`), the breakers' news of the attempt (`AttemptSucceeds`,
`AttemptFails`), reading the health (`ReadHealth`), writing it (`SuccessNoted`,
`FailureNoted`), the probe for alternatives (`Probe`) and the reaction
(`React`). `Tick` ages open breakers. The breaker's instants become an age
counted to the cooldown. `charged` is a history variable: the failures of an
agent's own.

*A2A server.* `A2ATask` follows one task. `start`, `drive` and `cancel_task` are
split wherever another thread can come between: drive changes the watched
snapshot, copies it, publishes the copy and is dropped by an abort only where it
awaits; the abort handle is stored after the spawn. A stream subscribes before
it reads the snapshot, holds `Capacity` updates, and resyncs when it lagged.
A restart loads the store and fails what was running. Other tasks matter only
through the table: `A2APages` has the table with its two limits and a client that
reads page after page of all tasks, of those of a `contextId`, of those with a
status, or of both; `slipped` notes that the listing it reads lost a task and won
none. `Evicted` is the effect of other tasks on one task.

*A2A client.* An attempt sends, streams or polls, and what it believes of the
peer (`peer`) is shared and corrected, while `truth` is what the peer is like.
The peer may take a request whose answer is lost, refuse a dialect or a stream,
ask for input, or answer with a message; the deadline and the orchestrator may
drop the attempt at any await, after which the task is cancelled if it is known.

*ACP server.* `AcpSessions` takes the registry's lock as often as the code does:
a prompt registers its run, clears it and records its turn in three steps, with
cancels, loads, other prompts and saves in between. The pump is drained for a
bounded time. In `AcpWorkspaces` a request takes its stamp from the atomic clock
(`RequestOrchestrator`) before it takes the lock of the slots (`AskFor`), so that
stamps may be written out of order; a slot is evicted, the least recently used
first, only when nothing else holds its cell or orchestrator.

*MCP.* A connection is the process it launched; it runs until the slot and every
call have let go of it. The slot's lock is held while a connection is opened.

*Sandboxes.* `AgentLaunch` has ten kinds of sandbox, which differ in what open
creates, whether they hold a copy, what a failed removal means and whether the
service reaps them. `held` says whether the launch carries a session: the setup
command of a `command` sandbox need not have a teardown, and a plugin's reply need
not name a session; finish then does nothing. The deadline may drop the call at each
await, also within open and finish. `SandboxSync` takes the merge apart into its comparison and one
step per file, with an edit of the user in between and a failing disk; trees map
paths to contents, and a path under another makes that one a directory. What is
left to apply is a set, from which `Upcoming` takes writes before deletions, each
in the order of the code's map. A path whose way leads over a file (`Astray`) is an
error of `entry_of`, not an absent file: it ends the comparison with nothing
applied, which is what happens to an agent that turned a file into a directory.
`SandboxBridge` follows chunks of stdin and stdout through the relay's requests;
`Following` is how many of the chunks the tunnel holds go on from what it wrote, and
`shown` what of the agent's output was passed on.

*Worktrees.* A file's hunks are the unit of patching; snapshots and
applications go hunk by hunk, only what holds `isolation_lock` is ordered, and a
git that outlived its timeout goes on. A hunk's content is who wrote it last or
which edit of the user it is. A task that shares the workspace may write a hunk
again, so that its content recurs, and the properties speak of contents that were
written once (`WrittenOnce`): with three tasks the statement without it is false.

*Skills.* Files, `installed.json` and each process's copy of the record are
separate; a commit may be cut between them, and a removal, a move or a save may be
refused by the disk. A package without files leaves those that are there. The digest
an update compares is that of the files without `skill.sig`.

*Confine.* The state is a machine's layout and the runtime; `grants` is what the
rendered arguments let the agent do with each probed path. For bubblewrap a later
mount hides an earlier one (the system, `resolv.conf`, a private home, the entries
of home, configured paths, CUMA's executable, what the agent's command names, the
workspace, and the credentials in it hidden again); for firejail and sandbox-exec
there are rules; for ai-jail there are the paths CUMA maps, and the rest is `"own"`,
left to that program's profile.

*Routing memory.* A routing reads spend and history; `record_attempt` writes the
database, the ledger and the history in three steps. A later process starts from
the database, or with nothing when that cannot be opened or loaded (`unread` is what
it then misses). Scores are whole percentages; `Candidates` is what the router's
filters leave and `Wins` the stable sort's first.

*Configuration.* A layer is a whole configuration in which what is not written
has its default, because that is all that parsing leaves. One field of each kind
stands for the fields merged alike. A `[sandboxes]` section of kind `native` has a
runtime of its own, which is that one or none.

*Planner.* A reply is a sequence of lines, each a row with a type and
dependencies by line number, or no row. Dependencies are a bag, because `validate`
counts one as often as it is named. `Drained` is what Kahn's algorithm visits: the
least set that contains each task whose dependencies it contains, each named once.
An empty goal is an error with either planner; the rules plan with and without
`always_validate`.
`PlansCanFinish` compares it with the definition of acyclicity.

*Tui.* One step is one turn of the `select!`; the bus drops the oldest event when
the subscriber is behind.

## Runs

| Run | Instance | Result |
|---|---|---|
| `ownership` | 3 tasks, 2 files, 7 kinds of request | holds |
| `sessions` | 2 sessions of 1 and 4 tasks, waves of 2, one task that may be split, worktrees, aborts | holds |
| `sessions_split` | 1 session of 4 tasks, waves of 1 | `WalksToTheEnd` is violated |
| `sessions_deferral` | 2 sessions, nothing split | `DeferredTasksRun` is violated |
| `task_execution` | 2 tasks, 2 agents, a retried and a model's failure, 3 attempts | holds |
| `task_liveness` | 2 tasks, 1 agent, four failure classes, streaks of 2, cooldown 2 | holds |
| `agent_return` | 1 worker, 1 agent, tasks without end | `AgentsComeBack` is violated |
| `target_count` | 1 task, 2 agents | `CountsThisTargetOnly` is violated |
| `protocols` | the A2A server and client, the ACP server, the MCP client | holds |
| `local` | eleven components of the user's machine | holds |
| `a2a_terminal` | one A2A task, one stream, one restart | `TerminalStaysTerminal` is violated |
| `plan_lines` | all replies of four lines that keep to the prompt | `LinesKeepTheirOrder` is violated |

`ownership` shows that no file has two writers whatever the spelling (the
requests contain a bare name, a `./` directory, a directory, a file, a file to be
created, outputs of dependencies, and the whole workspace).

`sessions` shows that the walk uses the ledger as `Ownership` assumes
(`LedgerHonoured` is the refinement), that no claim outlives its wave, that a
task runs only behind completed dependencies, that exactly the tasks behind a
failure are skipped, that terminal rows are final, that an unfinished session
has one of three known causes (another session's claims, a split task before it,
or a graph that splits grew beyond the passes counted from the first plan), and
that every session ends. `WalkNeverTurnsBack` adds to the finality of rows why it
ends, step by step (`SessionsAdvance`): no pass is given back, within a pass the
session only moves on, and within a phase of it each step takes a task off what is
left to do there; a step of one session leaves the others where they are.

`task_execution` and `task_liveness` show the budget, the exclusion of abandoned
targets, the handoffs, the breakers' accounting, load shedding, that every task
is settled and that breakers reopen. `BudgetIsSpent` bounds the attempts
(`AttemptsBounded`) and counts the steps a task has left, seven for each attempt
the budget still allows and those to the end of the current one: each of its steps
spends at least one of them (`TasksDescend`). `OpenBreakersRecover` says that an
open breaker admits no new attempts (`OpenBreakerSheds`) and that only a failure of
one that was in flight starts its cooldown over (`CooldownsRunOut`), which so
happens finitely often.

`protocols` and `local` check components that share no state with each other.
Each behaviour is about one of them, chosen by `focus` in the initial state, and
the variables of the others keep an initial value: one run explores the union of
the components' state spaces, not their product, and each property speaks about
its component.

`protocols` shows:

* `PagesMissNothing`: a walk over the pages of `ListTasks` sees every task that
  was listed when it began and at every page, although the listing shifts under it;
  with a filter only if the listing did not shrink, which without one it never does;
* `StreamsTellTheEnd`, `StreamsEnd`: the stream of a task nobody cancels ends,
  and its reader was told the settled state, also after lagging or eviction;
* `AttemptIsHonest`: an attempt reported as a success rests on a task the peer
  completed or on its direct answer, and no attempt starts two tasks;
* `TurnsAreFinished`: a reconnecting client is shown finished turns only, each
  once; `PromptsAreAnswered`: every prompt gets its answer;
* `OneLedgerPerDirectory`: sessions in one directory share an orchestrator;
* `OneServerRuns`: never two live processes of one MCP server.

`local` shows:

* `MergeKeepsBoth`: no change the user made before the files are compared, nor
  any to a file the merge does not write, is lost, and a merge that succeeds
  brought all that the agent changed;
* `SandboxesAreFaithful`: a task reported as done has its work in the workspace,
  unless a copying plugin opened no session for it; what the agent reads through the
  relay is in order and without gaps, and an exit is reported once the agent exited
  and, with E2B, after all it wrote (with OpenSandbox, after what the tunnel had read);
* `IsolationHolds`: what a task landed is whole, seen whole by later snapshots,
  and not undone by a task that never saw it, unless a git outlived its timeout
  (`overran`);
* `GuidanceWithinApproval`: the files whose instructions guide an agent have earned
  the trust that was approved, also where a package without files left older ones or
  the disk refused to remove or move some; not after a change that `installed.json`
  was not told of (`torn`), until the skill is installed anew;
* `ProfileHolds`: credentials are out of reach under all four runtimes, except in a
  configured path, a repository or a path of the agent's command that contains them
  or with a workspace that lies among them, and under firejail and sandbox-exec even
  then; the workspace is writable and nothing the profile does not list; under
  bubblewrap home, `/tmp` and `/run` show only what is listed, and what the command
  names is readable unless it is a credential or home lies in a system directory;
* `OverrunIsBounded`: concurrent tasks overrun the cost ceiling by less than one
  attempt each;
* `RecordsAreTrue`: the totals in the database are those of the attempts, and a
  process knows them but for what it could not load or store; a page "was completed
  by" is about a task an agent completed, whether or not its worktree landed after,
  one that says "handed over" about a task that was tried before and again;
* `ServedAsAsked`: a directory's own file runs nothing unless the directory is
  trusted, weights fit the strategy, flags and environment hold in every directory,
  and where confinement is required an agent runs under the runtime its sandbox
  names, filtering hosts if there are any, or not at all;
* `PlansCanFinish`: only an empty goal is an error; every plan's dependencies are
  tasks of it, each named once, in no circle. A model's plan has at least two tasks,
  all of which somebody can run; a rules plan has work behind all its looking;
* `ScreenIsCurrent`: the transcript belongs to the session shown, the memory
  screen to the last search.

The six violations are places where the code does not do what its comments say:

* *agent_return*: the breaker's `Open` is written to the registry as
  `Unavailable`; the router rejects on it before asking the breaker, and only a
  success writes it back. After the cooldown no probe is sent, contrary to
  `breaker.rs:3-6`.
* *sessions_split*: dependents of a split task keep depending on it; it is
  `Skipped`, so they are never ready and never skipped, and the walk ends
  before every task is terminal (`executor.rs:453`).
* *sessions_deferral*: a pass in which nothing is admitted waits for nothing and
  counts, so a session that another one blocks ends at once with ready tasks,
  contrary to `executor.rs:596-598` and `docs/ORCHESTRATION.md:174`.
* *target_count*: `attempts_on_target` survives a retry that the router sends to
  another target, contrary to `retry.rs:150-152`.
* *a2a_terminal*: a cancelled task is overwritten by its run, which an abort
  stops only at an await and not before its handle is stored, contrary to
  `wire.rs:172`.
* *plan_lines*: a line left out because nobody can run it shifts the meaning of
  every later line number, contrary to the prompt (`llm.rs:28`).

### Bounds

`max_passes` and `max_attempts` bound the code itself, so the orchestrator's runs
need no artificial bound on depth. Two concurrent actors are where interleavings
on one shared resource begin; a third task is in `ownership`, where it is cheap.
The plan of the second session has a task that is split, one that waits for it,
one behind that one, and a reader beside them, which is the smallest plan in
which the cascade has two rounds and a split runs both alone and in company.
Three attempts over two targets allow a retry and a reroute of one task.
`FailureThreshold` is 1 in `task_execution` (every counted failure opens) and 2
in `task_liveness` (streaks). A cooldown of 2 has an age at which starting over
shows. Ages are counted to `Cooldown` and failures to
`FailureThreshold`, beyond which the code makes no difference. Symmetry is over
tasks (`ownership`) and workers (`task_execution`), in runs without liveness.
`sessions` and its variants do not check for deadlock: all sessions end.

In `protocols` a stream holds two updates, fewer than drive publishes, so that it
lags; four tasks pass through a table of three with two running and pages of one,
so that a page boundary and an eviction meet, three of them in the conversation a
client may ask for; two prompts of one session make a
late end of the first; three directories compete for two slots, one of which is
the default that stays, with six stamps (`MaxClock`), enough for each session to
come twice while a stamp is held back; two callers and three launches allow a replacement while
the old connection is in use. One restart (`MaxRestarts`, `MaxServerStarts`) is
enough, as nothing distinguishes a second one. In `local`, `MC_Local` gives each
component its constants beside a comment on what they are for: three paths of
which one may turn into a directory, two chunks each way, two tasks and two hunks
with one edit of the user, five packages of which one has no files, 972 layouts over
four places of home (the root and a system directory among them), three targets
with a known, an unknown and a remote price, two processes over one database,
three directories with their files, replies of three lines, two goals and two
searches. Every behaviour of these runs is bounded by the number of requests,
edits or outages, hence `CHECK_DEADLOCK FALSE`.

### Fairness

`Sessions`: weak fairness of each session's own steps. The runtime polls a
session that is ready to go on, and a wave's tasks all end, which is
`EveryTaskEnds` of `TaskExecution`; aborts are not fair. `TaskExecution`: weak
fairness of `Tick` (time passes) and of every started task: `invoke_adapter`
puts `tokio::time::timeout` around the agent, other awaits are on locks held
briefly, and the back-off is a bounded sleep. Nothing is assumed about new tasks
arriving except in `BusySpec`, used by `agent_return`, where the question is
whether an agent returns although there is always work. `A2ATask`: weak fairness
of a started task's steps (the session behind drive ends, by `SessionsEnd`), of a
begun cancellation, of the drop of an aborted run, and of each stream's reader,
which the server polls as long as the connection lives. `AcpSessions`: weak
fairness of every prompt's steps and of the end of its run. Cancellations,
restarts, evictions and clients are not fair.

## Proofs

Every theorem holds for all values of the constants that satisfy the `ASSUME` of
its component's module, which TLC evaluates on the runs; the assumptions say that
bounds are natural numbers, sets that are counted are finite, and names that stand
for nobody are not names of somebody. Where more is assumed, it is said below. Two
assumptions are hypotheses of their theorems instead, since the code works without
them but does not promise the property then (`SkillAssumption`,
`LayoutAssumption`); `MC_Local` evaluates both for its values. Each component has an inductive invariant (`IInv` or
`...IInv`), a lemma per action that keeps it, a theorem `...Invariance` that
combines them, and the properties as its consequences.

*Ownership* (`ClaimsAreExclusive`, `OneWriterAtATime`, `GrantsAreHeld`).
`ExclusiveClaims` alone is not inductive, since a claim can only be checked against
rows: `IInv` says that rows of different tasks do not overlap and that every
granted request has its predicted rows in the ledger. That gives exclusiveness
through `CommonDescendant` (two paths above one file are prefixes of each other)
and the single writer through `PredictionCovers` (what a description means is
below what is claimed for it). Assumptions: `"."` is not a name, index entries
are nonempty paths over the names, requests are records of spelled paths.

*TaskExecution* (`TypeCorrect`, `RetriesAreFinite`, `AbandonedStaysAbandoned`,
`HandoffsArrive`, `PoolLeavesAreEarned`, `BreakersLetRecover`). The invariant adds to
the properties what makes them true earlier: the budget before each use
(`BudgetOK`), the target between routing and reaction (`TargetOK`), that a handoff
exists exactly when something was given up and waits only until the next routing
(`HandoffOK`), and that the failures in a breaker, its leaving `Closed`, the
health in the registry and the health a task is about to write all go back to
charged failures (`ChargeOK`, `NotedOK`). Load shedding is an action property: no
step but a routing puts a task in flight, and a routing asks the breaker. So are
`EveryStepIsSpent` and `CooldownsElapse`, the safety half of termination: the
first needs of the invariant that no task has more attempts on record than the
budget, so that the count is a natural number and cannot descend for ever; the
second that asking a breaker that stays open changes nothing (`ShutBreakers`).
With the fairness assumed of started tasks, which is left to TLC, they give
`EveryTaskEnds` and `BreakersReopen`.
Assumptions: positive thresholds and budgets (`RetryPolicy::with_max_attempts`
enforces the latter), targets are pairs, no agent is called "none".

*Sessions* (`ClaimsDoNotLeak`, `TasksRunBehindCompleted`, `TerminalRowsAreFinal`,
`CascadeExactness`, `StallsHaveCauses`, `WavesHonourTheLedger`,
`FilesHaveOneWriter`, `WalksGoForward`). The invariant relates the three places a task's fate is kept
in, the row, the wave and the result of its own copy: `GraphsArePlans` (a graph is
the plan and whole pairs of halves), `WavesAreReady` (a wave's tasks stand behind
completed ones), `RowsAreTrue`. The steps that carry the results:

* A fold skips exactly what stands behind the failed task because the cascade is
  the least closed set: what it contains is closed under a round, and whatever is
  outside stands behind nothing that failed. This needs that plans are acyclic
  (`TaskGraph::validate`), as `AcyclicAssumption` says: every nonempty set of
  tasks has one that depends on none of them.
* A walk that stops while tasks are open has used up its passes or found nothing
  ready. If nothing is ready, a least open task exists by acyclicity, and what it
  waits for was split. If the passes are used up, `PassesPay` counts: every pass
  that was not deferred by another session's claims made at least one row
  terminal, so the graph has more rows than passes.
* The refinement maps a session's claims to the ledger's and its requests to the
  grants; admission is `Claim`, the guard's drop is `Release`, the rest stutters.
  `FilesHaveOneWriter` composes it with `OneWriterAtATime`: what was proved of the
  abstract ledger holds of running sessions.
* A session advances (`EveryStepAdvances`) in the order of passes, phases of a pass
  and tasks left in a phase. The last is the number of elements of a set that is finite because
  graphs are (`RestIsFinite`), and each step takes one element away
  (`OneTaskLess`); the passes used never exceed those granted (`PassesFit`, shown
  beside the invariant), so the descent ends.

Assumptions: plans share no task and depend on their own tasks only, halves are
not split again (`heuristic.rs` refuses it), paths as in the ledger.

*McpPool* (`PoolRunsOneServer`). A process runs exactly while the slot or a call
holds its connection, and one that is not the slot's is let go before another is
launched, because connecting needs the lock.

*A2A* (`StreamsAreTold`, `AttemptsAreHonest`, `WalksMissNothing`). Of a task, the
invariant says which updates each stream still has to read: the last of them, or
the snapshot after a lag, is what the task settled in (`ReadersAgree`). Of an
attempt, what it has seen of the peer's task; that no fallback follows a request
that was taken. Of a walk, that a task that must be seen and was not is listed at
the next offset or behind it, as long as the listing has not shrunk under the walk:
a removal then only moves tasks forward together with an arrival at the head. A task
that settles is either out of the listing afterwards, which shrinks it, or in its
place. That a listing without filters never shrinks is part of the property, since
eviction makes room for an arrival only. This one needs no bound on the table or on a
page.

*ACP* (`DirectoriesHaveOneLedger`, `ClientsSeeFinishedTurns`). Slots have distinct
directories and cells, and each session that refers to a cell finds it in its slot,
since eviction spares what is referred to. A turn is in at most one of the places
it passes through before it is listed, so lists never repeat it.

*Worktrees, skills* (`IsolationIsKept`, `SkillsGuideWithinApproval`). Under `isolation_lock` snapshots and patches are ordered; the
invariant orders the contents they saw. Between operations, instructions in the
install directory have earned the trust its record speaks of, which was approved if the
record is enabled (`Earned`), although the files need not be the record's: generated
ones have no instructions, others have earned Community at least (`Decent`), and
only a directory of the operator, worth no more than that, delivers a manifest without
files. The theorem (`SkillAssumption`)
is about one process per install directory, as is the run: `installed.json` is
written whole by each process, and two of them overwrite each other's records.

*Harness* (`DirectoriesServedAsAsked`, `HarnessTypeCorrect`). Merging a layer keeps
weights that fit the strategy (`MergeFits`), and loading brings in agents of the
global file and of one directory's only (`LoadedFields`); the invariant carries
both to every orchestrator built, and that flags and variables hold (`Holds`), in a
directory opened later as in the first. The confinement part goes from the refusals
back to what a sandbox asks for: a runtime that was detected works and is the one
named (`DetectedWorks`), and where hosts are to be filtered it is one that filters
(`BuiltAreConfined`). Assumptions: a layer's weights are written out
or absent, neither environment nor flags define agents or write weights, and an
agent is known by the file that defines it (`definedBy`, a history field).

*Planner* (`PlansAlwaysCanFinish`). Were each task of a set to wait for one of the
set, Kahn's algorithm could end with all others: so what `validate` accepts is
acyclic (`AcceptedIsAcyclic`). Conversely a graph in which tasks name earlier ones
once is accepted (`OrderedIsAccepted`), and the rules' pipelines are of that kind
for all 128 shapes of a goal, with and without `always_validate`, so that falling back
to them never fails for a goal that has words; their first task of work waits for all
that only looks (`AtWorkTogether`, `WorkInOrder`). What the
parser makes of a reply is a recursive function of its lines; that it exists and
takes tasks from usable lines only is shown by the least line without
(`ParseExists`, `ParsedFromLines`).

*Sandboxes* (`MergesKeepBoth`, `SandboxesStayFaithful`, `RelaysAreFaithful`). A path
nobody edited since the comparison is to be applied and as recorded, applied and the
agent's, or as it was found (`PathsInStep`). Of a relay one chunk of input is under
way at a time, and the output on its way is what was read of it and not yet shown,
with the exit behind it (`ExitInTurn`). Of a launch the invariant says where the work
is at each point of the call: in a copy from the turn until it is merged, and a copy
that is gone cannot be collected (`WorkInStep`). A launch without a session collects
nothing, so the promise leaves it out where the sandbox holds a copy.

*Routing, notes, terminal* (`OneTargetWins`, `OverrunsAreBounded`, `HistoryAlwaysAgrees`,
`PagesAreTrue`, `RecordsStayTrue`, `ScreenStaysCurrent`). Each dimension of a score
is a percentage whatever a target reports and the history holds
(`DimensionsAreClamped`), so scores lie within the sum of the weights
(`ScoresAreBounded`), one of them is the best, and of the targets that have it one
is the first: routing is decided and cannot get stuck. Assumptions
(`ScoringAssumption`): metrics are numbers or unknown, weights are not negative
(`RouterWeights::validate`). The overrun is bounded because what is spent and one price for each attempt
in flight stay below the ceiling and one price per job (`LedgerInStep`), which a
routing keeps since it saw a ledger below the ceiling. The totals agree since rows
are told apart by task and number, and a history differs from them by what was
refused, is being learned or was not loaded (`lost`, `Pending`, `unread`); for the tokens it is proved that the sum of a
finite set exists and does not depend on the order in which rows are taken
(`SumsExist`, `TokensOfRow`), by the smallest set for which it would. On the screen one session is under way, the one
the loop holds, and its events are buffered in the order in which it published
them (`Shows`, `EventsInTurn`).

*Confinement* (`ProfilesHold`). The grants are what the arguments of the runtime
allow; for bubblewrap the last stage of mounts that covers a path decides
(`LastDecides`). A credential lies in the private home, in no other entry of home,
is not CUMA's executable nor `resolv.conf`, and so is shown only by a path that was
given and contains it (`Given`, which the property names as its exception) or by a
workspace among the credentials; those in any other workspace are hidden again. What
the command names and no mount shows is bound after everything that could hide it but
the workspace and the credentials in it; what an earlier mount shows is hidden by
the private home only if home lies in a system directory (`HomeInSystem`). Assumptions
(`LayoutAssumption`): paths are sequences of names, and entries the profile sorts are
not called like directories of the system (they start with a dot).

*Side by side* (`EachProtocolRuns`, `ProtocolsTypeCorrect`, `ProtocolsKeepPromises`;
`EachPartRuns`, `LocalTypeCorrect`, `LocalKeepsPromises`). A behaviour of
`MC_Protocols` or of `MC_Local` is one of each component's own specification, since
a step of one leaves the variables of the others alone and the initial states
restrict theirs. What was proved of each component therefore holds of the
specification that the runs check, for all values of the constants, with all its
types. `InstancesAssumption` of `MC_Local` provides what the theorems on skills and
confinement assume.

### Only model-checked

Liveness (`SessionsEnd`, `EveryTaskEnds`, `BreakersReopen`, `StreamsEnd`,
`PromptsAreAnswered`) is out of the prover's reach, which knows neither fairness nor
`ENABLED`. Every other property of the passing runs is stated by a theorem.

## Abstractions

* Scores in `TaskExecution`: any candidate may win, because latency, history and
  health move the score between any two routings. `RouteScore` computes them, in
  whole percentages where the code has floating point.
* A target of `TaskExecution` stands for a pair that passes the router's fixed
  filters (enabled, not excluded or pinned away, capable). An agent whose
  discovery failed is registered `Unavailable` and is not in `Target`.
* Breakers of different keys have one lock each call; those asked in one routing
  or told of one attempt are taken together, as no property relates two of them.
* The workspace index is constant, and complete up to what `Index` says.
* Paths are relative; absolute paths an agent may report are left out.
* What an external program or service does (git, bubblewrap, a sandbox service, a
  peer, an MCP server) is what the code relies on, with the failures it handles.
* Texts (prompts, messages, artifacts, log lines) are left out or named.
* Links and permissions in a copied workspace are contents like any other.
* In `Confine` links are resolved; `/dev`, `/proc`, the network and the environment
  the agent is left with are not modelled, and ai-jail's own profile is external.
* In `ConfigLayers` a plugin does not filter hosts: `refusals` is asked before
  anything probes it, when its capabilities say so (`plugin.rs:178-185`).
* In `SkillStore` an install directory is configured, and a package with files has a
  `SKILL.md` among them.
* In `Tui` a session's events are published in turn. The output of an agent goes
  through a task of its own, which `execute_task` waits for up to two seconds
  (`executor.rs:1288-1313`); no adapter in the repository keeps its sender longer.

## Observations without a run

Met while modelling and not the subject of a run; what would violate a property
the models exempt by a named history variable.

* `breaker.rs:102`: nothing records that a probe was sent, so a half open breaker
  lets every routing through until a result is in, where its comments speak of one
  probe. It shows with a model's breaker; an agent's never gets that far
  (*agent_return*).
* `executor.rs:844`: a task is announced and remembered as completed before its
  worktree lands (`executor.rs:528`), so a page "was completed by" may be about a task
  that ended Failed; `NotesAreTrue` counts a worktree that was kept aside among the
  completed ones.
* `server.rs:700-730` (A2A): page tokens are offsets, so a walk over a listing with a
  `contextId` or a status can skip a task that matches throughout, when another one
  settles or is evicted for a task that does not match (`slipped`).
* `plugin.rs:229-231`: a plugin that copies the workspace and whose open reply names
  no session gives a launch that ends well and brings nothing back.
* `cuma-tunnel.mjs:45`: `exit` may be emitted before the last output was read, which is
  then not shown, where its lines 8 and 12-13 say that no output is lost.
* `opensandbox.rs`, `e2b.rs`: a failed feeder is not reported; the agent waits for
  its input until the deadline.
* `ports.rs:394`: a deadline within open or finish leaves the sandbox to its lease.
* `sync.rs:316`: a merge that fails halfway leaves the files written so far, and an
  edit between comparison and writing is overwritten.
* `server.rs` (A2A): a caller may be told Completed before the store is written.
* `session.rs`: two saves of one session share a temporary file.
* `confine.rs`: a configured writable path, or a path of the agent's command, that
  contains the home directory shows its credentials under bubblewrap, which hides
  again only those inside the workspace. Where home lies in a system directory such
  as `/opt`, the private home hides what the command names (`confine.rs:388-389`).
  `docs/SECURITY.md` does not tell runtimes apart: under firejail and sandbox-exec all
  of home but the credentials is readable, and a path of the command among those
  stays hidden.
* `manager.rs:284`: a package without files leaves the older ones under a record of
  its own. Of the packages CUMA's registries deliver that lifts nothing beyond what
  was approved, which `GuidanceWithinApproval` shows.
* `manager.rs:287-291`: a crash or a refused save between a skill's files and
  `installed.json` serves the new files under the old record; two processes over one
  install directory overwrite each other's records.
* `merge.rs:60-63`: a project that sets `router.strategy` alone takes that strategy's
  weights, as its test has it; `docs/CONFIGURATION.md:14-15` and `lib.rs:11-12` of
  `cuma-config` say that it keeps every global weight.
* `harness.rs:657`: a plugin that filters hosts is refused where confinement is
  required and hosts are listed, because it was not probed yet.
* `harness.rs:726-734`: when the routing history cannot be loaded, the process routes
  with an empty one and goes on writing to the old totals.
* `heuristic.rs:311-331`: the rules only warn of tasks nobody can run; a model's plan
  may be nothing but two inspections (`llm.rs:404-418`).
* `state.rs` (TUI): tokens of an attempt are counted by two events; a plan is shown
  only through events nobody publishes.
* `task.rs:417`: a repeated dependency makes an acyclic plan invalid, which sends
  the planner back to its rules.
* `adaptive.rs`: the mean of tokens is over all attempts, its comment says
  successful ones.

## Not modelled

`cuma-providers` (one request, one answer), the command guard and `rtk` (matching
on command lines), argument parsing and printing of `cuma-cli`, drawing of
`cuma-tui`, CUMA's own MCP server (an SDK that hands calls on), downloads of agent
and MCP registries, unpacking of skills, TOML, SQL migrations and the mocks of
`cuma-testkit`: they keep no state that two actors or a failure could disturb, or
are text processing. Checkpoints of a whole session (`prepare_workspace`) and the
delegate of `execute_task` are left out as well. `PROJECT.json` has the status of
every part.

## Plan

Done: the ledger, the walk, task execution and their composition by refinement;
the servers and clients of all three protocols; sandboxes, worktrees, skills,
confinement, routing and its memory, configuration, planning, the terminal
interface.

Proved: every invariant and every action property of the passing runs, and that
routing is decided.

Left to model: an index that lags behind the files, the probes under way while a
breaker is half open.
