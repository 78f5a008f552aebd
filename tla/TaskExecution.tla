---------------------------- MODULE TaskExecution ----------------------------
(***************************************************************************)
(* execute_task: route, run, record, react, until the task is settled      *)
(* (cuma-orchestrator executor.rs), for tasks that run side by side and    *)
(* share the circuit breakers and the agents' health (cuma-registry        *)
(* agents.rs, cuma-router router.rs).                                      *)
(*                                                                         *)
(* A worker executes one task after another: the tasks of one wave, or of  *)
(* different sessions.  One step is what execute_task does between two     *)
(* points where another task can run: an await, or the release of a lock   *)
(* on state that the next step reads again.  Breakers of different keys    *)
(* are independent, so those asked by one routing, or told of one attempt, *)
(* are taken together.                                                     *)
(*                                                                         *)
(* Target holds the pairs that pass the router's fixed filters: enabled,   *)
(* not excluded or pinned away, capable, and no cost budget configured.    *)
(* The score by which the router prefers one candidate to another moves    *)
(* with observed latency, cost and reliability, so any candidate may win.  *)
(***************************************************************************)
EXTENDS Resilience, Sequences, FiniteSets

CONSTANTS Worker,    \* tasks executing at the same time
          Target,    \* agent and model pairs the router may consider
          NoModel,   \* the model of an agent that advertises none
          Class      \* the error classes attempts fail with

ASSUME TargetAssumption == \A g \in Target : g = <<g[1], g[2]>>
ASSUME ClassAssumption  == Class \subseteq ErrorClass

Agent == {g[1] : g \in Target}

ASSUME AgentAssumption  == "none" \notin Agent

VARIABLES
  agentBreaker,   \* agent -> breaker, BreakerKey::Agent
  modelBreaker,   \* target -> breaker, BreakerKey::Model
  health,         \* agent -> state in the registry
  task,           \* worker -> the locals of its execute_task
  charged         \* agent -> failures of its own so far, counted up to the
                  \* threshold (history variable)

vars == <<agentBreaker, modelBreaker, health, task, charged>>

NoHandoff == [from |-> "none", to |-> "none", delivered |-> TRUE]

\* The locals when a task starts.  `seen' is the registry snapshot a routing
\* uses, `class' the failure being handled, `noted' the health to write for it.
Fresh ==
  [pc |-> "idle", status |-> "Pending", attempts |-> <<>>, onTarget |-> 0,
   abandoned |-> {}, target |-> <<>>, handoff |-> NoHandoff,
   seen |-> {}, class |-> "none", noted |-> "none"]

Status == {"Pending", "Running", "Completed", "Failed", "Replanned"}

Handoff == [from : Agent \cup {"none"}, to : Agent \cup {"none"},
            delivered : BOOLEAN]

TaskState ==
  [pc : {"idle", "top", "route", "running", "succeeded", "failed", "probe",
         "noting", "react"},
   status : Status, attempts : Seq(Target), onTarget : Nat,
   abandoned : SUBSET Target, target : Target \cup {<<>>},
   handoff : Handoff, seen : SUBSET Agent,
   class : Class \cup {"none"}, noted : Health \cup {"none"}]

TypeOK ==
  /\ agentBreaker \in [Agent -> Breaker]
  /\ modelBreaker \in [Target -> Breaker]
  /\ health \in [Agent -> Health]
  /\ task \in [Worker -> TaskState]
  /\ charged \in [Agent -> 0..FailureThreshold]

Init ==
  /\ agentBreaker = [a \in Agent |-> NewBreaker]
  /\ modelBreaker = [g \in Target |-> NewBreaker]
  /\ health = [a \in Agent |-> "Unknown"]
  /\ task = [w \in Worker |-> Fresh]
  /\ charged = [a \in Agent |-> 0]

-----------------------------------------------------------------------------
(* The router.                                                             *)

\* AgentRegistry::snapshot, reduced to what routing asks of it.
Snapshot == {a \in Agent : IsRoutable(health[a])}

\* An abandoned target without a model stands for its whole agent.
Excluded(g, abandoned) ==
  \E x \in abandoned : x[1] = g[1] /\ x[2] \in {NoModel, g[2]}

\* A router that goes by the registry alone.
AgentAllowedBySnapshot(seen, a) == a \in seen

\* consider_agent and consider_target, over a snapshot and the breakers.
AgentAllowed(seen, a) == a \in seen /\ AllowsRequest(agentBreaker[a])

\* Every target that is up, the ones the task gave up included.
CandidatesAgain(seen, abandoned) ==
  {g \in Target : /\ AgentAllowed(seen, g[1])
                  /\ g[2] # NoModel => AllowsRequest(modelBreaker[g])}

Candidates(seen, abandoned) ==
  {g \in Target : /\ AgentAllowed(seen, g[1])
                  /\ g[2] # NoModel => AllowsRequest(modelBreaker[g])
                  /\ ~Excluded(g, abandoned)}

\* Asking a breaker moves it: every breaker the router asked is as of now.
AskBreakers(seen) ==
  /\ agentBreaker' = [a \in Agent |-> IF a \in seen THEN StateAt(agentBreaker[a])
                                      ELSE agentBreaker[a]]
  /\ modelBreaker' = [g \in Target |->
                        IF AgentAllowed(seen, g[1]) /\ g[2] # NoModel
                        THEN StateAt(modelBreaker[g]) ELSE modelBreaker[g]]

-----------------------------------------------------------------------------
(* execute_task.                                                           *)

\* Change the locals of worker w.
Local(w, locals) == task' = [task EXCEPT ![w] = locals]

\* execute_task returns: its locals are gone, and nothing reads the attempts of
\* a settled task again.
Settled(status) == [Fresh EXCEPT !.status = status]

\* A new task begins in this slot.
Begin(w) ==
  /\ task[w].pc = "idle"
  /\ Local(w, [Fresh EXCEPT !.pc = "top"])
  /\ UNCHANGED <<agentBreaker, modelBreaker, health, charged>>

\* The head of the loop: out of budget, or a registry snapshot is taken.
LoopTop(w) ==
  /\ task[w].pc = "top"
  /\ IF Len(task[w].attempts) >= MaxAttempts
     THEN Local(w, Settled("Failed"))
     ELSE Local(w, [task[w] EXCEPT !.pc = "route", !.seen = Snapshot])
  /\ UNCHANGED <<agentBreaker, modelBreaker, health, charged>>

\* Route, mark the task running and deliver a pending handoff.
RouteTask(w) ==
  /\ task[w].pc = "route"
  /\ \E g \in Candidates(task[w].seen, task[w].abandoned) :
       LET h == task[w].handoff
       IN  Local(w, [task[w] EXCEPT
              !.pc = "running", !.status = "Running", !.target = g, !.seen = {},
              !.handoff = IF h.delivered THEN h
                          ELSE [h EXCEPT !.to = g[1], !.delivered = TRUE]])
  /\ AskBreakers(task[w].seen)
  /\ UNCHANGED <<health, charged>>

\* A task that waits for a candidate to turn up.
RoutingFailedWaits(w) ==
  /\ task[w].pc = "route"
  /\ Candidates(task[w].seen, task[w].abandoned) = {}
  /\ Local(w, [task[w] EXCEPT !.pc = "top"])
  /\ AskBreakers(task[w].seen)
  /\ UNCHANGED <<health, charged>>

\* Nothing survives the router's filters: the task fails.
RoutingFailed(w) ==
  /\ task[w].pc = "route"
  /\ Candidates(task[w].seen, task[w].abandoned) = {}
  /\ Local(w, Settled("Failed"))
  /\ AskBreakers(task[w].seen)
  /\ UNCHANGED <<health, charged>>

\* The adapter returned success: the breakers hear of it first.
AttemptSucceeds(w) ==
  LET g == task[w].target
  IN  /\ task[w].pc = "running"
      /\ agentBreaker' = [agentBreaker EXCEPT ![g[1]] = RecordSuccess(@)]
      /\ modelBreaker' = IF g[2] = NoModel THEN modelBreaker
                         ELSE [modelBreaker EXCEPT ![g] = RecordSuccess(@)]
      /\ Local(w, [task[w] EXCEPT !.pc = "succeeded"])
      /\ UNCHANGED <<health, charged>>

\* Then the registry, and the task is completed.
SuccessNoted(w) ==
  /\ task[w].pc = "succeeded"
  /\ health' = [health EXCEPT ![task[w].target[1]] = "Healthy"]
  /\ Local(w, Settled("Completed"))
  /\ UNCHANGED <<agentBreaker, modelBreaker, charged>>

\* record_failure that charges the agent for its models.
ChargeAgentAlways(br, g, class) == StateAt(RecordFailure(br, class))

\* CircuitBreakerRegistry::record_failure for the agent: a model that is not
\* available is not the agent's fault.
ChargeAgent(br, g, class) ==
  IF class = "ModelUnavailable" /\ g[2] # NoModel THEN StateAt(br)
  ELSE StateAt(RecordFailure(br, class))

\* The adapter failed or ran into its deadline: the breakers hear of it.
AttemptFails(w, class) ==
  LET g == task[w].target
  IN  /\ task[w].pc = "running"
      /\ agentBreaker' = [agentBreaker EXCEPT ![g[1]] = ChargeAgent(@, g, class)]
      /\ modelBreaker' = IF g[2] = NoModel THEN modelBreaker
                         ELSE [modelBreaker EXCEPT ![g] = RecordFailure(@, class)]
      /\ Local(w, [task[w] EXCEPT !.pc = "failed", !.class = class])
      /\ charged' = IF /\ class \in CountsAgainstHealth
                       /\ class = "ModelUnavailable" => g[2] = NoModel
                    THEN [charged EXCEPT ![g[1]] = Capped(@ + 1, FailureThreshold)]
                    ELSE charged
      /\ UNCHANGED health

\* The health to note is read from the agent's breaker, which other tasks may
\* have moved meanwhile.
ReadHealth(w) ==
  LET a  == task[w].target[1]
      br == StateAt(agentBreaker[a])
  IN  /\ task[w].pc = "failed"
      /\ \/ /\ task[w].class \in CountsAgainstHealth
            /\ agentBreaker' = [agentBreaker EXCEPT ![a] = br]
            /\ Local(w, [task[w] EXCEPT !.pc = "noting", !.noted = ToHealth(br.state)])
         \/ /\ task[w].class \notin CountsAgainstHealth
            /\ Local(w, [task[w] EXCEPT !.pc = "noting", !.noted = "none"])
            /\ UNCHANGED agentBreaker
      /\ UNCHANGED <<modelBreaker, health, charged>>

\* Then it is written to the registry, and the attempt is on the task's record.
FailureNoted(w) ==
  /\ task[w].pc = "noting"
  /\ health' = IF task[w].noted = "none" THEN health
               ELSE [health EXCEPT ![task[w].target[1]] = task[w].noted]
  /\ Local(w, [task[w] EXCEPT !.pc = "probe", !.noted = "none",
                 !.attempts = Append(@, task[w].target), !.onTarget = @ + 1])
  /\ UNCHANGED <<agentBreaker, modelBreaker, charged>>

\* A second snapshot, to find out whether there is anywhere else to go.
Probe(w) ==
  /\ task[w].pc = "probe"
  /\ Local(w, [task[w] EXCEPT !.pc = "react", !.seen = Snapshot])
  /\ UNCHANGED <<agentBreaker, modelBreaker, health, charged>>

\* The policy's decision about the failure that was just recorded.
Reaction(w) ==
  LET t == task[w]
  IN  Decide(t.class, Len(t.attempts), t.onTarget,
             Candidates(t.seen, t.abandoned \cup {t.target}) # {})

\* The next pass of the loop, with nothing of this one but its counters.
Again(w) == [task[w] EXCEPT !.pc = "top", !.target = <<>>, !.seen = {},
                            !.class = "none"]

\* A reroute whose handoff counts as delivered although nobody has it.
ReroutedUnannounced(w) ==
  [Again(w) EXCEPT
     !.onTarget = 0,
     !.abandoned = @ \cup {task[w].target},
     !.handoff = [from |-> task[w].target[1], to |-> "none", delivered |-> TRUE]]

\* The handoff is built from the failing agent; its receiver is not known yet.
Rerouted(w) ==
  [Again(w) EXCEPT
     !.onTarget = 0,
     !.abandoned = @ \cup {task[w].target},
     !.handoff = [from |-> task[w].target[1], to |-> "none", delivered |-> FALSE]]

\* The planner splits a task that overflowed a context, once; it has nothing to
\* offer for any other failure.  Whether this task is a half is open here.
React(w) ==
  /\ task[w].pc = "react"
  /\ \/ /\ Reaction(w) = "RetrySameTarget"
        /\ Local(w, Again(w))
     \/ /\ Reaction(w) = "Reroute"
        /\ Local(w, Rerouted(w))
     \/ /\ Reaction(w) = "Replan"
        /\ task[w].class = "ContextOverflow"
        /\ Local(w, Settled("Replanned"))
     \/ /\ Reaction(w) \in {"Replan", "GiveUp"}
        /\ Local(w, Settled("Failed"))
  /\ AskBreakers(task[w].seen)
  /\ UNCHANGED <<health, charged>>

-----------------------------------------------------------------------------

Tick ==
  /\ agentBreaker' = [a \in Agent |-> Older(agentBreaker[a])]
  /\ modelBreaker' = [g \in Target |-> Older(modelBreaker[g])]
  /\ UNCHANGED <<health, task, charged>>

\* What execute_task does by itself once a task has begun.
Proceed(w) ==
  \/ LoopTop(w)
  \/ RouteTask(w)
  \/ RoutingFailed(w)
  \/ AttemptSucceeds(w)
  \/ SuccessNoted(w)
  \/ \E class \in Class : AttemptFails(w, class)
  \/ ReadHealth(w)
  \/ FailureNoted(w)
  \/ Probe(w)
  \/ React(w)

Next == Tick \/ \E w \in Worker : Begin(w) \/ Proceed(w)

\* Every await of execute_task returns: invoke_adapter puts a deadline on the
\* agent, the other awaits are on locks that are held for a moment, and the
\* back-off is a bounded sleep.  Time passes.  New tasks come as they like.
Fairness == WF_vars(Tick) /\ \A w \in Worker : WF_vars(Proceed(w))

Spec == Init /\ [][Next]_vars /\ Fairness

\* The same with tasks that never stop coming.
BusySpec == Spec /\ \A w \in Worker : WF_vars(Begin(w))

-----------------------------------------------------------------------------
(* Properties.                                                             *)

\* Attempts in flight on agent a.
InFlight(a) == {w \in Worker : task[w].pc = "running" /\ task[w].target[1] = a}

\* Retrying, rerouting and both together are bounded by one budget per task
\* ("the hard bound that makes infinite retry impossible"), and nothing is
\* scheduled, announced or waited for once it is spent.
AttemptsBounded ==
  \A w \in Worker :
     /\ Len(task[w].attempts) <= MaxAttempts
     /\ task[w].pc \notin {"idle", "probe", "react"} =>
          Len(task[w].attempts) < MaxAttempts

\* A target that the task gave up is never tried again, however often the task
\* is rerouted and whatever other tasks do to the breakers in between.
NeverBackToAbandoned ==
  \A w \in Worker : task[w].pc \in {"running", "succeeded", "failed", "noting"} =>
     ~Excluded(task[w].target, task[w].abandoned)

\* Whoever runs a task after a reroute was handed the summary of an agent that
\* the task gave up; nobody runs with a handoff that was not announced.
HandoffFollowsReroute ==
  \A w \in Worker : task[w].pc = "running" =>
     LET t == task[w]
     IN  /\ t.handoff.delivered
         /\ (t.abandoned # {}) <=> (t.handoff.to # "none")
         /\ t.abandoned # {} => \E x \in t.abandoned : x[1] = t.handoff.from

\* An agent leaves the routing pool only for failures of its own: neither a
\* cancelled or misconfigured run nor a model of it that is not available takes
\* a healthy agent out of rotation.
OnlyOwnFailuresCount ==
  \A a \in Agent :
     agentBreaker[a].state # "Closed" \/ health[a] = "Unavailable"
       => charged[a] = FailureThreshold

\* While an agent's breaker is open, its attempts in flight only drain.
OpenBreakerSheds ==
  \A a \in Agent :
     ~AllowsRequest(agentBreaker[a]) /\ ~AllowsRequest(agentBreaker'[a])
       => InFlight(a)' \subseteq InFlight(a)

\* While an agent's breaker is open its cooldown runs: it starts over only when an
\* attempt that was in flight returns with a failure that counts, never because the
\* breaker is asked by a routing, told of another failure or read for the registry.
\* As attempts in flight only drain meanwhile, it starts over finitely often.
CooldownsRunOut ==
  \A a \in Agent :
     ~AllowsRequest(agentBreaker[a]) /\ ~AllowsRequest(agentBreaker'[a])
       => \/ agentBreaker'[a].age >= agentBreaker[a].age
          \/ \E w \in InFlight(a) : /\ task'[w].pc = "failed"
                                    /\ task'[w].class \in CountsAgainstHealth

\* An open breaker lets its agent recover: its attempts drain (OpenBreakerSheds) and
\* its cooldown runs (CooldownsRunOut), whoever asks, reports or reads meanwhile.
OpenBreakersRecover == [][OpenBreakerSheds /\ CooldownsRunOut]_vars

\* Where a task is within an attempt: the steps to the end of it, at most.
Stage == [idle |-> 0, noting |-> 1, succeeded |-> 2, failed |-> 2, running |-> 3,
          route |-> 4, top |-> 5, react |-> 6, probe |-> 7]

\* The steps execute_task has left: an attempt is on the record after seven, and
\* there are as many of them as the budget has room for.
StepsLeft(w) ==
  IF task[w].pc = "idle" THEN 0
  ELSE 7 * (MaxAttempts - Len(task[w].attempts)) + Stage[task[w].pc]

\* Every step of a task brings it nearer to its end, whatever the reaction to a
\* failure is and whatever other tasks do to breakers and health meanwhile: no
\* retry, reroute or search for a candidate goes round without spending budget.
\* A task takes at most 7 * MaxAttempts + 5 steps.
TasksDescend ==
  \A w \in Worker : task[w].pc # "idle" /\ task'[w] # task[w]
     => StepsLeft(w)' \in 0..(StepsLeft(w) - 1)

\* The retry budget bounds the attempts (AttemptsBounded) and every step of a task
\* spends of it (TasksDescend): "the hard bound that makes infinite retry
\* impossible" (retry.rs).
BudgetIsSpent == [][AttemptsBounded' /\ TasksDescend]_vars

\* Every task that begins is settled.
EveryTaskEnds == \A w \in Worker : task[w].pc # "idle" ~> task[w].pc = "idle"

\* No breaker stays open: late failures can restart its cooldown only as long
\* as attempts are in flight, and an open breaker admits no new ones.
BreakersReopen == \A a \in Agent : []<>AllowsRequest(agentBreaker[a])

\* "`attempts_on_target` counts only those against the agent+model that just
\* failed" (retry.rs, decide).
CountsThisTargetOnly ==
  \A w \in Worker : task[w].pc = "react" =>
     LET t == task[w]
     IN  t.onTarget = Cardinality({i \in DOMAIN t.attempts : t.attempts[i] = t.target})

\* "The breaker removes it from the routing pool for a cooldown, then lets
\* exactly one probe through" (breaker.rs): every agent is in the pool again
\* and again.
AgentsComeBack ==
  \A a \in Agent : []<>(IsRoutable(health[a]) /\ AllowsRequest(agentBreaker[a]))
=============================================================================
