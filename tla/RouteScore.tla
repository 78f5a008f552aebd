----------------------------- MODULE RouteScore -----------------------------
(***************************************************************************)
(* How the router (cuma-router) filters and scores the targets of a task:  *)
(* router.rs, score.rs and the blend of adaptive.rs.                       *)
(*                                                                         *)
(* Scores, rates and weights, floating point numbers of [0, 1] in the      *)
(* code, are whole percentages. A target is an agent with one of its       *)
(* models (or with none), a record of what the registry knows about it; a  *)
(* metric nobody reported is Unknown.                                      *)
(***************************************************************************)
EXTENDS Integers, Sequences

Unknown == -1

Least(a, b) == IF a <= b THEN a ELSE b
Clamp(n) == IF n < 0 THEN 0 ELSE Least(n, 100)
OrNeutral(metric, score) == IF metric = Unknown THEN 50 ELSE score

-----------------------------------------------------------------------------
\* Every dimension: higher is better, silence is neutral. The ceilings of cost
\* and latency are 30 USD per million tokens and 120 000 ms.
Skill(t, complexity) ==
  (OrNeutral(t.coding, t.coding) * (100 - complexity)
    + OrNeutral(t.reasoning, t.reasoning) * complexity) \div 100
Quality(t, complexity) == Clamp(70 + (Skill(t, complexity) * 30) \div 100)
CostScore(t) == OrNeutral(t.price, 100 - Clamp((t.price * 100) \div 30))
LatencyScore(t) == OrNeutral(t.latency, 100 - Clamp((t.latency * 100) \div 120000))
HealthMultiplier(state) ==
  CASE state \in {"Healthy", "Unknown"} -> 100
    [] state = "Degraded" -> 60
    [] state = "RateLimited" -> 30
    [] state = "Unavailable" -> 0
Reliability(t) == (OrNeutral(t.success, Clamp(t.success)) * HealthMultiplier(t.health)) \div 100
ContextScore(t, tokens) ==
  IF Unknown \in {t.window, tokens} THEN 50
  ELSE IF tokens >= t.window THEN 0
  ELSE Clamp(((100 - (tokens * 100) \div t.window) * 100) \div 66)

-----------------------------------------------------------------------------
\* One bucket of the history: (agent, model, task type).
NoStats == [attempts |-> 0, successes |-> 0, latency |-> 0, tokens |-> 0]

RunningMean(current, count, sample) ==
  IF count = 0 THEN sample ELSE (current * count + sample) \div (count + 1)

\* AdaptiveStats::record: both means are weighted by the attempts so far.
Fold(s, outcome) ==
  [attempts  |-> s.attempts + 1,
   successes |-> s.successes + (IF outcome.ok THEN 1 ELSE 0),
   latency   |-> RunningMean(s.latency, s.attempts, outcome.latency),
   tokens    |-> IF outcome.ok THEN RunningMean(s.tokens, s.attempts, outcome.tokens)
                 ELSE s.tokens]

\* RoutingHistory::blend: a bucket below min_samples says nothing, and one
\* that has just crossed it says half of what adaptive_weight allows.
Blend(prior, s, weight, minSamples) ==
  LET floor == IF minSamples = 0 THEN 1 ELSE minSamples
      sure  == Least(100, (s.attempts * 100) \div (floor * 2))
      pull  == (Clamp(weight) * sure) \div 100
      seen  == (s.successes * 100) \div s.attempts
  IN  IF weight <= 0 \/ s.attempts < floor THEN prior
      ELSE Clamp((prior * (100 - pull) + seen * pull) \div 100)

-----------------------------------------------------------------------------
\* consider_agent and consider_target: the filters, in no particular order.
Local(strategy, t) == strategy \in {"LocalFirst", "PrivacyFirst"} => t.protocol # "A2A"
Permitted(cfg, t) ==
  /\ t.enabled /\ t.available
  /\ t.agent \notin cfg.excludeAgents /\ t.model \notin cfg.excludeModels
  /\ cfg.pinAgent \in {"none", t.agent}
  /\ t.model # "none" => cfg.pinModel \in {"none", t.model}
  /\ t.health \in {"Healthy", "Degraded", "Unknown"}
  /\ ~t.breakerOpen
  /\ Local(cfg.strategy, t)

\* CapabilitySet::match_against is complete.
Covers(t, task) == task.requires \subseteq t.capabilities

\* CostProfile::estimate: one price stands for the pair of them.
Estimate(t, tokens) == IF Unknown \in {t.price, tokens} THEN Unknown ELSE t.price * tokens

\* A budget that only looks at estimates: what has no price is always bought.
AffordableByEstimate(t, task, spent, budget) ==
  LET estimate == Estimate(t, task.tokens)
  IN  Unknown \notin {budget, estimate} => estimate <= budget - spent

Affordable(t, task, spent, budget) ==
  budget # Unknown =>
    /\ budget - spent > 0
    /\ Estimate(t, task.tokens) <= budget - spent
Score(cfg, t, task, s) ==
  LET w == cfg.weights
  IN  Quality(t, task.complexity) * w.quality + CostScore(t) * w.cost
        + LatencyScore(t) * w.latency
        + Blend(Reliability(t), s, cfg.adaptive, cfg.minSamples) * w.reliability
        + ContextScore(t, task.tokens) * w.context

\* Router::route: what the filters leave; the best score of it wins, the first of
\* the registry among equals (the sort is stable).
Candidates(cfg, targets, task, abandoned, spent, budget) ==
  {i \in DOMAIN targets \ abandoned :
     /\ Permitted(cfg, targets[i]) /\ Covers(targets[i], task)
     /\ Affordable(targets[i], task, spent, budget)}
Wins(i, candidates, cfg, targets, task, history) ==
  LET score(k) == Score(cfg, targets[k], task, history[k])
  IN  \A k \in candidates : score(k) < score(i) \/ (score(k) = score(i) /\ i <= k)
=============================================================================
