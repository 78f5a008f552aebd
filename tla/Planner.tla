------------------------------ MODULE Planner ------------------------------
(***************************************************************************)
(* How a goal becomes a task graph (cuma-planner): the model's reply is    *)
(* parsed line by line (llm.rs), and anything unusable falls back to the   *)
(* rules (heuristic.rs); TaskGraph::validate (task.rs of cuma-core) is     *)
(* asked before either is returned.                                        *)
(*                                                                         *)
(* A graph is the sequence of its tasks in the planner's order; a task     *)
(* names its dependencies by position, possibly more than once: they are a *)
(* bag.  A line is what splitting it yields: a row with a type and a bag   *)
(* of dependencies by line number, or something that is no row.            *)
(***************************************************************************)
EXTENDS Naturals, Sequences, FiniteSets, Bags

CONSTANTS Reply,      \* replies of the model: sequences of lines
          Routable    \* task types some registered agent covers

ASSUME ReplyAssumption ==
  \A lines \in Reply :
    /\ DOMAIN lines = 1..Len(lines) /\ Len(lines) \in Nat
    /\ \A i \in DOMAIN lines : IsABag(lines[i].deps) /\ DOMAIN lines[i].deps \subseteq Nat

Shape == [changes : BOOLEAN, research : BOOLEAN, tests : BOOLEAN, investigation : BOOLEAN,
          review : BOOLEAN, docs : BOOLEAN, design : BOOLEAN]

VARIABLES worded,    \* whether anything is left of the goal once it is trimmed
          reply,     \* the reply a model's plan was made from, otherwise <<>>
          plan,      \* the graph plan() returned
          planner    \* who made it: "nobody" yet, "model", "rules", or "error"

planVars == <<worded, reply, plan, planner>>

Task(type, deps) == [type |-> type, deps |-> deps]

-----------------------------------------------------------------------------
\* TaskGraph::validate. Kahn's algorithm counts a dependency as often as it is
\* named and takes one off when it visits it: a task gets to exactly zero once its
\* dependencies are visited, each named once. It visits the least set closed
\* under that, and what is left is a cycle to it.
Dangling(g) == \E t \in DOMAIN g : ~(DOMAIN g[t].deps \subseteq DOMAIN g)
AtZero(task, visited) == \A d \in DOMAIN task.deps : d \in visited /\ task.deps[d] = 1
Drains(g, visited) == \A t \in DOMAIN g : AtZero(g[t], visited) => t \in visited
Drained(g) == {t \in DOMAIN g : \A visited \in SUBSET DOMAIN g : Drains(g, visited) => t \in visited}
Validate(g) == ~Dangling(g) /\ Drained(g) = DOMAIN g

\* parse_plan: rows that parse and that somebody can run become tasks; a
\* dependency is kept when it is the number of one of the tasks so far.
Row(line) == line.row
Usable(line) == Row(line) /\ (Routable = {} \/ line.type \in Routable)
Known(kept, d) == d >= 1 /\ d <= kept
KnownDeps(deps, kept) == [d \in {d \in DOMAIN deps : Known(kept, d)} |-> deps[d]]
ParseLine(g, line) ==
  IF Usable(line) THEN Append(g, Task(line.type, KnownDeps(line.deps, Len(g)))) ELSE g
Parsed(lines) ==
  LET graph[n \in 0..Len(lines)] ==
        IF n = 0 THEN <<>> ELSE ParseLine(graph[n - 1], lines[n])
  IN  graph[Len(lines)]
\* Only earlier lines are depended on, so nothing is validated.
ModelPlanUnchecked(lines) == Len(Parsed(lines)) >= 2
ModelPlan(lines) == Len(Parsed(lines)) >= 2 /\ Validate(Parsed(lines))

-----------------------------------------------------------------------------
\* HeuristicPlanner::plan: the pipeline of each shape, validated and reviewed at its
\* end if always_validate is left as new() sets it.
When(condition, seq) == IF condition THEN seq ELSE <<>>
After(deps) == SetToBag(deps)
Preparation(s) ==
  <<Task("Inspection", After({}))>>
    \o When(s.research, <<Task("Research", After({1}))>>)
    \o When(s.design, <<Task("Design", After({1}))>>)
\* Research and design are not added to what the work waits for.
InspectionOnly(p) == {1}
Prerequisites(p) == 1..Len(p)
FinishPlan(s, p, always) ==
  LET n == Len(p) + 1
      w == After(Prerequisites(p))
  IN  CASE s.investigation /\ ~s.changes -> <<Task("BugFix", w)>>
        [] s.review /\ ~s.changes /\ ~s.investigation -> <<Task("Review", w)>>
        [] s.docs /\ ~s.changes /\ ~s.investigation /\ ~s.review -> <<Task("Documentation", w)>>
        [] OTHER ->
             <<Task(IF s.investigation THEN "BugFix" ELSE "Implementation", w)>>
               \o When(s.tests, <<Task("Testing", After({n}))>>)
               \o When(always,
                       << Task("Validation", After(IF s.tests THEN {n, n + 1} ELSE {n})),
                          Task("Review", After({IF s.tests THEN n + 2 ELSE n + 1})) >>)
RulesPlan(s, always) == Preparation(s) \o FinishPlan(s, Preparation(s), always)

-----------------------------------------------------------------------------
PlanInit == worded \in BOOLEAN /\ reply = <<>> /\ plan = <<>> /\ planner = "nobody"

\* "cannot plan an empty goal", with a model or without.
RejectGoal ==
  /\ planner = "nobody" /\ ~worded
  /\ planner' = "error"
  /\ UNCHANGED <<worded, reply, plan>>

\* LlmPlanner::plan: the provider's reply is a plan ...
PlanWithModel ==
  /\ planner = "nobody" /\ worded
  /\ \E lines \in Reply :
       /\ ModelPlan(lines)
       /\ reply' = lines /\ plan' = Parsed(lines) /\ planner' = "model"
  /\ UNCHANGED worded

\* ... or it is unusable, or the provider failed, or there is none: the rules' plan,
\* once validated. Tasks nobody can run are only warned of.
PlanWithRules ==
  /\ planner = "nobody" /\ worded
  /\ \E s \in Shape, always \in BOOLEAN :
       IF Validate(RulesPlan(s, always))
       THEN plan' = RulesPlan(s, always) /\ planner' = "rules"
       ELSE planner' = "error" /\ UNCHANGED plan
  /\ UNCHANGED <<worded, reply>>

PlanNext == RejectGoal \/ PlanWithModel \/ PlanWithRules

PlanSpec == PlanInit /\ [][PlanNext]_planVars

PlanTypeOK ==
  /\ worded \in BOOLEAN /\ planner \in {"nobody", "model", "rules", "error"}
  /\ reply \in Reply \cup {<<>>}
  /\ DOMAIN plan = 1..Len(plan)
  /\ \A t \in DOMAIN plan : IsABag(plan[t].deps) /\ DOMAIN plan[t].deps \subseteq Nat

\* What only looks at the repository and prepares the work.
Looking == {"Inspection", "Research", "Design"}

\* "a plan that cannot make progress should fail loudly at submission, not
\* deadlock later" (task.rs): only an empty goal is an error, whatever a model
\* replied, and every plan has dependencies that are tasks of it, each named once,
\* and go round in no circle.  A model's plan has two tasks at least and only tasks
\* somebody can run; the rules' plan has work that waits for all the looking.
PlansCanFinish ==
  /\ planner # "nobody" => (planner = "error" <=> ~worded)
  /\ planner \in {"model", "rules"} =>
       /\ \A t \in DOMAIN plan : \A d \in DOMAIN plan[t].deps :
            d \in DOMAIN plan /\ plan[t].deps[d] = 1
       /\ \A S \in (SUBSET DOMAIN plan) \ {{}} : \E t \in S : DOMAIN plan[t].deps \cap S = {}
  /\ planner = "model" =>
       Len(plan) >= 2 /\ (Routable # {} => \A t \in DOMAIN plan : plan[t].type \in Routable)
  /\ planner = "rules" =>
       \E t \in DOMAIN plan :
         /\ plan[t].type \notin Looking
         /\ \A k \in DOMAIN plan : plan[k].type \in Looking => k \in DOMAIN plan[t].deps

\* "DEPENDS_ON is a comma-separated list of 1-based line numbers of earlier
\* lines" (the prompt in llm.rs): a task that the model put after another one of
\* the plan depends on it.
Kept(i) == Usable(reply[i])
TaskOf(i) == Cardinality({k \in 1..i : Kept(k)})
LinesKeepTheirOrder ==
  planner = "model" =>
    \A i \in DOMAIN reply : Kept(i) =>
      \A d \in DOMAIN reply[i].deps :
        d \in 1..(i - 1) /\ Kept(d) => TaskOf(d) \in DOMAIN plan[TaskOf(i)].deps
=============================================================================
