------------------------------ MODULE TaskGraph ------------------------------
(***************************************************************************)
(* The task graph a session walks (cuma-core task.rs) and the split that   *)
(* re-planning makes of one task (cuma-planner heuristic.rs).              *)
(*                                                                         *)
(* A task that re-planning adds is the pair <<t, 1>> or <<t, 2>> of the    *)
(* planned task t it replaces; it copies t's specification.  What a plan   *)
(* says of its tasks is constant, so a graph is its tasks in insertion     *)
(* order (`order', a sequence) and their statuses.                         *)
(***************************************************************************)
EXTENDS Naturals, Sequences, FiniteSets, Functions

CONSTANTS Planned,   \* the tasks of every session's plan
          Deps,      \* planned task -> the planned tasks it depends on
          Priority   \* planned task -> its priority

Status   == {"Pending", "Ready", "Running", "Completed", "Failed", "Skipped",
             "Cancelled"}
Terminal == {"Completed", "Failed", "Skipped", "Cancelled"}

Half(t, i) == <<t, i>>
Halves     == Planned \X {1, 2}
Task       == Planned \cup Halves

\* A planned task is never one that re-planning adds.
ASSUME PlannedAssumption  ==
  /\ IsFiniteSet(Planned)
  /\ \A t \in Planned, u \in Task, i \in {1, 2} : t # Half(u, i)
ASSUME DepsAssumption     == Deps \in [Planned -> SUBSET Planned]
\* TaskGraph::validate lets no cycle through.
ASSUME AcyclicAssumption  ==
  \A S \in SUBSET Planned : S # {} => \E t \in S : Deps[t] \cap S = {}
ASSUME PriorityAssumption == Priority \in [Planned -> 0..255]

\* The task whose specification t carries.
Base(t) == IF t \in Planned THEN t ELSE t[1]

\* The second half waits for the first; the first for what the original did.
Dependencies(t) ==
  IF t \in Planned THEN Deps[t]
  ELSE IF t[2] = 1 THEN Deps[t[1]] ELSE {Half(t[1], 1)}

IsComplete(tasks, status) == \A t \in tasks : status[t] \in Terminal

\* ready_tasks when a failed dependency counts as settled.
ReadyOnceSettled(tasks, status) ==
  {t \in tasks : /\ status[t] \in {"Pending", "Ready"}
                 /\ \A d \in Dependencies(t) :
                       d \in tasks /\ status[d] \in Terminal}

\* ready_tasks when a failed task is tried again.
ReadyAgain(tasks, status) ==
  {t \in tasks : /\ status[t] \in {"Pending", "Ready", "Failed"}
                 /\ \A d \in Dependencies(t) :
                       d \in tasks /\ status[d] = "Completed"}

\* ready_tasks, as a set; Before is the order it is sorted in.
Ready(tasks, status) ==
  {t \in tasks : /\ status[t] \in {"Pending", "Ready"}
                 /\ \A d \in Dependencies(t) :
                       d \in tasks /\ status[d] = "Completed"}

Position(order, t) == CHOOSE i \in DOMAIN order : order[i] = t

Before(order, t, u) ==
  \/ Priority[Base(t)] > Priority[Base(u)]
  \/ /\ Priority[Base(t)] = Priority[Base(u)]
     /\ Position(order, t) < Position(order, u)

\* The first task of a nonempty set in that order, and the first n of them.
Earliest(order, S) == CHOOSE t \in S : \A u \in S \ {t} : Before(order, t, u)

Take(order, S, n) == {t \in S : Cardinality({u \in S : Before(order, u, t)}) < n}

\* Only the tasks that depend on the failed one directly.
CascadeSkipOneRound(tasks, status, failed) ==
  {t \in tasks : status[t] \notin Terminal /\ failed \in Dependencies(t)}

\* The tasks that depend on the failed one, directly or through other tasks
\* that are not terminal: S is closed under one round of cascade_skip's loop.
CascadeClosed(open, failed, S) ==
  /\ failed \in S
  /\ \A t \in open : Dependencies(t) \cap S # {} => t \in S

\* cascade_skip: its loop marks tasks until a round finds no more, so what it
\* skips is the least set that is closed under a round.
CascadeSkip(tasks, status, failed) ==
  LET open == {t \in tasks : status[t] \notin Terminal}
  IN  {t \in open : \A S \in SUBSET tasks : CascadeClosed(open, failed, S) => t \in S}
=============================================================================
