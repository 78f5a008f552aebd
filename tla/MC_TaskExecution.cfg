\* Two tasks, two agents; a failure of the agent that is retried before it is
\* rerouted, and one of a model.
CONSTANTS
  w1 = w1
  w2 = w2
  x = x
  y = y
  m = m
  NoModel = NoModel
  Worker = {w1, w2}
  Target <- MCTarget
  Class = {"RateLimit", "ModelUnavailable"}
  FailureThreshold = 1
  SuccessThreshold = 1
  Cooldown = 2
  MaxAttempts = 3
  MaxAttemptsPerTarget = 2
SPECIFICATION Spec
SYMMETRY Symmetry
INVARIANTS TypeOK NeverBackToAbandoned HandoffFollowsReroute OnlyOwnFailuresCount
PROPERTIES BudgetIsSpent OpenBreakersRecover
