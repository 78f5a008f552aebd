\* Two tasks share one agent and its model; failures of every kind that is
\* handled differently, a longer cooldown and streaks of two.
CONSTANTS
  w1 = w1
  w2 = w2
  x = x
  y = y
  m = m
  NoModel = NoModel
  Worker = {w1, w2}
  Target <- MCOneTarget
  Class = {"RateLimit", "AgentCrash", "ModelUnavailable", "ContextOverflow"}
  FailureThreshold = 2
  SuccessThreshold = 2
  Cooldown = 2
  MaxAttempts = 2
  MaxAttemptsPerTarget = 1
SPECIFICATION Spec
PROPERTIES EveryTaskEnds BreakersReopen
