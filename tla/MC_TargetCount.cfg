\* One task, two agents.
CONSTANTS
  w1 = w1
  w2 = w2
  x = x
  y = y
  m = m
  NoModel = NoModel
  Worker = {w1}
  Target <- MCTarget
  Class = {"RateLimit"}
  FailureThreshold = 3
  SuccessThreshold = 1
  Cooldown = 1
  MaxAttempts = 3
  MaxAttemptsPerTarget = 2
SPECIFICATION Spec
INVARIANT CountsThisTargetOnly
