\* One task after the other on one agent, without end.
CONSTANTS
  w1 = w1
  w2 = w2
  x = x
  y = y
  m = m
  NoModel = NoModel
  Worker = {w1}
  Target <- MCOneTarget
  Class = {"RateLimit", "AgentCrash", "ModelUnavailable"}
  FailureThreshold = 2
  SuccessThreshold = 1
  Cooldown = 2
  MaxAttempts = 2
  MaxAttemptsPerTarget = 1
SPECIFICATION BusySpec
PROPERTY AgentsComeBack
