\* Two sessions that write one file; nothing is split.
CONSTANTS
  s1 = s1
  s2 = s2
  a = a
  b = b
  c = c
  d = d
  e = e
  Session = {s1, s2}
  Planned = {a, b, c, d, e}
  Plan <- MCPlan
  Deps <- MCDeps
  Priority <- MCPriority
  ReadOnly = {b, d}
  Names <- MCNames
  Name <- MCName
  Index <- MCIndex
  Artifact <- MCArtifact
  MaxParallel = 2
  MaySplit = {}
  Isolation = FALSE
SPECIFICATION Spec
CHECK_DEADLOCK FALSE
INVARIANT DeferredTasksRun
