\* One session, one task of which is split.
CONSTANTS
  s1 = s1
  s2 = s2
  a = a
  b = b
  c = c
  d = d
  e = e
  Session = {s2}
  Planned = {b, c, d, e}
  Plan <- MCPlan
  Deps <- MCDeps
  Priority <- MCPriority
  ReadOnly = {b, d}
  Names <- MCNames
  Name <- MCName
  Index <- MCIndex
  Artifact <- MCArtifact
  MaxParallel = 1
  MaySplit = {e}
  Isolation = FALSE
SPECIFICATION Spec
CHECK_DEADLOCK FALSE
INVARIANT WalksToTheEnd
