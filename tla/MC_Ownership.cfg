\* Two or three tasks race for the two files of a small workspace.
CONSTANTS
  t1 = t1
  t2 = t2
  t3 = t3
  Task <- MCTask
  Name <- MCName
  Request <- MCRequest
  Index <- MCIndex
SPECIFICATION Spec
SYMMETRY Symmetry
INVARIANTS TypeOK ExclusiveClaims OneWriterPerFile GrantsHold
