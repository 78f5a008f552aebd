SPECIFICATION PlanSpec
CONSTANTS
  Reply <- MCReply
  Routable = {"Implementation"}
INVARIANT LinesKeepTheirOrder
CHECK_DEADLOCK FALSE
