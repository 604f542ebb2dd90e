SPECIFICATION ArenaSpec
CONSTANTS
  InitSize = 20
  Requests = {1, 8, 13}
  MaxUsed = 60
INVARIANT PointersStayGood
CHECK_DEADLOCK FALSE
