SPECIFICATION ArenaFairSpec
CONSTANTS
  InitSize = 20
  Requests = {1, 8, 13, 40}
  MaxUsed = 90
INVARIANTS
  ArenaTypeOK
  BlocksSound
  GoodWhileSmall
PROPERTY GrowReturns
CHECK_DEADLOCK FALSE
