SPECIFICATION Spec
CONSTANTS
  Cap0 = 2
  Capacities <- MCCapacities
  Buf = 3
  Chars <- Tokens
  Pieces <- MCPieces
  Numbers <- MCNumbers
  Faults = TRUE
  Names <- MCNames
  Library <- MCLibrary
  Files <- MCFiles
  Modules = {"m"}
  MaxImports = 1
  Habits = {}
INVARIANTS
  TypeOK
  Bounded
  WholeUnlessLost
  AcceptedByC
  EveryFunctionOnce
CHECK_DEADLOCK FALSE
