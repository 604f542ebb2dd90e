SPECIFICATION Spec
CONSTANTS
  Names = {x, y}
  Habits = {}
  MaxDecls = 3
  MaxDepth = 5
INVARIANTS
  TypeOK
  SameMeaning
  AcceptedByC
  ConstsKept
CHECK_DEADLOCK FALSE
