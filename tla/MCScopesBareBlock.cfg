SPECIFICATION Spec
CONSTANTS
  Names = {x, y}
  Habits = {"bare_block"}
  MaxDecls = 3
  MaxDepth = 5
INVARIANT SameMeaning
CHECK_DEADLOCK FALSE
