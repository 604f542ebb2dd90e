SPECIFICATION Spec
CONSTANTS
  Types <- MCTypes
  Const <- MCConst
  Fields <- MCFields
  Pieces <- MCPieces
  Integers <- MCIntegers
  Floats <- MCFloats
  Leaves <- MCLeaves
  Siblings <- MCSiblings
  Params <- MCParams
  Wide <- MCWide
  Operators = {"SUB", "MUL", "EQ"}
  Members = {"m", "o"}
  Declared <- MCDeclared
  Habits = {}
  MaxHeight = 3
INVARIANTS
  TypeOK
  SameTree
  SameType
  EffectsKept
CHECK_DEADLOCK FALSE
