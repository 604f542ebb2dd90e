SPECIFICATION Spec
CONSTANTS
  Arguments = {"other"}
  Outputs = {"bare", "other"}
  Entries = {"main"}
  TomlOutputs = {"elsewhere"}
  MaxLines = 3
  Habits = {}
INVARIANTS
  TypeOK
  NewProjectBuilds
  SuccessIsReal
PROPERTIES
  EditsKept
