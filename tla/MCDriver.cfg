SPECIFICATION Spec
CONSTANTS
  Runs = {r1, r2, r3}
  CheckRuns = {r3}
  RunRuns = {r2}
  Modules = {m1, m2}
  MaxImports <- ImportsOf
  Overlap = FALSE
INVARIANTS
  TypeOK
  EverythingFreed
  BuildsItsOwn
  
PROPERTIES
  ErrorsStopTheRun
CHECK_DEADLOCK FALSE
