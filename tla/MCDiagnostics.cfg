SPECIFICATION Spec
CONSTANTS
  Codes = {c1, c2}
  NoHelp = NoHelp
  MaxCalls = 4
INVARIANTS
  TypeOK
  ListShape
  HasErrorsExact
  AnnotationsMatch
PROPERTY ImplementsLog
CHECK_DEADLOCK FALSE
