SPECIFICATION Spec
CONSTANTS
  Sources <- Texts
  MaxLength = 4
INVARIANTS
  TypeOK
  PlacedAtStart
  StringsWhole
PROPERTIES
  ImplementsStream
  ReachesEnd
CHECK_DEADLOCK FALSE
