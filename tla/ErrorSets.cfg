SPECIFICATION Spec
CONSTANTS
  Errors <- Both
  Named <- NamedSets
  Programs <- MCPrograms
CHECK_DEADLOCK FALSE
INVARIANTS
  TypeOK
  NoPanic
  ErrorsDeclared
  ErrorsRecognised
