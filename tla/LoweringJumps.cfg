SPECIFICATION Spec
CONSTANTS
  Names = {}
  NoName = NoName
  Ops = {"plain", "break", "continue", "return", "try"}
  MaxNest = 1
  MaxDepth = 4
  MaxDefers = 1
CHECK_DEADLOCK FALSE
INVARIANTS
  TypeOK
  StackAgreement
  DeferredJumpsLand
  Balanced
PROPERTIES
  DirectJumpsLand
