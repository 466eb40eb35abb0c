SPECIFICATION Spec
CONSTANTS
  Names = {}
  NoName = NoName
  Ops = {"plain", "return"}
  MaxNest = 0
  MaxDepth = 3
  MaxDefers = 1
INVARIANTS
  DefersRunOnEveryExit
CHECK_DEADLOCK FALSE
