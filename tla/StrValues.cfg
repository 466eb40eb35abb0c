SPECIFICATION Spec
CONSTANTS
  WordBytes = 2
  SsoMax = 3
  Base = 3
  Literals <- SmallLiterals
  InternInitial = 4
  PoolCapacity = 2
  MaxLen = 4
  MaxStrs = 4
  MaxBlocks = 6
CHECK_DEADLOCK FALSE
INVARIANTS
  PoolSound
  ValuesKept
  SeenAsTexts
