SPECIFICATION Spec
CHECK_DEADLOCK FALSE
CONSTANTS
  Families <- MCFamilies
  WordsOf <- MCWordsOf
  PrimsInUse <- MCPrims
  MaxItems = 3
  MaxModules = 2
INVARIANTS
  ContextSound
  TypesMeanWhatTheySay
  RoomEnough
  DropsKnown
  LlvmBodies
