SPECIFICATION Spec
CONSTANTS
  ArenaInitial = 5
  MaxChunks = 2
  SsoMax = 2
  BufInitial = 2
  Capacities = {2}
  Pieces = {2}
  Globals = 1
  MaxLen = 4
  MaxVars = 3
  MaxStrs = 1
  MaxScopes = 3
  MaxArenas = 2
  MaxRisks = 1
CONSTRAINT FewRisks
CHECK_DEADLOCK FALSE
INVARIANTS
  ArenasMatch
  LiveData
  MemorySafe
  NothingLost
