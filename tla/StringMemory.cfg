SPECIFICATION Spec
CONSTANTS
  ArenaInitial = 5
  MaxChunks = 3
  SsoMax = 2
  BufInitial = 2
  Capacities = {2}
  Pieces = {2}
  Globals = 0
  MaxLen = 4
  MaxVars = 2
  MaxStrs = 1
  MaxScopes = 3
  MaxArenas = 2
  MaxRisks = 0
CONSTRAINT FewRisks
CHECK_DEADLOCK FALSE
INVARIANTS
  HeapSound
  LiveData
