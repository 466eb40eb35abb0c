SPECIFICATION FairSpec
CONSTANTS
  Families <- MCFamilies
  FnNames = {"f", "main"}
  Callee = "f"
  NoUnit = NoUnit
CHECK_DEADLOCK FALSE
INVARIANTS
  OncePerFile
  OrderKept
  CallsAgree
  CleanIsCompiled
PROPERTIES
  Ends
