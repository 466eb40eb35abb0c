SPECIFICATION FairSpec
CONSTANTS
  MaxText = 8
  MaxDecls = 2
  Elements = 2
CHECK_DEADLOCK FALSE
INVARIANTS
  MovesEnforced
  DropsSound
PROPERTIES
  LoopsEnd
