SPECIFICATION FairSpec
CONSTANTS
  Writers = {w1, w2}
  Readers = {r1}
  short = short
  long = long
  Data = {short, long}
  Size <- LengthOf
  Garbage = Garbage
  NoFile = NoFile
  CopyMayFail = FALSE
  MaxFiles = 2
  MaxCrashes = 1
CHECK_DEADLOCK FALSE
INVARIANTS
  DirectorySound
  WholeFiles
PROPERTIES
  Atomic
  CallsReturn
