SPECIFICATION Spec
CONSTANTS
  None = None
  Dirs <- MCDirs
  Files <- MCFiles
  Links <- MCLinks
  Depths <- MCDepths
  Given <- MCGiven
  MaxRuns = 2
INVARIANTS
  TypeOK
  DirpsRecorded
  CleanUpIsSafe
  StaysInside
PROPERTIES
  CleanedUp
  FpEnds
CHECK_DEADLOCK FALSE
