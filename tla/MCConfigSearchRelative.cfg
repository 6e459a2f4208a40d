SPECIFICATION Spec
CONSTANTS
  Dirs <- MCDirs
  MaxPath = 2
  None = None
INVARIANT NearestIsUsed
CHECK_DEADLOCK FALSE
