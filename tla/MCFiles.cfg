SPECIFICATION FilesSpec
CONSTANTS
  Divisor = "unchecked-divisor"
  Truncation = "integer-division-truncation"
  MaxHits = 2
  Checks <- MCChecks
  Sources <- MCSources
  Methods <- MCMethods
  Dirs <- MCDirs
  MaxPath = 3
  None = None
  Keys = {x, y}
  MaxFound = 3
  MaxScans = 2
  MaxText = 6
  MaxItems = 4
  MaxNames = 4
  Paths <- MCPaths
  MaxRaw = 3
  MaxAsked = 3
  MaxUses = 4
INVARIANTS AskedIsHidden OnlyAskedIsHidden NearestIsFound TextFindings ItemFindings KeyNameFindings ReportFindings CollisionFindings BaselineFindings
PROPERTY Ends
CHECK_DEADLOCK FALSE
