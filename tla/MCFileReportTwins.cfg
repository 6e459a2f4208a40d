SPECIFICATION Spec
CONSTANTS
  Divisor = "unchecked-divisor"
  Truncation = "integer-division-truncation"
  MaxHits = 2
  Checks <- MCChecks
  Sources <- MCSources
  Methods <- MCTwins
INVARIANT ScopedToTheBlock
CHECK_DEADLOCK FALSE
