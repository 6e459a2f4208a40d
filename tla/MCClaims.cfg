SPECIFICATION ClaimsSpec
CONSTANTS
  MaxBody = 3
  MaxText = 3
  MaxNames = 2
  MaxUses = 2
INVARIANT ASentenceStands
CHECK_DEADLOCK FALSE
