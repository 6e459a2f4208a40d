SPECIFICATION Spec
CONSTANTS
  Formats = {"pretty", "json", "sarif"}
  Unset = Unset
  Unknown = Unknown
  Absent = Absent
  Malformed = Malformed
  Unreadable = Unreadable
  FailOns = {0, 2, Unset, Unknown}
  Confs <- MCConfs
  Trees <- MCTrees
INVARIANTS ZeroIsEarned BlockIsExplained ErrorIsNotAReport JsonScanErrorIsDelivered
CHECK_DEADLOCK FALSE
