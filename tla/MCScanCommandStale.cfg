SPECIFICATION Spec
CONSTANTS
  Formats = {"sarif"}
  Unset = Unset
  Unknown = Unknown
  Absent = Absent
  Malformed = Malformed
  Unreadable = Unreadable
  FailOns = {0, 2, Unset, Unknown}
  Confs <- MCConfs
  Trees <- MCTrees
INVARIANT OutputIsAlwaysFresh
CHECK_DEADLOCK FALSE
