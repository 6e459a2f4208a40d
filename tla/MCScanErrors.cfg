SPECIFICATION Spec
CONSTANTS
  Files = {f1, f2}
  Dirs = {}
  c1 = c1
  c2 = c2
  Checks = {c1, c2}
  Texts <- MCTexts
  Workers = {w1, w2}
  Apis = {"with_checks"}
  MaxList = 0
  MaxEdits = 0
INVARIANT EveryErrorSurfaces
CHECK_DEADLOCK FALSE
