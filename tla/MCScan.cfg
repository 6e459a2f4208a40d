SPECIFICATION Spec
CONSTANTS
  Files = {f1, f2}
  Dirs = {d1}
  c1 = c1
  c2 = c2
  Checks = {c1, c2}
  Texts <- MCTexts
  Workers = {w1, w2}
  Apis = {"directory", "files", "with_checks"}
  MaxList = 2
  MaxEdits = 1
INVARIANTS TypeOK OneOwner OkIsComplete ErrorsAreReal QuietVerdict
PROPERTIES KeepsPromise Terminates
CHECK_DEADLOCK FALSE
