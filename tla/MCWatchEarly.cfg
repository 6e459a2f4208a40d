SPECIFICATION Spec
CONSTANTS
  Files = {f1, f2}
  MaxSaves = 2
  MaxQueue = 0
  Surprises = {"early_save"}
PROPERTY EveryChangeIsShown
CHECK_DEADLOCK FALSE
