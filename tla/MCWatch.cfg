SPECIFICATION Spec
CONSTANTS
  Files = {f1, f2}
  MaxSaves = 2
  MaxQueue = 3
  Surprises = {"early_save", "moved_directory", "queue_overflow"}
INVARIANTS NoLostWakeup RescansAreEarned
PROPERTY AnnouncedIsShown
CHECK_DEADLOCK FALSE
