SPECIFICATION Spec
CONSTANTS
  Variants = {"v", "w"}
  Commands = {c1, c2, c3}
  TicksPerSecond = 2
  MaxTime = 2
SYMMETRY CommandSymmetry
CHECK_DEADLOCK FALSE
INVARIANTS
  SettledRecordsCount
  FinishedRunIsOnDisk
