SPECIFICATION FairSpec
CONSTANTS
  MaxFiles = 2
  MaxBytes = 3
  Lens = {1, 2}
  Limit = 1
  ClockSteps = TRUE
  DiskFaults = TRUE
INVARIANTS WithinCaps
PROPERTIES  LeavesForCause ReplayOldestFirst BacklogDrains
