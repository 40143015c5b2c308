SPECIFICATION FairBatchingSpec
CONSTANTS
  MIN_BATCH = 1
  MAX_BATCH = 8
  ADJUSTMENT_INTERVAL = 2
  Dirs <- BothDirs
  Backends <- BatchSyscall
  InitialSizes <- MCInitialSizes
  MaxTasks = 2
  MaxEvents = 12
INVARIANTS BatchingTypeOK CountsAttempts
PROPERTIES ShrinksUnderPressure
