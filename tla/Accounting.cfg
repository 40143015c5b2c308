SPECIFICATION Spec
CONSTANTS
  t1 = t1
  t2 = t2
  Tasks <- MCTasks
  Dirs <- BothDirs
  Backends <- BothBackends
  MaxBatch = 2
  InitialSizes <- MCSizes
  MaxRetries = 1
  MaxOverflow = 1
  MaxAttempts = 2
  MaxWatches = 1
  MIN_BATCH = 1
  MAX_BATCH = 6
  ADJUSTMENT_INTERVAL = 1
SYMMETRY Symmetry
INVARIANTS CountersAddUp SnapshotBounded CountersMeetKernel ResetForgets
PROPERTY DrivesController
CONSTRAINT WatchPlain
CHECK_DEADLOCK FALSE
