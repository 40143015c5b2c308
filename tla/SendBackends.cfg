SPECIFICATION Spec
CONSTANTS
  t1 = t1
  t2 = t2
  a1 = a1
  a2 = a2
  NoAddr = NoAddr
  Zeroed = Zeroed
  Tasks <- MCTasks
  Addrs <- MCAddrs
  Batches <- MCBatches
  Ops <- BatchOps
  Builds <- AllBuilds
  MAX_STACK = 2
  SndBuf = 2
  HardErrors = TRUE
SYMMETRY Symmetry
INVARIANTS
  TypeOK PrefixOnce CountIsTruth CancelSafe ErrorMeansNothingSent DestinationHonoured
PROPERTY KeepsPromise
