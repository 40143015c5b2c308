SPECIFICATION FairSpec
CONSTANTS
  t1 = t1
  t2 = t2
  a1 = a1
  a2 = a2
  NoAddr = NoAddr
  Zeroed = Zeroed
  Tasks <- MCTasks
  Addrs <- OneAddr
  Batches <- LongBatches
  Ops <- AllOps
  Builds <- Waiting
  MAX_STACK = 2
  SndBuf = 1
  HardErrors = FALSE
INVARIANTS SendToSends AsyncHidesWouldBlock
PROPERTY CallsReturn
