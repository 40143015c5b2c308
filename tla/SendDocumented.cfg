SPECIFICATION FairSpec
CONSTANTS
  t1 = t1
  t2 = t2
  a1 = a1
  a2 = a2
  NoAddr = NoAddr
  Zeroed = Zeroed
  Tasks <- MCTasks
  Addrs <- MCAddrs
  Batches <- Misaligned
  Ops <- BatchOps
  Builds <- LinuxV6
  MAX_STACK = 2
  SndBuf = 2
  HardErrors = FALSE
PROPERTY SendsAsDocumented
