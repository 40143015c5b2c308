SPECIFICATION FairSpec
CONSTANTS
  t1 = t1
  t2 = t2
  Tasks <- TwoTasks
  Ops <- BatchOps
  Capacities <- Two
  BufSize = 2
  Builds <- GroOrLoop
  HardErrors = FALSE
  MaxDatagrams = 3
INVARIANT NoPanic
PROPERTY WakesUp
