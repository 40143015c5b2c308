SPECIFICATION Spec
CONSTANTS
  t1 = t1
  t2 = t2
  Tasks <- TwoTasks
  Ops <- TryOnly
  Capacities <- TwoOrThree
  BufSize = 2
  Builds <- Gro
  HardErrors = FALSE
  MaxDatagrams = 6
SYMMETRY Symmetry
INVARIANT SplitsAll
CHECK_DEADLOCK FALSE
