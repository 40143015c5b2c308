SPECIFICATION Spec
CONSTANTS
  t1 = t1
  t2 = t2
  Tasks <- TwoTasks
  Ops <- AllOps
  Capacities <- NoneOrThree
  BufSize = 2
  Builds <- AllBuilds
  HardErrors = TRUE
  MaxDatagrams = 3
SYMMETRY Symmetry
INVARIANTS TypeOK HandsOverAll CancelSafe AsyncReceives MetadataIsOwn
