SPECIFICATION PoolSpec
CONSTANTS
  t1 = t1
  t2 = t2
  b1 = b1
  b2 = b2
  v1 = v1
  v2 = v2
  Zero = Zero
  Threads <- MCThreads
  Buffers <- MCBuffers
  Values <- MCValues
  PoolCapacity = 1
  Capacity = 2
SYMMETRY Symmetry
INVARIANTS PoolTypeOK NoLeftovers FillIsLatest EntriesIntact
