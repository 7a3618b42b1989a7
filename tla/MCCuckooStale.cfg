SPECIFICATION Spec
CONSTANTS
  t1 = t1
  t2 = t2
  t3 = t3
  Threads = {t1, t2}
  Keys = {1, 2, 3}
  Values = {0, 1, 2}
  Add <- MCAdd
  Workload <- GrowWorkload
  MaxOps = 5
  HashOf <- PairHash
  HashSize <- MCHashSize
  IndexHash <- MCIndexHash
  AltIndex <- MCAltIndex
  SlotsPerBucket = 1
  InitHashpower = 0
  MaxHashpower = 2
  MaxNumLocks = 2
  MaxBfsPathLen = 3
  LoadFactorInverse = 20
  Empty = Empty
  NoThread = NoThread
  Missing = Missing
  NoOp = NoOp
INVARIANT NobodyElseLocks
