SPECIFICATION Spec
CONSTANTS
  t1 = t1
  t2 = t2
  t3 = t3
  Threads = {t1, t2}
  Keys = {1, 2, 3, 4}
  Values = {0, 1, 2}
  Add <- MCAdd
  Workload <- SlotsWorkload
  MaxOps = 5
  HashOf <- SlotsHash
  HashSize <- MCHashSize
  IndexHash <- MCIndexHash
  AltIndex <- MCAltIndex
  SlotsPerBucket = 2
  InitHashpower = 1
  MaxHashpower = 2
  MaxNumLocks = 2
  MaxBfsPathLen = 3
  LoadFactorInverse = 20
  Empty = Empty
  NoThread = NoThread
  Missing = Missing
  NoOp = NoOp
PROPERTY KvSpec
