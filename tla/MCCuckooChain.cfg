SPECIFICATION FairSpec
CONSTANTS
  t1 = t1
  t2 = t2
  t3 = t3
  Threads = {t1, t2}
  Keys = {1, 2, 3, 4}
  Values = {0, 1, 2}
  Add <- MCAdd
  Workload <- ChainWorkload
  MaxOps = 6
  HashOf <- ChainHash
  HashSize <- MCHashSize
  IndexHash <- MCIndexHash
  AltIndex <- MCAltIndex
  SlotsPerBucket = 1
  InitHashpower = 2
  MaxHashpower = 2
  MaxNumLocks = 4
  MaxBfsPathLen = 3
  LoadFactorInverse = 20
  Empty = Empty
  NoThread = NoThread
  Missing = Missing
  NoOp = NoOp
INVARIANTS
  NoDuplicateKey
  EveryItemInItsBucket
PROPERTIES
  KvSpec
  EveryCallReturns
