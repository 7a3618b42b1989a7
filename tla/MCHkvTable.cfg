SPECIFICATION Spec
CONSTANTS
  k1 = k1
  k2 = k2
  k3 = k3
  Keys = {k1, k2, k3}
  Capacity = 2
  BucketSize = 1
  EpochStrategies = {TRUE, FALSE}
  StepPerEpoch = 2
  BufferSize = 1
  AtomicMoves = {TRUE, FALSE}
  MaxWrites = 2
  MaxJobs = 3
  MaxFaults = 2
  NoFile = NoFile
  Junk = Junk
SYMMETRY MCSymmetry
INVARIANTS
  TypeOK
  EpochsCountUpserts
  PairsAreReal
PROPERTIES
  SaveIsSnapshot
  LoadReplaces
