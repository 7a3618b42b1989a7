SPECIFICATION FairSpec
CONSTANTS
  k1 = k1
  k2 = k2
  v1 = v1
  v2 = v2
  Keys = {k1, k2}
  Values = {v1, v2}
  BufferSize = 1
  AppendToFile = FALSE
  AtomicMoves = {TRUE, FALSE}
  MaxWrites = 3
  MaxJobs = 3
  MaxFaults = 1
  NoFile = NoFile
INVARIANTS
  TypeOK
  PairsAreReal
PROPERTIES
  SavedWhole
  CheckpointStable
  ImportReplaces
  JobsEnd
