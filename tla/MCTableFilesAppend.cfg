SPECIFICATION Spec
CONSTANTS
  k1 = k1
  k2 = k2
  v1 = v1
  v2 = v2
  Keys = {k1, k2}
  Values = {v1, v2}
  BufferSize = 2
  AppendToFile = TRUE
  AtomicMoves = {TRUE, FALSE}
  MaxWrites = 2
  MaxJobs = 2
  MaxFaults = 0
  NoFile = NoFile
PROPERTY AppendKeepsRecords
