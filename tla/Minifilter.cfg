SPECIFICATION Spec
CONSTANTS
  f1 = f1
  f2 = f2
  p1 = p1
  m1 = m1
  FileCallbacks = {f1, f2}
  ProcessCallbacks = {p1}
  Messages = {m1}
  Size = 11
  RecordSize = 3
  MaxRecords = 7
  MaxLoads = 2
CHECK_DEADLOCK FALSE
INVARIANTS
  LifetimesNest
PROPERTIES
  RefinesRecordFifo
  UnloadCompletes
