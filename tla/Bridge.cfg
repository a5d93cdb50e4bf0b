SPECIFICATION Spec
CONSTANTS
  Capacity = 2
  SizeValues = 65536
  Packets <- MCPackets
  Updates <- MCUpdates
  MaxPushes = 4
  MaxInits = 2
INVARIANTS
  CountersAgree
PROPERTIES
  SpansInsideBuffer
  RefinesRecordFifo
CHECK_DEADLOCK FALSE
