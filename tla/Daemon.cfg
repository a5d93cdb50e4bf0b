SPECIFICATION FairSpec
CONSTANTS
  sensor = sensor
  nose = nose
  pipeline = pipeline
  etw = etw
  Pipeline = pipeline
  Workers <- MCWorkers
  Adapters <- MCAdapters
  Marking <- MCMarking
  OnBridgeFlag <- MCOnBridgeFlag
  Mortal <- MCMortal
  Blocking <- MCBlocking
  SpawnOrder <- MCSpawnOrder
  JoinOrder <- MCJoinOrder
CHECK_DEADLOCK FALSE
INVARIANTS
  WorkersHaveTheirData
  StoppedMeansJoined
  RunningMeansProcessing
PROPERTIES
  ShutdownCommandCompletes
  StopCompletes
