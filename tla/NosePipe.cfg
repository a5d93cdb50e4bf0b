SPECIFICATION NoseFairSpec
CONSTANTS
  HeaderLen = 1
  FrameSize <- MCFrameSize
  Capacity = 4
  MaxEvents = 2
  MaxRuns = 2
CHECK_DEADLOCK FALSE
INVARIANTS
  FramesAccounted
  SubmittedInOrder
  NoFalseRegression
PROPERTY
  StopCompletes
