SPECIFICATION Spec
CONSTANTS
  Watches = 2
  MaxChanges <- MCMaxChanges
CHECK_DEADLOCK FALSE
INVARIANTS
  LifetimesNest
  EveryChangeAccounted
  SessionTracked
PROPERTIES
  FirstWatchHeard
  StopCompletes
