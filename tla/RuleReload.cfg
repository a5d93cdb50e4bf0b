SPECIFICATION ReloadSpec
CONSTANTS
  MaxRules = 3
  MaxReloads = 3
CHECK_DEADLOCK FALSE
INVARIANTS
  ReaderSafe
  NoneLeaks
  LoadedIsInForce
