SPECIFICATION ReloadSpec
CONSTANTS
  MaxRules = 2
  MaxReloads = 2
CHECK_DEADLOCK FALSE
INVARIANTS
  NoUseAfterFree
