SPECIFICATION Spec
CONSTANTS
  a = a
  c1 = c1
  c2 = c2
  t1 = t1
  Clients = {c1, c2}
  Classifiers = {t1}
  Flows = {a}
  NoFlow = NoFlow
  Size = 5
  Header = 2
  MaxFilters = 2
  MaxLoads = 2
SYMMETRY MCSymmetry
CHECK_DEADLOCK FALSE
INVARIANTS
  LifetimesNest
  WrittenIsReadable
  ReceiptsHold
PROPERTIES
  OthersAreKept
