SPECIFICATION AhoSpec
CONSTANTS
  Alphabet = {"a", "b"}
  RuleSets <- SmallRuleSets
  MaxStates = 8
  MaxText = 4
CHECK_DEADLOCK FALSE
INVARIANTS
  LinksAreLongest
  ReportsAreOccurrences
  LongestIsReported
