SPECIFICATION Spec
CONSTANTS
  Flows = {f1, f2, f3}
  NoFlow = NoFlow
  TableSize = 2
  Kinds = {40, 70}
  Severities = {2, 4, 7}
  Rules = {1}
  PolicyFiles <- MCPolicyFiles
  Weight = 10
  Threshold = 20
  MaxIncidents = 1
  MaxEvents = 4
SYMMETRY FlowSymmetry
INVARIANTS FlowsFoundAgain PanicMeansFull IncidentAtThreshold
  DetectionDecided NoUnauthorisedAction
\* A full table panics.
CHECK_DEADLOCK FALSE
