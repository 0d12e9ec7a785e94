SPECIFICATION Spec
CONSTANTS
  Evidences <- MCEvidences
  Rules <- RuleTable
  MaxRefs = 3
  MaxPaths = 24
  MaxEdges = 63
INVARIANT EveryPathNamesItsFinding
CHECK_DEADLOCK FALSE
