SPECIFICATION FairSpec
CONSTANTS
  Evidences <- MCEvidences
  Rules <- RuleTable
  MaxRefs = 3
  MaxPaths = 24
  MaxEdges = 63
INVARIANTS
  TypeOK
  DerivationsGrounded
  PathsSound
  PathsComplete
PROPERTY Terminates
CHECK_DEADLOCK FALSE
