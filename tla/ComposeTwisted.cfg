SPECIFICATION FairSpec
CONSTANTS
  Evidences <- MCEvidences
  Rules <- TwistedRules
  MaxRefs = 3
  MaxPaths = 24
  MaxEdges = 63
INVARIANTS
  DerivationsGrounded
  PathsSound
  PathsComplete
PROPERTY Terminates
CHECK_DEADLOCK FALSE
