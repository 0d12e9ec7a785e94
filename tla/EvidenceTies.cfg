SPECIFICATION Spec
CONSTANTS
  a1 = a1
  a2 = a2
  a3 = a3
  NULL = NULL
  Address <- MCAddress
  Given <- MCGiven
INVARIANT DeterministicLosesTies
CHECK_DEADLOCK FALSE
