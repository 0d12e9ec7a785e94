SPECIFICATION FairSpec
CONSTANTS
  a1 = a1
  a2 = a2
  a3 = a3
  NULL = NULL
  Address <- MCAddress
  Given <- MCGiven
INVARIANTS
  TypeOK
  ChainLinked
  Sums
  ShortcutsAgree
PROPERTIES
  OnlyContraryEvidenceOverturns
  CallsReturn
  ImplementsVerdictSpec
CHECK_DEADLOCK FALSE
