SPECIFICATION FairSpec
CONSTANTS
  Socket = {"s1", "s2"}
  Plain = {"f"}
  Link = {"L"}
  Target <- MCTarget
  Name = {"run", "sub"}
  EntryOf <- MCEntryOf
  Setups <- MCSetups
  MaxChanges = 1
INVARIANTS
  TypeOK
  GradesBorneOut
  GradeDeserved
PROPERTY EndsOrHeld
CHECK_DEADLOCK FALSE
