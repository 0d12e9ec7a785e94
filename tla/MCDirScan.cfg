SPECIFICATION FairSpec
CONSTANTS
  Dir <- MCDir
  File <- MCFile
  Link <- MCLink
  Top = "D/"
  Name = {"etc", "cron", "a", "b"}
  Contents <- MCContents
  Interesting = {"job", "passwd"}
  Target <- MCTarget
  Unreadable = {}
  Walks <- MCWalks
  MaxChanges = 1
INVARIANTS
  TypeOK
  StackIsPath
  ExactWhereSteady
PROPERTY Terminates
CHECK_DEADLOCK FALSE
