SPECIFICATION FairSpec
CONSTANTS
  Dir <- MCDir
  File <- MCFile
  Link <- MCLink
  Top = "D/"
  Target <- MCTarget
  Unreadable = {}
  MaxChanges = 1
  Trees <- MCTrees
  Marked <- MCMarked
  ClassOf <- MCClassOf
  Fifo = {"fifo"}
  Owned <- MCOwned
  Unit <- MCUnit
  Prone <- MCProne
  Lax <- MCLax
  Image <- MCImage
  Origin <- MCOrigin
  Deleted <- MCDeleted
  ProcMaxScan = 3
  Hosts <- MCHosts
  LineMax = 2
  Stub <- MCStub
  Blocking = {"groups", "nfs"}
INVARIANTS
  TypeOK
  BorneOut
  Exact
  CleanStandsAlone
  Facts
  
PROPERTY EndsOrHeld
CHECK_DEADLOCK FALSE
