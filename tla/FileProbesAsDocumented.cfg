SPECIFICATION Spec
CONSTANTS
  Dir <- MCDir
  File <- MCFile
  Link <- MCLink
  Top = "D/"
  Target <- MCTarget
  Unreadable = {}
  MaxChanges = 1
  Trees <- MCClaimTrees
  Marked <- MCMarked
  ClassOf <- MCClaimClass
  Fifo = {"fifo"}
  Owned <- MCOwned
  Unit <- MCClaimUnit
  Prone <- MCProne
  Lax <- MCLax
  Image <- MCClaimImage
  Origin <- MCOrigin
  Deleted <- MCClaimDeleted
  ProcMaxScan = 1
  Hosts <- MCHosts
  LineMax = 2
  Stub <- MCStub
  Blocking = {}
INVARIANT FileProbesAsDocumented
CHECK_DEADLOCK FALSE
