CONSTANTS
  a = a
  b = b
  c = c
  All = All
  Node <- MCNode
  Link <- MCLink
  ALLOWED_HELLO_LOST = 1
  MaxFaults = 1
SPECIFICATION FairSpec
INVARIANTS
  TypeOK
  NeighboursAreBidirectional
PROPERTIES
  DroppedOnlyAfterLosses
  BrokenIsReported
