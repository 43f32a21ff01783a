CONSTANTS
  a = a
  b = b
  Block <- MCBlock
  Key <- MCKey
  NumPages = 3
  MaxRunning = 2
  MaxRow = 2
  Req = {r1, r2}
SPECIFICATION CMSpec
INVARIANTS
  LockedHandlesStay
  RefCountsExact
  CountersExact
  OneOwnerPerPage
  NoPageLost
SYMMETRY MCSymmetry
