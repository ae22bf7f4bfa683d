SPECIFICATION FairSpec
CONSTANTS
  b1 = b1
  x = x
  t1 = t1
  Batches = {b1}
  Businesses = {x}
  Ticks = {t1}
  BatchSize = 1
  MaxRequests = 2
  MaxFaults = 1
INVARIANTS LeaseHasOwner AutomaticCovers CountBounded
PROPERTY BatchEnds
CHECK_DEADLOCK FALSE
