SPECIFICATION Spec
CONSTANTS
  w1 = w1
  w2 = w2
  b1 = b1
  b2 = b2
  b3 = b3
  b4 = b4
  Workers = {w1, w2}
  Cells = {1, 2}
  Businesses = {b1, b2, b3}
  HasWebsite = {b1}
  Listing <- Overlapping
  MaxPages = 2
  MaxBusinesses = 5
  MaxDeliveries = 3
SYMMETRY AnyWorker
INVARIANT TypeOK
INVARIANT ResumePointBacked
INVARIANT CompletedCellCovered
INVARIANT ProcessedItemsExact
PROPERTY PromiseKept
CHECK_DEADLOCK FALSE
