SPECIFICATION Spec
CONSTANTS
  w1 = w1
  w2 = w2
  b1 = b1
  b2 = b2
  b3 = b3
  b4 = b4
  Workers = {w1}
  Cells = {1, 2, 3}
  Businesses = {b1, b2, b3, b4}
  HasWebsite = {b1}
  Listing <- Bounded
  MaxPages = 2
  MaxBusinesses = 3
  MaxDeliveries = 2
INVARIANT SitesAnalysed
CHECK_DEADLOCK FALSE
