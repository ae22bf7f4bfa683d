SPECIFICATION Spec
CONSTANTS
  s1 = s1
  k1 = k1
  k2 = k2
  c1 = c1
  g1 = g1
  n1 = n1
  n2 = n2
  p1 = p1
  p2 = p2
  Schedules = {s1}
  Targets = {g1}
  Ticks = {k1, k2}
  Clients = {c1}
  Kind <- AllPeriodic
  Period = 1
  Configs <- TwoConfigs
  DefaultDelay = 1
  Day = 1
  Month = 2
  MaxTime = 1
  MaxEvents = 2
  Consumers = {n1, n2}
  Limit = 2
  LastDay = 1
  Writers = {p1, p2}
  MaxFiles = 2
  MaxSize = 2
  MaxLines = 8
  Heights = {1, 2, 5, 7}
  Widths = {1, 3, 6, 9}
  Sizes = {1, 2, 3}
  Limits = {0, 1, 2, 4, 5}
  MinSize = 2
  MinRadius = 1
  Hosts = {"a", "b", "localhost"}
  Addresses <- FiveAddresses
  LocalHosts = {"localhost"}
  MaxRedirects = 2
  MaxBytes = 2
  Blocks = {1, 2}
  Exports = {e1, e2}
  e1 = e1
  e2 = e2
  MaxStock = 2
  MaxRows = 1
INVARIANTS OccurrenceOnce  BudgetExact  GridCovers ResultIsLastPage CompletedHasFile
PROPERTY StopTakesHold
CHECK_DEADLOCK FALSE
