SPECIFICATION FairSpec
CONSTANTS
  k1 = k1
  Clients = {k1}
  MaxRequests = 2
  MaxFaults = 1
INVARIANT ShownIsCurrent
PROPERTIES CompletedNotRedone AnalysisEnds WaitingAddressShown RecordSettles
CHECK_DEADLOCK FALSE
