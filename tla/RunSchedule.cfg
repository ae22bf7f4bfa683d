SPECIFICATION FairSpec
CONSTANTS
  w1 = w1
  w2 = w2
  Workers = {w1}
  Requests = {"schedule"}
  Faults = {}
  MaxAttempts = 2
  MaxRequests = 1
  MaxFaults = 0
PROPERTY IntentSettles
CHECK_DEADLOCK FALSE
