SPECIFICATION FairSpec
CONSTANTS
  w1 = w1
  w2 = w2
  Workers = {w1}
  Requests = {"create"}
  Faults = {"api", "worker", "redis", "lock"}
  MaxAttempts = 1
  MaxRequests = 1
  MaxFaults = 1
 
PROPERTY MissingJobReturns
CHECK_DEADLOCK FALSE
