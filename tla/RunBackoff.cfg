SPECIFICATION Spec
CONSTANTS
  w1 = w1
  w2 = w2
  Workers = {w1}
  Requests = {"create"}
  Faults = {}
  MaxAttempts = 2
  MaxRequests = 1
  MaxFaults = 0
PROPERTY PendingRetrySurvives
CHECK_DEADLOCK FALSE
