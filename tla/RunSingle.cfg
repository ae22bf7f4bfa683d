SPECIFICATION Spec
CONSTANTS
  w1 = w1
  w2 = w2
  Workers = {w1, w2}
  Requests = {"create", "schedule", "cancel", "retry", "retryJob", "archive", "cancelJob"}
  Faults = {"worker", "api", "tick", "outage"}
  MaxAttempts = 2
  MaxRequests = 2
  MaxFaults = 1
SYMMETRY AnyWorker
INVARIANT TypeOK
INVARIANT OneProcessor
PROPERTY CompletedNotRerun
CHECK_DEADLOCK FALSE
