SPECIFICATION FairSpec
CONSTANTS
  w1 = w1
  w2 = w2
  Workers = {w1}
  Requests = {"create", "cancel", "retryJob", "archive", "cancelJob"}
  Faults = {}
  MaxAttempts = 1
  MaxRequests = 2
  MaxFaults = 0
PROPERTY RecordFollowsRun
 
CHECK_DEADLOCK FALSE
