SPECIFICATION FairSpec
CONSTANTS
  Runner = {r1}
  Request = {q1}
  MaxRetries = 2
  MaxCount = 3
  MaxDeliveries = 1
PROPERTY
  SweptWithoutProgress
CHECK_DEADLOCK FALSE
