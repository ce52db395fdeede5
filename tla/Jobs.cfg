SPECIFICATION FairSpec
CONSTANTS
  Runner = {r1, r2}
  Request = {q1}
  MaxRetries = 2
  MaxCount = 3
  MaxDeliveries = 2
INVARIANTS
  TypeOK
  RunningIsExecuted
PROPERTIES
  GivesUpExhausted
  EndedStays
  JobEnds
CHECK_DEADLOCK FALSE
