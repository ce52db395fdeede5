SPECIFICATION LifecycleSpec
CONSTANTS
  Created = 4
  MaxAppend = 1
  MaxNumber = 6
  OutboxWorker = {w1}
  MAX_OUTBOX_ATTEMPTS = 3
  MaxMessages = 1
  MaxMoves = 0
INVARIANT
  PlanMayBeRejected
CHECK_DEADLOCK FALSE
