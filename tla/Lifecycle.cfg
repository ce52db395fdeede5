SPECIFICATION FairLifecycleSpec
CONSTANTS
  Created = 5
  MaxAppend = 2
  MaxNumber = 7
  OutboxWorker = {w1, w2}
  MAX_OUTBOX_ATTEMPTS = 2
  MaxMessages = 2
  MaxMoves = 1
INVARIANTS
  LifecycleTypeOK
  GapsStayBehind
  NothingRunsUnapproved
  RequestIsThere
PROPERTIES
  EventsKeepOrder
  CompilationEndsItsOwn
  CompilationEnds
CHECK_DEADLOCK FALSE
