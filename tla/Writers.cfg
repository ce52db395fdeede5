SPECIFICATION Spec
CONSTANTS
  Task = {1, 2}
  Deps <- WriterDeps
  Class <- WriterClass
  Paths <- WriterPaths
  Wild = {"*.py"}
  File <- Sources
  Worker = {w1, w2}
  CanImplement = {w1, w2}
  Staffed = FALSE
  Limit <- WideLimits
  MaxAttempt = 2
  MaxLease = 1
  Commands = {}
  LateRelease = FALSE
  NoWorker = NoWorker
SYMMETRY Workers
INVARIANTS
  TypeOK
  OneActiveAssignment
  ReservationsDisjoint
  WritersHoldPaths
  NoWorkerLeak
  WorkerSerial
PROPERTIES
  AssignmentsAreExclusive
  ReservationsAreExclusive
CONSTRAINTS
  OneLease
  ThreeAssignments
