SPECIFICATION Spec
CONSTANTS
  Task = {1, 2, 3}
  Deps <- TrioDeps
  Class <- TrioClass
  Paths <- TrioPaths
  Wild = {}
  File = {}
  Worker = {w1, w2, w3}
  CanImplement = {w1}
  Staffed = FALSE
  Limit <- TightLimits
  MaxAttempt = 1
  MaxLease = 0
  Commands = {}
  LateRelease = FALSE
  NoWorker = NoWorker
INVARIANTS
  WithinLimits
  WorkerSerial
  WritersMayImplement
SYMMETRY Others
