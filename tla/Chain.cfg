SPECIFICATION Spec
CONSTANTS
  Task = {1, 2}
  Deps <- ChainDeps
  Class <- ChainClass
  Paths <- ChainPaths
  Wild = {}
  File = {}
  Worker = {w1}
  CanImplement = {w1}
  Staffed = FALSE
  Limit <- DefaultLimits
  MaxAttempt = 1
  MaxLease = 2
  Commands = {"start", "pause", "resume", "cancel"}
  LateRelease = FALSE
  NoWorker = NoWorker
INVARIANTS
  OneLiveLease
  RunningHasLease
PROPERTIES
  NoSpuriousRequeue
  PendingWaits
  LeasesAreExclusive
