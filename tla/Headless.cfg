SPECIFICATION FairInterfacesSpec
CONSTANTS
  Task = {1, 2}
  Deps <- ChainDeps
  Class <- ChainClass
  Paths <- ChainPaths
  Wild = {}
  File = {}
  Worker = {}
  CanImplement = {}
  Staffed = FALSE
  Limit <- DefaultLimits
  MaxAttempt = 0
  MaxLease = 2
  Commands = {"resume"}
  LateRelease = FALSE
  NoWorker = NoWorker
  Budget = 2
  Named <- ChainDeps
INVARIANTS
  LeaseMeansRunning
PROPERTIES
  WorkersAreExclusive
  CompletedStays
  PendingWaits
  SuppliedTaskIsReleased
  OverdueLeaseEnds
CONSTRAINTS
  TwoLeases
  ThreeAttempts
