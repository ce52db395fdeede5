SPECIFICATION FairSpec
CONSTANTS
  Task = {1}
  Deps <- SoloDeps
  Class <- SoloClass
  Paths <- SoloPaths
  Wild = {}
  File = {}
  Worker = {w1}
  CanImplement = {w1}
  Staffed = FALSE
  Limit <- DefaultLimits
  MaxAttempt = 2
  MaxLease = 1
  Commands = {"pause", "resume"}
  LateRelease = FALSE
  NoWorker = NoWorker
PROPERTY
  OverdueAssignmentRecovered
