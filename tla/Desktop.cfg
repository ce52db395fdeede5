SPECIFICATION FairDesktopSpec
CONSTANTS
  Task = {1}
  Deps <- SoloDeps
  Class <- SoloClass
  Paths <- SoloPaths
  Wild = {}
  File = {}
  Worker = {w1}
  CanImplement = {w1}
  Staffed = FALSE
  Limit <- DefaultLimits
  MaxAttempt = 2
  MaxLease = 2
  Commands = {"pause", "resume"}
  LateRelease = FALSE
  NoWorker = NoWorker
  Device = {d1}
  Slots = 2
  SlotLimit <- DefaultSlots
  Poll = {1}
  Lossy = TRUE
  NoLease = NoLease
  Operator = {}
INVARIANTS
  DesktopTypeOK
  JournalCoversWork
PROPERTIES
  DiscardOnlyEnded
  AssignmentEnds
  TaskIsDecided
