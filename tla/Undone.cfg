SPECIFICATION DesktopSpec
CONSTANTS
  Task = {1}
  Deps <- SoloDeps
  Class <- ReaderClass
  Paths <- SoloPaths
  Wild = {}
  File = {}
  Worker = {w1}
  CanImplement = {w1}
  Staffed = FALSE
  Limit <- DefaultLimits
  MaxAttempt = 1
  MaxLease = 1
  Commands = {}
  LateRelease = FALSE
  NoWorker = NoWorker
  Device = {d1, d2}
  Slots = 2
  SlotLimit <- DefaultSlots
  Poll = {1}
  Lossy = FALSE
  NoLease = NoLease
  Operator = {}
PROPERTY
  CompletedIsFinal
