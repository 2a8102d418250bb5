SPECIFICATION Spec
CONSTANTS
  l1 = l1
  l2 = l2
  d1 = d1
  d2 = d2
  None = None
  Layouts <- TwoLayouts
  Devices <- OneDevice
  InitialDevice <- MCInitialDevice
  MediaLength = 3
  Duration <- MCDuration
  Targets <- MCTargets
  QueueSlots = 2
  AutoPlay = TRUE
  AutoRecover = TRUE
  LockMayFail = FALSE
  DecodeMayFail = FALSE
  WorkerMayThrow = FALSE
  OpenMayFail = FALSE
  MaxGeneration = 1
  MaxSequence = 0
  MaxFaults = 0
INVARIANTS
  PauseKeepsTimeline
CHECK_DEADLOCK FALSE
