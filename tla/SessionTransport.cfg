SPECIFICATION Spec
CONSTANTS
  l1 = l1
  l2 = l2
  d1 = d1
  d2 = d2
  None = None
  Layouts <- OneLayout
  Devices <- OneDevice
  InitialDevice <- MCInitialDevice
  MediaLength = 3
  Duration <- MCDuration
  Targets <- MCTargets
  QueueSlots = 1
  AutoPlay = TRUE
  AutoRecover = TRUE
  LockMayFail = TRUE
  DecodeMayFail = TRUE
  WorkerMayThrow = FALSE
  OpenMayFail = FALSE
  MaxGeneration = 2
  MaxSequence = 2
  MaxFaults = 0
INVARIANTS
  FreshBlocks
  NothingPlaysTwice
  NoBlockLost
PROPERTIES
  PositionMonotone
CHECK_DEADLOCK FALSE
