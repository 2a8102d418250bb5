SPECIFICATION PlayingSpec
CONSTANTS
  l1 = l1
  l2 = l2
  d1 = d1
  d2 = d2
  None = None
  Layouts <- OneLayout
  Devices <- OneDevice
  InitialDevice <- MCInitialDevice
  MediaLength = 2
  Duration <- MCDuration
  Targets <- MCTargets
  QueueSlots = 2
  AutoPlay = TRUE
  AutoRecover = TRUE
  LockMayFail = FALSE
  DecodeMayFail = FALSE
  WorkerMayThrow = FALSE
  OpenMayFail = FALSE
  MaxGeneration = 1
  MaxSequence = 1
  MaxFaults = 0
PROPERTIES
  PlaysToEnd
  LoadingEnds
CHECK_DEADLOCK FALSE
