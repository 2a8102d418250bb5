SPECIFICATION PlayingSpec
CONSTANTS
  l1 = l1
  l2 = l2
  d1 = d1
  d2 = d2
  None = None
  Layouts <- OneLayout
  Devices <- OneDevice
  InitialDevice <- MCInitialDevice
  MediaLength = 1
  Duration <- MCDuration
  Targets <- MCTargets
  QueueSlots = 2
  AutoPlay = TRUE
  AutoRecover = TRUE
  LockMayFail = TRUE
  DecodeMayFail = FALSE
  WorkerMayThrow = FALSE
  OpenMayFail = FALSE
  MaxGeneration = 1
  MaxSequence = 0
  MaxFaults = 0
PROPERTIES
  PlaysToEnd
CHECK_DEADLOCK FALSE
