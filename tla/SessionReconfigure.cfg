SPECIFICATION Spec
CONSTANTS
  l1 = l1
  l2 = l2
  d1 = d1
  d2 = d2
  None = None
  Layouts <- TwoLayouts
  Devices <- OneDevice
  InitialDevice <- MCInitialDevice
  MediaLength = 3
  Duration <- MCDuration
  Targets <- MCTargets
  QueueSlots = 2
  AutoPlay = FALSE
  AutoRecover = FALSE
  LockMayFail = FALSE
  DecodeMayFail = FALSE
  WorkerMayThrow = TRUE
  OpenMayFail = FALSE
  MaxGeneration = 1
  MaxSequence = 1
  MaxFaults = 1
INVARIANTS
  TypeOK
  QueueCoherent
  IntentIsVisible
CHECK_DEADLOCK FALSE
