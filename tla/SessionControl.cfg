SPECIFICATION Spec
CONSTANTS
  l1 = l1
  l2 = l2
  d1 = d1
  d2 = d2
  None = None
  Layouts <- OneLayout
  Devices <- TwoDevices
  InitialDevice <- MCInitialDevice
  MediaLength = 1
  Duration <- MCDuration
  Targets <- MCTargets
  QueueSlots = 1
  AutoPlay = TRUE
  AutoRecover = TRUE
  LockMayFail = FALSE
  DecodeMayFail = FALSE
  WorkerMayThrow = FALSE
  OpenMayFail = TRUE
  MaxGeneration = 1
  MaxSequence = 1
  MaxFaults = 1
INVARIANTS
  OpenDeviceIsSelected
  ClosedIsQuiet
PROPERTIES
  FaultIsHandled
  CloseTerminates
  ShutdownSilent
CHECK_DEADLOCK FALSE
