SPECIFICATION Spec
CONSTANT SlotCount = 3
INVARIANTS
  NoRebuildInUse
  NoHalfBuiltPublished
  SlotAlwaysFound
  RenderNeverRetries
  ClosedIsQuiet
PROPERTY CloseTerminates
CHECK_DEADLOCK FALSE
