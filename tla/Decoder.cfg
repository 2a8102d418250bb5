CONSTANTS
  SampleRate = 2
  TicksPerSecond = 5
  TicksPerMs = 2
  MaxTime = 20
  Sources = {4, 6}
  BlockFrames = 3
  MaxSample = 3
  SeekTargets <- MCSeekTargets
  MaxEpoch = 2
SPECIFICATION Spec
INVARIANTS
  SamplesAreAccountedFor
PROPERTIES
  CancelledCallReturns
  ImplementsContract
