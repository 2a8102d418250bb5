SPECIFICATION FairSpec
CONSTANTS
  t1 = t1
  t2 = t2
  Threads = {t1, t2}
  MaxLaunches = 2
INVARIANTS
  TypeOK
  OneWorker
  ClosedIsQuiet
  NoSilentDeath
  OneLateCallback
PROPERTIES
  CloseTerminates
  WaitTerminates
  StartupEnds
