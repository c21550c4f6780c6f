SPECIFICATION LifoSpec
CONSTANTS
  t1 = t1
  t2 = t2
  t3 = t3
  Task = {t1, t2, t3}
  NoTask = NoTask
  Fd = {7}
  WorkerTasks = 1
  WorkerEvents = 1
  WorkerTimeout = 2
  Millis = {0, 1}
  MaxEvents = {1}
  NullEvents = TRUE
  RandVersions = {1}
  VersModulo = 3
  KeyModulo = 4
  SlotBase = 2
  SlotBytes = 2
  TimerMemory = 2
  MaxWaits = 2
  AllWaits = 2
  MaxIds = 3
  MaxTime = 2
CHECK_DEADLOCK FALSE
INVARIANTS TypeOK ReadyIntegrity PolledAreSuspended WaitIsTimed
INVARIANTS NoEarlyTimeout TimersServed NoOversleep AbortOnlyInSync
PROPERTIES EventsReachOwner WaitEnds QueuedRuns LifeSpec
