SPECIFICATION Spec
CONSTANTS
  t1 = t1
  t2 = t2
  Task = {t1, t2}
  NoTask = NoTask
  Fd = {7}
  WorkerTasks = 1
  WorkerEvents = 1
  WorkerTimeout = 2
  Millis = {0, 2}
  MaxEvents = {1}
  NullEvents = TRUE
  RandVersions = {1}
  VersModulo = 3
  KeyModulo = 3
  SlotBase = 2
  SlotBytes = 2
  TimerMemory = 3
  MaxWaits = 2
  AllWaits = 4
  MaxIds = 2
  MaxTime = 3
CHECK_DEADLOCK FALSE
INVARIANTS NoAbort
