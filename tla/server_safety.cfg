SPECIFICATION Spec
CONSTANTS
  t1 = t1
  t2 = t2
  Task = {t1, t2}
  NoTask = NoTask
  NWorkers = 2
  WorkerTasks = 1
  QueueCap = 1
  IdModulo = 64
  KeyModulo = 64
  MaxIds = 3
  MaxConns = 2
  AcceptErrors = TRUE
  Spawning = TRUE
CHECK_DEADLOCK FALSE
INVARIANTS TypeOK Placement OrderlyShutdown UniqueIds
PROPERTIES LifeSpec
