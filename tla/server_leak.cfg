SPECIFICATION FairSpec
CONSTANTS
  t1 = t1
  Task = {t1}
  NoTask = NoTask
  NWorkers = 1
  WorkerTasks = 1
  QueueCap = 1
  IdModulo = 64
  KeyModulo = 64
  MaxIds = 3
  MaxConns = 1
  AcceptErrors = FALSE
  Spawning = TRUE
CHECK_DEADLOCK FALSE
PROPERTIES StopEventually
