SPECIFICATION FairSpec
CONSTANTS
  t1 = t1
  t2 = t2
  Task = {t1, t2}
  NoTask = NoTask
  NWorkers = 1
  WorkerTasks = 2
  QueueCap = 1
  IdModulo = 64
  KeyModulo = 64
  MaxIds = 4
  MaxConns = 4
  AcceptErrors = FALSE
  Spawning = FALSE
CHECK_DEADLOCK FALSE
INVARIANTS NoAbort
PROPERTIES StopEventually BacklogTaken
