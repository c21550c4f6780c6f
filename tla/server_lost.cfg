SPECIFICATION Spec
CONSTANTS
  t1 = t1
  t2 = t2
  t3 = t3
  Task = {t1, t2, t3}
  NoTask = NoTask
  NWorkers = 1
  WorkerTasks = 3
  QueueCap = 1
  IdModulo = 64
  KeyModulo = 64
  MaxIds = 4
  MaxConns = 2
  AcceptErrors = TRUE
  Spawning = TRUE
CHECK_DEADLOCK FALSE
SYMMETRY TaskSymmetry
INVARIANTS NoTaskLost
