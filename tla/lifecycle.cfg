SPECIFICATION HttpSpec
CONSTANTS
  NWorkers = 3
  NTasks = 6
  MaxSockets = 4
  WorkerTasks = 2
INVARIANTS NothingStray OpenAllOrNothing DestroyFreesAll HttpFreesAll
