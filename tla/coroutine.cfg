SPECIFICATION Spec
CONSTANTS
  t1 = t1
  t2 = t2
  Task = {t1, t2}
  NoTask = NoTask
  Result <- Codes
  Suspended = 6
  Resumed = 0
  Content = {k1, k2}
  k1 = k1
  k2 = k2
  MaxLocals = 1
SYMMETRY Symmetry
INVARIANTS SuspendedAreLive
PROPERTIES ContextKept
