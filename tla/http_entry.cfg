SPECIFICATION FairSpec
CONSTANTS
  WorkerTasks = 2
  Req <- MCReq
  Fd = {1, 2, 3}
  ErrMax = 6
  NULL = NULL
  r1 = r1
  r2 = r2
  r3 = r3
INVARIANTS TypeOK Ownership SocketsOwned SslLifetime ErrorsAreOwn AssertOnlyOverLimit
PROPERTIES RequestEnds
