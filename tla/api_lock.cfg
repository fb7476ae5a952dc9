SPECIFICATION QueriesSpec
CONSTANTS
  Threads = {t1, t2, t3}
  Callbacks = {"fn"}
  InitialDisplays = {"none", "bare", "local", "host"}
  MaxConnections = 2
INVARIANTS
  TypeOK
  DrawUnderLock
  MutexHasHolder
PROPERTIES
  MutexIsHandedOn
  NonBlockingReturns
  QueriesWork
