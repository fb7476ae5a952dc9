SPECIFICATION QueriesSpec
CONSTANTS
  Threads = {t1, t2}
  Callbacks = {"fn"}
  InitialDisplays = {"bare"}
  MaxConnections = 2
INVARIANT PrefixedOnce
