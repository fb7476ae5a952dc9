SPECIFICATION Spec
CONSTANTS
  Threads = {t1, t2}
  Callbacks = {"fn", "null"}
INVARIANT DrawUnderLock
