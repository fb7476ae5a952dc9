SPECIFICATION Spec
CONSTANTS
  DisplayIds = {d1, d2}
  NoId = NoId
  RETRY_COUNT = 2
  MaxStarts = 1
  MaxFaults = 0
PROPERTY ContinueIsNotFatal
CHECK_DEADLOCK FALSE
