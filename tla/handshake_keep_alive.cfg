SPECIFICATION FairSpec
CONSTANTS
  DisplayIds = {d1, d2}
  NoId = NoId
  RETRY_COUNT = 2
  MaxStarts = 1
  MaxFaults = 1
PROPERTY SignalEndsKeepAlive
CHECK_DEADLOCK FALSE
