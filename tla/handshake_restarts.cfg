SPECIFICATION FairSpec
CONSTANTS
  DisplayIds = {d1, d2}
  NoId = NoId
  RETRY_COUNT = 2
  MaxStarts = 3
  MaxFaults = 3
INVARIANTS
  SeatsTypeOK
  ConnectMeetsListener
  NoTornSyncRegion
  WaitingHasPoster
  DisplayIsNested
  OnlyEarlySignalIsLost
PROPERTIES
  ImplementsHandoff
  HandoffAdvances
  ErrorIsNotLost
  HandoffCompletes
  ErrorReported
CHECK_DEADLOCK FALSE
