SPECIFICATION Spec
CONSTANTS
  Clients = {c1, c2}
  Screens <- DeepAndShallow
  MaxRuns = 2
INVARIANTS
  TypeOK
  NamesAreOneBuffer
  InfoIsNotNewer
  FaultHasCause
SYMMETRY Symmetry
CHECK_DEADLOCK FALSE
