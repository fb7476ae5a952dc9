SPECIFICATION FairSpec
CONSTANTS
  Clients = {c1, c2}
  Word = 32
  Width = 3
  Height = 2
  Coordinates = {0, 1, 2, 31}
  Images <- SmallImages
INVARIANTS
  TypeOK
  StoresAreClipped
  FinishedIsShown
PROPERTIES
  DrawingReturns
  ImplementsDrawing
  CallsAreBounded
CHECK_DEADLOCK FALSE
