SPECIFICATION FairPipelineSpec
CONSTANTS
  Threads = {t1, t2}
  Callbacks = {"fn"}
  Word = 8
  Width = 2
  Height = 1
  Coordinates = {0, 1}
  Images <- WideImage
INVARIANT PipelineTypeOK
PROPERTIES
  ImplementsCanvas
  CallsComeBack
  DrawnIsDisplayed
