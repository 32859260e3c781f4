SPECIFICATION FairSpec
CONSTANTS
  MaxId = 1
  MaxStreams = 1
  ClientWindow = 3
  ServerWindow = 2
  StreamChunk = 2
  OutputSlots = 1
  CreditFloor = 2
  CellBudget = 4
  FrameHeader = 1
  CreditBody = 2
  OpenBody <- Authority
  Offsets = 2
  Scenes <- FairScenes
PROPERTIES
  Delivered
  FinishedRetire
  CancelDrains
\* Local connections may stay silent for ever.
CHECK_DEADLOCK FALSE
