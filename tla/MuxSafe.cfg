SPECIFICATION Spec
CONSTANTS
  MaxId = 4
  MaxStreams = 2
  ClientWindow = 3
  ServerWindow = 2
  StreamChunk = 2
  OutputSlots = 1
  CreditFloor = 2
  CellBudget = 4
  FrameHeader = 1
  CreditBody = 2
  OpenBody <- Authorities
  Offsets = 3
  Scenes <- SafeScenes
INVARIANTS
  OnlyOpeningsRefused
  CreditConserved
  NoStall
  FinMeansAll
  SchedulerExact
\* Local connections may stay silent for ever.
CHECK_DEADLOCK FALSE
