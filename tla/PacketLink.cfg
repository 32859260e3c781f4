SPECIFICATION LinkSpec
CONSTANTS
  MaxBlock = 2
  UploadSlots = 2
  ReceiptCount = 2
  ReplayLimit = 3
  ReplaySlots = 2
  MaxSeq = 2
  Bodies <- MCBodies
  WriteSizes = {3}
  MaxCork = 3
  Deadlines = {}
  Downloads = {"d1", "d2"}
  Generations = {1, 2}
  PostHandshake = FALSE
  ClientBlocks = 1
  MaxUploads = 1
  MaxGets = 2
INVARIANTS
  LateRequestsHarmless
PROPERTIES
  ImplementsStream
\* A closed connection with an empty network does nothing more.
CHECK_DEADLOCK FALSE
