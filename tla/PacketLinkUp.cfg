SPECIFICATION FairLinkSpec
CONSTANTS
  MaxBlock = 2
  UploadSlots = 2
  ReceiptCount = 2
  ReplayLimit = 3
  ReplaySlots = 2
  MaxSeq = 3
  Bodies <- MCBodies
  WriteSizes = {}
  MaxCork = 3
  Deadlines = {}
  Downloads = {}
  Generations = {}
  PostHandshake = FALSE
  ClientBlocks = 3
  MaxUploads = 3
  MaxGets = 2
INVARIANTS
  ReceiptMeansStored
  LateRequestsHarmless
PROPERTIES
  UploadsArrive
  ImplementsStream
\* A closed connection with an empty network does nothing more.
CHECK_DEADLOCK FALSE
