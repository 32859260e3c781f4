SPECIFICATION MCSpec
CONSTANTS
  MaxBlock = 2
  UploadSlots = 3
  ReceiptCount = 3
  ReplayLimit = 4
  ReplaySlots = 3
  MaxSeq = 4
  Bodies <- MCBodies
  WriteSizes = {3}
  MaxCork = 3
  Deadlines = {"none", "armed"}
  Downloads = {"d1", "d2"}
  Generations <- MCGenerations
  PostHandshake = TRUE
INVARIANTS
  OutputInOrder
\* A closed connection whose calls have all returned does nothing more.
CHECK_DEADLOCK FALSE
