SPECIFICATION FairSpec
CONSTANTS
  Requests = {1, 2, 3}
  MaxPending = 2
  Limit = 2
  Scenes <- MCScenes
  None = None
INVARIANTS
  PendingExact
  AnswerExact
  AckExact
PROPERTIES
  CloseDrains
\* A closed carrier does nothing more.
CHECK_DEADLOCK FALSE
