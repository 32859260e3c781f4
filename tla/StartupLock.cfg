SPECIFICATION FairSpec
CONSTANTS
  Steps = 4
  Capacity = 2
  JournalLimit = 5
  Handlers = {"r1"}
  Bodies = {"auth", "empty", "open", "bad"}
  Dials = {"d1"}
PROPERTIES
  ExpireReturns
\* The deadlock this run is about leaves the goroutines waiting for ever.
CHECK_DEADLOCK FALSE
