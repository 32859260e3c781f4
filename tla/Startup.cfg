SPECIFICATION Spec
CONSTANTS
  Steps = 4
  Capacity = 2
  JournalLimit = 5
  Handlers = {"r1", "r2"}
  Bodies = {"auth", "empty", "open", "bad"}
  Dials = {"d1"}
INVARIANTS
  RefsExact
  JournalExact
  AnswerMeansApplied
  OverLeavesNothing
\* An expired session's requests are over: nothing more happens.
CHECK_DEADLOCK FALSE
