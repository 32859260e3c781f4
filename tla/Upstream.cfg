SPECIFICATION FairSpec
CONSTANTS
  Schemes = {"http", "https", "socks5"}
  MaxSets = 3
INVARIANTS
  OutcomeSound
PROPERTIES
  DeadlineMeant
  SetupReturns
\* A connection may be used for ever.
CHECK_DEADLOCK FALSE
