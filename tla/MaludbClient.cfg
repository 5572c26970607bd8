SPECIFICATION FairSpec
CONSTANTS
  Call = {c1, c2}
  MaxRetries = 2
INVARIANTS TypeOK ResultsAreTrue
PROPERTIES ImplementsCall TerminalIsFinal CallsSettle
CHECK_DEADLOCK FALSE
