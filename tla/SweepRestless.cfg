SPECIFICATION FairSpec
CONSTANTS
  Item = {i1, i2}
  Run = {w1, w2}
  Limit = 2
  MaxBatches = 2
  MaxAttempts = 2
  MaxTrouble = 2
  Restless = TRUE
INVARIANTS TypeOK TotalsAreExact ReasonIsRight
PROPERTY SweepsEnd
CHECK_DEADLOCK FALSE
