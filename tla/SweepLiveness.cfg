SPECIFICATION ScheduledSpec
CONSTANTS
  Item = {i1, i2}
  Run = {w1, w2}
  Limit = 1
  MaxBatches = 2
  MaxAttempts = 2
  MaxTrouble = 3
  Restless = FALSE
PROPERTY EverythingIsSwept
CHECK_DEADLOCK FALSE
