SPECIFICATION FairSpec
CONSTANTS
  Job = {j1, j2}
  Concurrency = 2
  MaxStalled = 1
  MaxStops = 2
  MaxFaults = 2
INVARIANTS TypeOK LedgerIsTrue CompletedMeansDone OneRowPerDelivery
PROPERTIES HistoryIsFrozen JobsEnd
CHECK_DEADLOCK FALSE
