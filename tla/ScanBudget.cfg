SPECIFICATION FairSpec
CONSTANTS
  Scan = {w1, w2}
  CallCap = 2
  TokenCap = 2
  MaxTokens = 2
  MaxSubjects = 1
  MaxGroups = 2
  MaxLost = 1
  MaxDays = 1
INVARIANTS TypeOK SlotWithinCaps DayWithinCaps MeterIsExact
PROPERTY ScansEnd
