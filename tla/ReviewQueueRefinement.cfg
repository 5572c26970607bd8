SPECIFICATION FairSpec
CONSTANTS
  Statement = {s1, s2}
  Cluster = {}
  Request = {r1, r2}
  Scan = {w1}
  ScanModes <- WithAuto
  MaxAttempts = 2
  MaxMerges = 1
  None = None
PROPERTIES ImplementsDecision RequestsEnd
