SPECIFICATION Spec
CONSTANTS
  Statement = {s1}
  Cluster = {c1}
  Request = {r1, r2}
  Scan = {w1}
  ScanModes <- ReviewOnly
  MaxAttempts = 1
  MaxMerges = 2
  None = None
INVARIANT NeverDoubleExecutes
