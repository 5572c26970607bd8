SPECIFICATION Spec
CONSTANTS
  Statement = {s1, s2}
  Cluster = {c1}
  Request = {r1, r2}
  Scan = {w1}
  ScanModes <- ReviewOnly
  MaxAttempts = 2
  MaxMerges = 1
  None = None
SYMMETRY Symmetry
INVARIANTS TypeOK AcceptedWasCarriedOut NothingWithoutAccept RepliesAreTrue
PROPERTY DecisionIsFinal
