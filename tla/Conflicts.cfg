SPECIFICATION Spec
CONSTANTS
  Statement = {1, 2, 3}
  Slot = {k1, k2}
  Object = {o1, o2}
  Scan = {c1, c2}
  ListLimit = 3
  Full = 1
  Stated = {Null, 1}
  MinConfidence = 1
  AutoResolve = TRUE
  CreateItems = TRUE
  Answer <- MCAnswer
  MaxChanges = 1
  MaxItems = 2
  Null = Null
SYMMETRY Symmetry
INVARIANTS TypeOK GroupsAreConflicts BestSurvives ClosedAfterVerdict
