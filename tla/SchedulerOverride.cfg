SPECIFICATION Spec
CONSTANTS
  Proc = {api, worker}
  Api = api
  Worker = worker
  MaxCrashes = 0
  Tenant = {1}
  Default = base
  Version = {1}
  MaxChanges = 2
  JobType = {1, 2}
  Setting <- MCSetting
  Legal <- MCLegal
  DefaultValue <- MCDefaultValue
  DefaultSchedules <- MCDefaultSchedules
  Gate <- MCGate
  Params <- MCParams
  Cadence = {"hourly", "2h", "", "typo"}
  Blank = ""
  Bad = "typo"
  Absent = Absent
  Null = Null
  Infinite <- MCInfinite
  Infinity = Infinity
  One = One
  LocalModel = LocalModel
  Illegal = Illegal
  Document <- GoodDocument
INVARIANT OverrideIsSparse
CHECK_DEADLOCK FALSE
