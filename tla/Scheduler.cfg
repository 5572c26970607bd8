SPECIFICATION BootSpec
CONSTANTS
  Proc = {api, worker}
  Api = api
  Worker = worker
  MaxCrashes = 1
  Tenant = {1, 2}
  Default = base
  Version = {1, 2}
  MaxChanges = 3
  JobType = {1, 2}
  Setting <- MCSetting
  Legal <- MCLegal
  DefaultValue <- MCDefaultValue
  DefaultSchedules <- MCDefaultSchedules
  Gate <- MCGate
  Params <- MCParams
  Cadence = {"hourly", "2h", "", "typo"}
  Blank = ""
  Bad = "typo"
  Absent = Absent
  Null = Null
  Infinite <- MCInfinite
  Infinity = Infinity
  One = One
  LocalModel = LocalModel
  Illegal = Illegal
  Document <- MCDocument
INVARIANTS TypeOK AppliedOnceInOrder SomebodySurvives QuietStartRegistersPlans FinitePoliciesResolve PayloadsHaveAuthors
PROPERTIES EveryoneBoots ImplementsVersions
CHECK_DEADLOCK FALSE
