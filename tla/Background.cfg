CONSTANTS
  j1 = j1  j2 = j2  j3 = j3  j4 = j4
  t1 = t1  t2 = t2
  NoJob = NoJob
  Jobs = {j1, j2, j3}
  Dispatched = {j3}
  Tenants = {t1, t2}
  TenantOf <- OneTenant
  BadData = {j2}
  Workers = {w1}
  Handlers = {}
  Mode = "background"
  QueueLimit = 2
  MaxUploads = 1
  Budget <- Crashes
SPECIFICATION FairSpec
CHECK_DEADLOCK FALSE
INVARIANTS RowCoherent FailsOnlyForBadData
PROPERTIES TerminalIsFinal GoodJobsComplete ImplementsLifecycle
