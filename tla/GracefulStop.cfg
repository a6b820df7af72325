CONSTANTS
  j1 = j1  j2 = j2  j3 = j3  j4 = j4
  t1 = t1  t2 = t2
  NoJob = NoJob
  Jobs = {j1, j2}
  Dispatched = {}
  Tenants = {t1, t2}
  TenantOf <- OneTenant
  BadData = {j2}
  Workers = {w1}
  Handlers = {}
  Mode = "background"
  QueueLimit = 2
  MaxUploads = 1
  Budget <- OneStop
SPECIFICATION FairSpec
CHECK_DEADLOCK FALSE
INVARIANT FailsOnlyForBadData
