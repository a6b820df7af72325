CONSTANTS
  j1 = j1  j2 = j2  j3 = j3  j4 = j4
  t1 = t1  t2 = t2
  NoJob = NoJob
  Jobs = {j1, j2}
  Dispatched = {j2}
  Tenants = {t1, t2}
  TenantOf <- OneTenant
  BadData = {j2}
  Workers = {w1}
  Handlers = {h1}
  Mode = "poll"
  QueueLimit = 1
  MaxUploads = 2
  Budget <- Anything
SPECIFICATION Spec
CHECK_DEADLOCK FALSE
INVARIANTS TypeOK CompletedHasReport RunBound
PROPERTIES NeverReactivated
