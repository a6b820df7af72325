CONSTANTS
  j1 = j1  j2 = j2  j3 = j3  j4 = j4
  t1 = t1  t2 = t2
  NoJob = NoJob
  Jobs = {j1, j2}
  Dispatched = {j2}
  Tenants = {t1, t2}
  TenantOf <- OneTenant
  BadData = {j2}
  Workers = {w1, w2}
  Handlers = {}
  Mode = "broker"
  QueueLimit = 2
  MaxUploads = 1
  Budget <- BrokerEvents
SPECIFICATION FairSpec
CHECK_DEADLOCK FALSE
INVARIANTS AtMostOneRun IdInTransit
PROPERTIES EndsUnlessDisturbed
