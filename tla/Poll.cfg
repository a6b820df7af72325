CONSTANTS
  j1 = j1  j2 = j2  j3 = j3  j4 = j4
  t1 = t1  t2 = t2
  NoJob = NoJob
  Jobs = {j1, j2, j3, j4}
  Dispatched = {j4}
  Tenants = {t1, t2}
  TenantOf <- OneTenant
  BadData = {j2}
  Workers = {}
  Handlers = {h1, h2}
  Mode = "poll"
  QueueLimit = 1
  MaxUploads = 2
  Budget <- Quiet
SPECIFICATION FairSpec
CHECK_DEADLOCK FALSE
INVARIANTS ExclusiveRun AdmissionBound
PROPERTIES AcceptedJobsEnd DatasetsReclaimed
