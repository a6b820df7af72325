CONSTANTS
  j1 = j1  j2 = j2  j3 = j3  j4 = j4
  t1 = t1  t2 = t2
  NoJob = NoJob
  Jobs = {j1, j2}
  Dispatched = {}
  Tenants = {t1, t2}
  TenantOf <- OneTenant
  BadData = {}
  Workers = {w1}
  Handlers = {h1}
  Mode = "poll"
  QueueLimit = 2
  MaxUploads = 1
  Budget <- OneStart
SPECIFICATION Spec
CHECK_DEADLOCK FALSE
PROPERTY TerminalIsFinal
