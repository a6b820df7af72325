SPECIFICATION Spec
CONSTANTS
  Servers = {a, b}
  MaxRetries = 2
  Users = {"ann"}
  MaxTokens = 3
  Life = 0
  LastDay = 1
  Emails = {"ann"}
  Outsiders = {"oscar"}
  Keys = {"k1"}
  TokenLife = 1
  KeyLife = 0
  LastHour = 1
  Development = TRUE
  SignupOpen = TRUE
  Kids = {k, l}
  TTL = 2
  LastTick = 3
  Ids = {i, j}
  GroupOf <- OneGroup
  Limits = {1, 2}
  MaxChanges = 2
  Tenant = "us"
  Requests <- MCRequests
  Ladders <- MCLadders
SYMMETRY Symmetry
INVARIANTS
  ServicesTypeOK
  RedeemedOnce
  ReuseEndsSessions
  NoEscalation
  KnownKeyServed
  CatchesUp
  SoundExports
  SyncedWasReceived
  OneScore
  WorkflowSummarised
PROPERTIES
  WithdrawnKeyRefused
  DependenciesNeverHelp
  ImprovingNeverHurts
CHECK_DEADLOCK FALSE
