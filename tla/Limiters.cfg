CONSTANTS
  login = login  signup = signup  submit = submit  open = open
  Keys = {login, signup, submit, open}
  LimitOf <- Limits
  WindowOf <- Windows
  TicksPerSecond = 2
  MaxKeys = 2
  Backends = {"local", "redis"}
  LastTick = 5
  Budget <- Times
SPECIFICATION Spec
CHECK_DEADLOCK FALSE
INVARIANTS TypeOK WindowBound
PROPERTIES EvictsLeastRecent ImplementsWindow
