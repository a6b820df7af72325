CONSTANTS
  Schedules = {s1}
  PlanOf <- AllDaily
  Servers = {w1}
  Dispatchers = {d1, d2}
  Workers = {}
  BatchSize = 1
  Publishes = TRUE
  SlotsPerDay = 2
  LastDay = 1
  Budget <- Everything
SPECIFICATION Spec
CHECK_DEADLOCK FALSE
INVARIANTS TypeOK OneJobPerSlot NextRunIsEarliest
PROPERTIES NextRunAdvances PausedIsStill
