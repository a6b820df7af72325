CONSTANTS
  Schedules = {s1, s2}
  PlanOf <- AllWeekly
  Servers = {w1}
  Dispatchers = {d1}
  Workers = {v1}
  BatchSize = 1
  Publishes = TRUE
  SlotsPerDay = 1
  LastDay = 8
  Budget <- OneFault
SPECIFICATION FairSpec
CHECK_DEADLOCK FALSE
INVARIANT NextRunIsEarliest
 
