CONSTANTS
  t1 = t1
  t2 = t2
  x = x
  y = y
  Default = Default
  FinalizersHooked = FALSE
  Threads <- MCThreads
  Tenants <- MCTenants
  MaxTenants = 1
  MaxContainers = 2
SPECIFICATION FairSpec
INVARIANTS
  NeverTornInUse
  TornOnce
PROPERTIES
  TornDownForGood
CHECK_DEADLOCK FALSE
