CONSTANTS
  p1 = p1
  p2 = p2
  t1 = t1
  t2 = t2
  a = a
  b = b
  Nobody = Nobody
  Procs <- MCProcs
  Threads <- MCThreads
  Ids <- MCIds
  HostOf <- MCHostOf
  Offer <- MCOffer
  MaxRelease = 2
  MaxCrashes = 1
  MaxCorrupt = 1
SPECIFICATION FairSpec
INVARIANTS
  OnlyAdmittedServed
  LocksInUse
PROPERTIES
  PassNeverForgets
  
CHECK_DEADLOCK FALSE
