CONSTANTS
  c1 = c1
  c2 = c2
  c3 = c3
  k1 = k1
  NoCall = NoCall
  Calls <- MCCalls
  AsyncCalls <- MCAsyncCalls
  Closers <- MCClosers
  MaxWorkers = 1
  MaxPending = 1
SPECIFICATION FairSpec
INVARIANTS
  PermitAccounting
  ZombiesOccupyCapacity
  NestedNeverStarved
  JoinedMeansQuiet
PROPERTIES
  CallerAnswered
  PermitsReturn
CHECK_DEADLOCK FALSE
