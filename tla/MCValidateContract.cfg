CONSTANTS
  NoCap = NoCap
  Ms = 2
  Aggregate = 2
  Caps <- MCCaps
SPECIFICATION FairSpec
INVARIANTS
  EnforcedInTime
  PassNeedsEveryStage
  ReasonNamesStage
  OneEventPerVerdict
  OutputHeldBack
PROPERTIES
  CallEnds
CHECK_DEADLOCK FALSE
