CONSTANTS
  s1 = s1
  s2 = s2
  Stoppers <- MCStoppers
  RetryBudgets <- MCBudgets
  MaxEvents = 4
  QueueSize = 2
  BatchSize = 2
  Threshold = 1
  Cooldown = 1
SPECIFICATION FairSpec
INVARIANTS
  LossAccounted
  DrainedOnCompletion
PROPERTIES
  ImplementsChannel
  StopCompletes
CHECK_DEADLOCK FALSE
