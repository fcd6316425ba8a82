SPECIFICATION Spec
CONSTANTS
  Threads = {t1, t2}
  Runs = {k1, k2}
  Characters = {"a"}
  Observations <- MCObservations
  Responses <- MCResponses
  MaxBuffer = 2
  MaxCalls = 3
INVARIANTS
  EvaluatedWhole
  StateOfStream
  StreamBinds
  NoStaleVerdict
SYMMETRY MCSymmetry
CHECK_DEADLOCK FALSE
