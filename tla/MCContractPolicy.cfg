SPECIFICATION PolicySpec
CONSTANTS
  Segments <- MCSegments
  Pointers <- MCPointers
  Anchors <- MCAnchors
  Uncompilable <- MCUncompilable
  OverLong <- MCOverLong
  DraftOrder <- MCDraftOrder
  Handlers <- MCHandlers
  Formats <- MCFormats
  Alphabet <- MCAlphabet
  MaxReported = 2
  MaxIssues = 1
  FullMatch <- MCFullMatch
  LongTexts <- MCLongTexts
  Contracts <- MCContracts
  Payloads <- MCPayloads
  Setups <- MCSetups
  Asserted <- MCAsserted
  RefAlone <- MCRefAlone
INVARIANTS
  PassMeansSatisfied
  AdmittedEvaluates
  ReferencesEnd
  ForeignClausesExecuted
CHECK_DEADLOCK FALSE
