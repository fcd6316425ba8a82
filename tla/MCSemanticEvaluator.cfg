SPECIFICATION Spec
CONSTANTS
  Threads = {t1, t2}
  Objects = {o1, o2}
  Contents <- MCContents
  Cacheable <- MCCacheable
  Digest <- MCDigest
  Valid <- MCValid
  OverLong <- MCOverLong
  Findings <- MCFindings
  Capacity = 1
  MaxBreaches = 1
  MaxCalls = 2
  MaxChanges = 1
INVARIANTS
  AnswersAsUncached
SYMMETRY MCSymmetry
CHECK_DEADLOCK FALSE
