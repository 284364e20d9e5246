SPECIFICATION FairSpec
CONSTANTS
  c1 = c1
  c2 = c2
  c3 = c3
  Calls <- MCCalls
  FailureThreshold = 2
  HalfOpenMax = 2
  ResetTimeout = 2
  CountCap = 3
INVARIANTS
  ClosedIffBelowThreshold
  ProbeBudget
  HalfOpenNeverStuck
PROPERTIES
  OpensOnConsecutiveFailures
  Recovers
