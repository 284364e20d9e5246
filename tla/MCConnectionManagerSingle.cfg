SPECIFICATION Spec
CONSTANTS
  c1 = c1
  c2 = c2
  c3 = c3
  Callers = {c1, c2}
  None = None
  MaxAttempts = 2
  FailureThreshold = 2
  HalfOpenMax = 1
  ResetTimeout = 1
  CountCap = 2
INVARIANTS
  OneConnection
