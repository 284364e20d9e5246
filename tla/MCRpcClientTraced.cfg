SPECIFICATION FairSpec
CONSTANTS
  r1 = r1
  r2 = r2
  traceId = traceId
  Requests <- TracedRequests
  MaxAttempts = 2
  CustomId <- TracedCustomId
  WithSignal <- TracedRequests
  TimeoutOf <- TracedTimeoutOf
  DefaultTimeout = 1
  MaxChannels = 1
  AgeCap = 3
INVARIANTS
  NoCallOrphaned
CHECK_DEADLOCK FALSE
