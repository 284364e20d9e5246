SPECIFICATION FairSpec
CONSTANTS
  r1 = r1
  r2 = r2
  traceId = traceId
  Requests <- MCRequests
  MaxAttempts = 2
  CustomId <- MCCustomId
  WithSignal <- MCWithSignal
  TimeoutOf <- MCTimeoutOf
  DefaultTimeout = 1
  MaxChannels = 2
  AgeCap = 3
INVARIANTS
  TypeOK
  EntriesAreLive
  NoCallOrphaned
  NoStrayTimer
PROPERTIES
  KeepsContract
CHECK_DEADLOCK FALSE
