SPECIFICATION FairSpec
CONSTANTS
  None = None
  p1 = p1
  p2 = p2
  x1 = x1
  x2 = x2
  Publishes = {p1, p2}
  Calls <- OneOrBoth
  Exchanges = {x1, x2}
  Exchange <- Targets
  Preconfigured <- OnlySecond
  WaitsForConfirms = TRUE
  Retries = TRUE
  MaxAttempts = 2
  MaxChannels = 2
INVARIANTS
  TypeOK
  ConfirmedWhenResolved
  SentToDeclared
  ResentForAnother
  ReadyMeansActive
PROPERTIES
  PublishSettles
CHECK_DEADLOCK FALSE
