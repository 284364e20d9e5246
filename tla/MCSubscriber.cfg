SPECIFICATION FairSpec
CONSTANTS
  None = None
  m1 = m1
  m2 = m2
  h1 = h1
  h2 = h2
  s1 = s1
  s2 = s2
  b1 = b1
  b2 = b2
  id1 = id1
  Messages = {m1, m2}
  Handlers = {h1, h2}
  Patterns <- OrderPatterns
  EventNames <- OrderNames
  Pattern <- OrderEvents
  EventName <- OrderPlaced
  MessageId <- IdOfFirst
  HandlerTimeout = TRUE
  MalformedStrategies = {"dlq", "ignore"}
  Prefetch = 1
  Starters = {s1, s2}
  Callbacks = {b1, b2}
  MaxReconnectAttempts = 2
  Settings <- Everything
  MaxChannels = 2
  MaxTags = 1
INVARIANTS
  TypeOK
  StrictAcksAllOrNothing
  SettledOnce
  NothingForgotten
  DrainedMeansSettled
  RunningIsConsuming
PROPERTIES
  ReconnectSettles
CHECK_DEADLOCK FALSE
