SPECIFICATION Spec
CONSTANTS
  None = None
  m1 = m1
  m2 = m2
  h1 = h1
  h2 = h2
  s1 = s1
  s2 = s2
  b1 = b1
  b2 = b2
  id1 = id1
  Messages = {m2}
  Handlers = {h1}
  Patterns <- OrderPatterns
  EventNames <- OrderNames
  Pattern <- OrderEvents
  EventName <- Order
  MessageId <- IdOfFirst
  HandlerTimeout = TRUE
  MalformedStrategies = {"dlq", "ignore"}
  Prefetch = 1
  Starters = {s1}
  Callbacks = {}
  MaxReconnectAttempts = 0
  Settings <- OneEvent
  MaxChannels = 1
  MaxTags = 1
INVARIANTS
  RoutedIsCalled
CHECK_DEADLOCK FALSE
