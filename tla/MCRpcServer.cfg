SPECIFICATION Spec
CONSTANTS
  None = None
  m1 = m1
  m2 = m2
  cmd = cmd
  s1 = s1
  s2 = s2
  b1 = b1
  b2 = b2
  Messages = {m1, m2}
  RpcMessages = {m1}
  Malformable = {m1}
  Commands = {cmd}
  Command <- OneCommand
  CorrelationId <- IdIfRpc
  DedupKey <- OwnId
  MaxRetries = 1
  RequeueAnswers = {TRUE, FALSE}
  MalformedStrategies = {"dlq"}
  Deduplicate = TRUE
  CacheSize = 1
  Prefetch = 2
  Starters = {s1, s2}
  Callbacks = {b1, b2}
  MaxReconnectAttempts = 2
  Settings <- Everything
  MaxChannels = 2
  MaxTags = 2
  MaxDeliveries = 3
INVARIANTS
  TypeOK
  AckedWasHandled
  SettledWasAnswered
  NothingForgotten
  DrainedMeansIdle
  RequeueLimit
  HookedIsListening
PROPERTIES
  ReconnectGoesOn
CHECK_DEADLOCK FALSE
