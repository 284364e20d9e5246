SPECIFICATION Spec
CONSTANTS
  None = None
  m1 = m1
  m2 = m2
  cmd = cmd
  s1 = s1
  s2 = s2
  b1 = b1
  b2 = b2
  Messages = {m2}
  RpcMessages = {}
  Malformable = {m2}
  Commands = {cmd}
  Command <- OneCommand
  CorrelationId <- OwnId
  DedupKey <- OwnId
  MaxRetries = 3
  RequeueAnswers = {TRUE}
  MalformedStrategies = {"dlq"}
  Deduplicate = FALSE
  CacheSize = 1
  Prefetch = 2
  Starters = {s1}
  Callbacks = {}
  MaxReconnectAttempts = 0
  Settings <- OneMessage
  MaxChannels = 1
  MaxTags = 3
  MaxDeliveries = 3
INVARIANTS
  RequeuedOnce
CHECK_DEADLOCK FALSE
