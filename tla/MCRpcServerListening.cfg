SPECIFICATION Spec
CONSTANTS
  None = None
  m1 = m1
  m2 = m2
  cmd = cmd
  s1 = s1
  s2 = s2
  b1 = b1
  b2 = b2
  Messages = {}
  RpcMessages = {}
  Malformable = {}
  Commands = {cmd}
  Command <- OneCommand
  CorrelationId <- OwnId
  DedupKey <- OwnId
  MaxRetries = 3
  RequeueAnswers = {TRUE, FALSE}
  MalformedStrategies = {"dlq"}
  Deduplicate = FALSE
  CacheSize = 1
  Prefetch = 2
  Starters = {s1}
  Callbacks = {b1}
  MaxReconnectAttempts = 2
  Settings <- Cancelled
  MaxChannels = 2
  MaxTags = 1
  MaxDeliveries = 2
INVARIANTS
  RunningIsListening
CHECK_DEADLOCK FALSE
