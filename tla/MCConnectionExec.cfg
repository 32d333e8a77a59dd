SPECIFICATION Spec
CONSTANTS
  Elem <- MCElem
  Expected <- MCExpected
  HelloPriority = {"h1", "h2"}
  CancelOnConnectionLost <- MCCancel
  CancelIfUnresponded <- MCCancel
  CancelIfNotConnected <- MCNotConnected
  User = {"setr", "now"}
  Hello = {"h1", "h2"}
  Ping = {}
  HealthCheck = FALSE
  Capacity = 1
  Cancels = {"all", "run", "exec", "resolve", "reconnection"}
  MaxRun = 2
  MaxPush = 0
  MaxLoss = 0
  MaxError = 0
  MaxCancel = 1
INVARIANTS
  ConnInv HelloFirst NoLostWakeup QueueSound BetweenConnections Matching
PROPERTIES
  ExecContract
CHECK_DEADLOCK FALSE
