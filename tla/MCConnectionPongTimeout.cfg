SPECIFICATION Spec
CONSTANTS
  Elem <- MCElem
  Expected <- MCExpected
  HelloPriority = {"h1"}
  CancelOnConnectionLost <- MCCancel
  CancelIfUnresponded <- MCCancel
  CancelIfNotConnected <- MCNotConnected
  User = {}
  Hello = {"h1"}
  Ping = {"p1"}
  HealthCheck = TRUE
  Capacity = 1
  Cancels = {}
  MaxRun = 1
  MaxPush = 0
  MaxLoss = 0
  MaxError = 0
  MaxCancel = 0
INVARIANTS
  PongTimeoutReconnects
CHECK_DEADLOCK FALSE
