SPECIFICATION Spec
CONSTANTS
  Elem <- MCElem
  Expected <- MCExpected
  HelloPriority = {"h1"}
  CancelOnConnectionLost <- MCCancel
  CancelIfUnresponded <- MCCancel
  CancelIfNotConnected <- MCNotConnected
  User = {}
  Hello = {"h1"}
  Ping = {}
  HealthCheck = FALSE
  Capacity = 1
  Cancels = {}
  MaxRun = 1
  MaxPush = 0
  MaxLoss = 2
  MaxError = 0
  MaxCancel = 0
INVARIANTS
  KeepsReconnecting
CHECK_DEADLOCK FALSE
