SPECIFICATION Spec
CONSTANTS
  Elem <- MCElem
  Expected <- MCExpected
  HelloPriority = {"h1", "h2"}
  CancelOnConnectionLost <- MCCancel
  CancelIfUnresponded <- MCCancel
  CancelIfNotConnected <- MCNotConnected
  User = {}
  Hello = {"h1", "h2"}
  Ping = {"p1", "p2"}
  HealthCheck = TRUE
  Capacity = 1
  Cancels = {}
  MaxRun = 1
  MaxPush = 0
  MaxLoss = 0
  MaxError = 0
  MaxCancel = 0
INVARIANTS
  CheckedIsPinged
CHECK_DEADLOCK FALSE
