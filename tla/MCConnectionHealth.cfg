SPECIFICATION Spec
CONSTANTS
  Elem <- MCElem
  Expected <- MCExpected
  HelloPriority = {"h1", "h2"}
  CancelOnConnectionLost <- MCCancel
  CancelIfUnresponded <- MCCancel
  CancelIfNotConnected <- MCNotConnected
  User = {}
  Hello = {"h1", "h2"}
  Ping = {"p1", "p2"}
  HealthCheck = TRUE
  Capacity = 1
  Cancels = {"all", "health_check"}
  MaxRun = 1
  MaxPush = 0
  MaxLoss = 1
  MaxError = 2
  MaxCancel = 1
INVARIANTS
  GroupSound RejectedHelloEnds PingedThroughout
CHECK_DEADLOCK FALSE
