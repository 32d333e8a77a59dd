SPECIFICATION ProgressSpec
CONSTANTS
  Elem <- MCElem
  Expected <- MCExpected
  HelloPriority = {"h1", "h2"}
  CancelOnConnectionLost <- MCCancel
  CancelIfUnresponded <- MCCancel
  CancelIfNotConnected <- MCNotConnected
  User = {"setr"}
  Hello = {"h1", "h2"}
  Ping = {}
  HealthCheck = FALSE
  Capacity = 1
  Cancels = {"all"}
  MaxRun = 1
  MaxPush = 0
  MaxLoss = 1
  MaxError = 0
  MaxCancel = 1
PROPERTIES
  LostConnectionLeft ExecCompletes ConnectionReplaced CancelledRunEnds
CHECK_DEADLOCK FALSE
