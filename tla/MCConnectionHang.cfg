SPECIFICATION FairSpec
CONSTANTS
  Elem <- MCElem
  Expected <- MCExpected
  HelloPriority = {"h1"}
  CancelOnConnectionLost <- MCCancel
  CancelIfUnresponded <- MCCancel
  CancelIfNotConnected <- MCNotConnected
  User = {}
  Hello = {"h1"}
  Ping = {"p1", "p2"}
  HealthCheck = TRUE
  Capacity = 1
  Cancels = {}
  MaxRun = 1
  MaxPush = 0
  MaxLoss = 1
  MaxError = 0
  MaxCancel = 0
PROPERTIES
  LostConnectionLeft
CHECK_DEADLOCK FALSE
