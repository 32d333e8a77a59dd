SPECIFICATION FairSpec
CONSTANTS
  Elem <- MCElem
  Expected <- MCExpected
  HelloPriority = {"h1"}
  CancelOnConnectionLost <- MCCancel
  CancelIfUnresponded <- MCCancel
  CancelIfNotConnected <- MCNotConnected
  User = {}
  Hello = {"h1"}
  Ping = {}
  HealthCheck = FALSE
  Capacity = 1
  Cancels = {"all"}
  MaxRun = 1
  MaxPush = 0
  MaxLoss = 0
  MaxError = 0
  MaxCancel = 1
PROPERTIES
  CancelAllStops
CHECK_DEADLOCK FALSE
