SPECIFICATION SubSpec
CONSTANTS
  Elem <- MCElem
  Expected <- MCExpected
  HelloPriority = {"h1", "h2"}
  CancelOnConnectionLost <- MCElem
  CancelIfUnresponded <- MCElem
  CancelIfNotConnected = {}
  User = {"s1", "s2"}
  Sub = {"s1", "s2"}
  Hello = {"h1", "h2"}
  Ping = {}
  HealthCheck = FALSE
  Capacity = 1
  Cancels = {"receive", "run"}
  MaxRun = 1
  MaxPush = 3
  MaxLoss = 0
  MaxError = 0
  MaxCancel = 1
INVARIANTS
  SubTypeOK ReceivesSubscribed
PROPERTIES
  PushDelivered LossNoticed LostConnectionLeft
CHECK_DEADLOCK FALSE
