SPECIFICATION Spec
CONSTANTS
  Elem = {"msetr"}
  Expected <- MCExpected
  HelloPriority <- MCHelloPriority
  CancelOnConnectionLost <- MCCancel
  CancelIfUnresponded <- MCCancel
  EarlyReply = FALSE
  MaxParts = 1
  MaxPush = 0
  MaxBad = 0
  MaxConn = 2
INVARIANT AdapterExact
