SPECIFICATION Spec
CONSTANTS
  Elem = {"sub", "get"}
  Expected <- MCExpected
  HelloPriority <- MCHelloPriority
  CancelOnConnectionLost <- MCCancel
  CancelIfUnresponded <- MCCancel
  EarlyReply = TRUE
  MaxParts = 1
  MaxPush = 0
  MaxBad = 0
  MaxConn = 1
INVARIANT Matching
