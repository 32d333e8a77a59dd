SPECIFICATION Spec
CONSTANTS
  Elem = {"setr"}
  Expected <- MCExpected
  HelloPriority <- MCHelloPriority
  CancelOnConnectionLost <- MCCancel
  CancelIfUnresponded <- MCCancel
  EarlyReply = FALSE
  MaxParts = 1
  MaxPush = 0
  MaxBad = 1
  MaxConn = 2
INVARIANT CompletedNotQueued
