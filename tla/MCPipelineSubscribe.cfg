SPECIFICATION Spec
CONSTANTS
  Elem = {"hello", "sub", "mget"}
  Expected <- MCExpected
  HelloPriority <- MCHelloPriority
  CancelOnConnectionLost <- MCCancel
  CancelIfUnresponded <- MCCancel
  EarlyReply = FALSE
  MaxParts = 2
  MaxPush = 1
  MaxBad = 1
  MaxConn = 2
INVARIANTS
  Matching AdapterExact CompletedNotQueued
PROPERTY NoOvertaking
