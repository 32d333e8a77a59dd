SPECIFICATION Spec
CONSTANTS
  Elem = {"hello", "mget", "setr"}
  Expected <- MCExpected
  HelloPriority <- MCHelloPriority
  CancelOnConnectionLost = {"hello", "setr"}
  CancelIfUnresponded <- MCCancel
  EarlyReply = TRUE
  MaxParts = 1
  MaxPush = 1
  MaxBad = 1
  MaxConn = 2
INVARIANTS
  PendingQueued QueueInv NotifiedSound
  Matching AdapterExact
PROPERTIES
  ExecContract
