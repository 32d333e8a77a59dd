SPECIFICATION Spec
CONSTANTS
  max_embedded_depth = 5
  N = 2
  Numeral = {"1"}
  Cases <- MCGeneric
INVARIANTS
  AnyReplyReceived
CHECK_DEADLOCK FALSE
