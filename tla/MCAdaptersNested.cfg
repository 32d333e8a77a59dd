SPECIFICATION Spec
CONSTANTS
  max_embedded_depth = 5
  N = 2
  Numeral = {"1"}
  Cases <- MCNested
INVARIANTS
  NestedRefused
CHECK_DEADLOCK FALSE
