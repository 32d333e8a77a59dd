SPECIFICATION Spec
CONSTANTS
  max_embedded_depth = 5
  N = 2
  Numeral = {"1"}
  Cases <- MCCases
INVARIANTS
  TypeOK WrapperExact TupleExact GenericExact
CHECK_DEADLOCK FALSE
