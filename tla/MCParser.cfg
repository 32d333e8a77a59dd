SPECIFICATION Spec
CONSTANTS
  max_embedded_depth = 2
  Hint = 3
  Input <- MCInput
INVARIANTS
  TypeOK NodesExact ErrorExact AsksOnlyIfNeeded
CHECK_DEADLOCK FALSE
