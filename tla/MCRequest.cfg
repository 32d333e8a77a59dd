SPECIFICATION Spec
CONSTANTS
  Cmd = {"HELLO", "GET", "SUBSCRIBE", "PSUBSCRIBE", "UNSUBSCRIBE"}
  Kind = {"string", "pair"}
  Config <- MCConfig
  MaxArgs = 2
  MaxCommands = 3
INVARIANTS
  PayloadExact ExpectedExact PriorityExact
