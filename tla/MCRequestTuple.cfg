SPECIFICATION Spec
CONSTANTS
  Cmd = {"GET"}
  Kind = {"string", "pair", "tuple"}
  Config <- MCConfig
  MaxArgs = 2
  MaxCommands = 2
INVARIANTS
  PayloadExact
