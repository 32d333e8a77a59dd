SPECIFICATION Spec
CONSTANTS
  Cmd = {"GET", "PUNSUBSCRIBE"}
  Kind = {"string"}
  Config <- MCConfig
  MaxArgs = 2
  MaxCommands = 2
INVARIANTS
  ExpectedExact
