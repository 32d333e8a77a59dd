SPECIFICATION Spec
CONSTANTS
  Cmd = {"GET"}
  Kind = {"string"}
  Config <- MCConfig
  MaxArgs = 2
  MaxCommands = 2
INVARIANTS
  AuthComplete
