CONSTANTS
  Strings <- MCStrings
  Typed <- MCTyped
  FlagSets <- MCFlagSets
  Envs <- MCEnvs
  Yamls <- MCYamls
  Pgpass0 <- MCPgpass0
  Clients = {}
  MaxTests = 2
  MaxCommands = 1
  MaxWizards = 1
SPECIFICATION Spec
CHECK_DEADLOCK FALSE
INVARIANTS
  CloudFlagsConnect
