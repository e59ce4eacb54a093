CONSTANTS
  Strings <- MCStrings
  Typed <- MCTyped
  FlagSets <- MCFlagSets
  Envs <- MCEnvs
  Yamls <- MCYamls
  Pgpass0 <- MCPgpass0
  Clients <- MCClients
  MaxTests = 2
  MaxCommands = 2
  MaxWizards = 1
SPECIFICATION Spec
CHECK_DEADLOCK FALSE
INVARIANTS
  AcceptedIsTested
  WizardReachesDeploy
  
  DialsByPrecedence
  PgpassServes
PROPERTIES
  CancelIsFinal
  OthersFindTheirs
