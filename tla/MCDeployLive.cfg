SPECIFICATION HistoryFairSpec
CONSTANTS
  r1 = r1
  r2 = r2
  r3 = r3
  Runs <- TwoRuns
  Overwriters <- FirstRun
  Units = 2
  Faults = {"interrupt", "crash"}

PROPERTIES NothingLingers ExclusiveDeploySpec
