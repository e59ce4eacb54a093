SPECIFICATION HistorySpec
CONSTANTS
  r1 = r1
  r2 = r2
  r3 = r3
  Runs <- ThreeRuns
  Overwriters <- FirstTwo
  Units = 2
  Faults = {"interrupt"}
SYMMETRY Symmetry
INVARIANTS LockInv SerialScripts SuccessIsComplete LockDiesWithRun CleanRunsKeepSettings
