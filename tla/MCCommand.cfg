SPECIFICATION FairSpec
CONSTANTS
  MaxRetries = 3
  Countdown = 2
INVARIANTS ReportMatchesExit AbortSparesDatabase
PROPERTIES DoneRunsExit
