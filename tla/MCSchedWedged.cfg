SPECIFICATION MaintainedSpec
CONSTANTS
  j1 = j1
  Jobs = {j1}
  Schedule <- Recurring
  MissedRun <- RunOnce
  Grace = 0
  MaxRetries = 1
  Workers = {w1}
  MaxTime = 1
  MaxEdits = 0
  MaxFaults = 1
  Crashes = FALSE
PROPERTIES
  DueIsClaimed
CHECK_DEADLOCK FALSE
