SPECIFICATION Spec
CONSTANTS
  j1 = j1
  Jobs = {j1}
  Schedule <- Recurring
  MissedRun <- Replay
  Grace = 0
  MaxRetries = 1
  Workers = {w1, w2}
  MaxTime = 1
  MaxEdits = 1
  MaxFaults = 2
  Crashes = TRUE
SYMMETRY WorkerSymmetry
CONSTRAINT EditsOrFaults
INVARIANTS
  OneOccurrenceOneAttempt
  AttemptHasJob
  EnqueuedIsDurable
CHECK_DEADLOCK FALSE
