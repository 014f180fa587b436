SPECIFICATION FairSpec
CONSTANTS
  root = root
  t1 = t1
  t2 = t2
  Processes = {p1, p2}
  Scopes = {root, t1, t2}
  MaxRequests = 3
  Path <- MCPath
  Background = {2}
  Recovery = {1}
  Ceiling <- MCCeiling
  FailsAt = {root}
  QueueMax <- MCQueueMax
  Reserve <- MCReserve
  MaxRetries = 1
  MaxDecisions = 2
  Timeout = 1
  MaxTime = 1
  MaxSpent = 3
  NoLease = NoLease
INVARIANTS AccountsBalance QueueOvershoot
PROPERTY LapsedIsReclaimed
CHECK_DEADLOCK FALSE
