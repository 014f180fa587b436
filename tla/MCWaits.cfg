SPECIFICATION FairSpec
CONSTANTS
  Commits = {c1}
  WaitIds = {x1}
  Workers = {w1, w2}
  WakeAt = {0}
  Expiries = {1}
  MaxTime = 1
  MaxCalls = 1
  MaxFaults = 1
  Absent = Absent
  NoWait = NoWait
INVARIANTS
  WakeFollowsFire
  SettledHasNoArmedWait
  WaitsInOrder

  
  
CHECK_DEADLOCK FALSE
