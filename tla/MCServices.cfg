SPECIFICATION ServicesSpec
CONSTANTS
  s1 = s1
  a1 = a1
  a2 = a2
  a3 = a3
  y1 = y1
  y2 = y2
  pump = pump
  goals = goals
  Sessions = {s1}
  ActionIds = {y1, y2}
  Instances = {pump, goals}
  Pump = pump
  Requests <- MCRequests
  MaxQueued = 2
  MaxBackground = 1
  MaxSequence = 3
  MaxRevision = 5
  MaxTime = 1
  NoRecord = NoRecord
  NoWrite = NoWrite
  NoState = NoState
  Absent = Absent
SYMMETRY Identities
INVARIANTS
  SingleRunning
  QueueWithin
  ContinuationsInOrder
  WithinTerms
  
  
PROPERTIES
  TerminalIsFinal
  FifoWithinPriority
CHECK_DEADLOCK FALSE
