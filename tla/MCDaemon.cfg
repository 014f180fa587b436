SPECIFICATION DaemonSpec
CONSTANTS
  p1 = p1
  p2 = p2
  c1 = c1
  c2 = c2
  NoPrompt = NoPrompt
  NoHub = NoHub
  NoView = NoView
  NoTurn = NoTurn
  NoClient = NoClient
  NoCursor = NoCursor
  NoSnapshot = NoSnapshot
  Prompts <- TwoPrompts
  Routed <- OneRouted
  SessionFaults = TRUE
  MaxFaults = 5
INVARIANTS
  OneEntryOneFinal
  CompletedAfterTerminal
  
  ViewMatchesStream
PROPERTIES
  AcceptedIsSettled
  CatchesUp
  AnswerIsSeen
CHECK_DEADLOCK FALSE
