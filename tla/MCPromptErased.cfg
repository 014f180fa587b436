SPECIFICATION Spec
CONSTANTS
  p1 = p1
  p2 = p2
  NoPrompt = NoPrompt
  Prompts <- TwoPrompts
  Routed <- DirectOnly
  SessionFaults = FALSE
  MaxFaults = 1
INVARIANTS
  CompletedIsAnswered
CHECK_DEADLOCK FALSE
