CONSTANTS
  Window = {w1, w2}
  NoWindow = NoWindow
  BufferSize = 1
  MaxOutput = 1
  MaxPrompts = 3
SPECIFICATION Spec
CHECK_DEADLOCK FALSE
INVARIANTS
  AnswersReachTheirPrompt
