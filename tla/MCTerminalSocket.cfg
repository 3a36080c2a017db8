CONSTANTS
  Window = {w1, w2, w3}
  NoWindow = NoWindow
  BufferSize = 2
  MaxOutput = 3
  MaxPrompts = 2
SPECIFICATION Spec
CHECK_DEADLOCK FALSE
INVARIANTS
  TerminalTypeOK
  OutputIsKept
  WindowIsServed
PROPERTIES
  AbandonedSessionsEnd
