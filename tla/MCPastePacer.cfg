CONSTANTS
  block = block
  block2 = block2
  lines = lines
  bad = bad
  Paste = {block, block2, lines, bad}
  NoPaste = NoPaste
  Text <- Texts
SPECIFICATION PacerSpec
CHECK_DEADLOCK FALSE
INVARIANTS
  PacerTypeOK
  ProgressAddsUp
  TypedAsSent
PROPERTIES
  DroppedIsSilent
  QueuedIsTyped
