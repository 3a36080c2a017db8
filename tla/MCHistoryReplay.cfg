CONSTANTS
  NSessions = 1
  PartSize = 1
  MaxParts = 1
  MaxEvents = 3
  MaxBatch = 2
  QueueLimit = 4
  MaxStarts = 1
SPECIFICATION HistorySpec
CHECK_DEADLOCK FALSE
INVARIANTS
  TranscriptIsReplayable
