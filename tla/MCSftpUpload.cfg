CONSTANTS
  Upload = {u1}
SPECIFICATION UploadSpec
CHECK_DEADLOCK FALSE
INVARIANTS
  OnlyTempIsRemoved
