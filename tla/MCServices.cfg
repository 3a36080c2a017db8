CONSTANTS
  Conn = {c1, c2}
  Holder = {h1, h2}
  NoHandle = NoHandle
  MaxLeaseId = 4
  Fwd = {f1, f2, f3}
  Port = {p1, p2}
  NoFwd = NoFwd
  NoPort = NoPort
  MaxRpcs = 3
  Closers = {k1, k2}
  MaxTickets = 3
  Ladder <- MCLadder
  MaxRounds = 1
  Upload = {u1, u2}
  Workspace = {a, b}
  Saved = {a}
  NoWorkspace = NoWorkspace
  MaxEdits = 2
  MaxOps = 1
  MaxTrouble = 1
  Win = {w1, w2, w3}
  NoWin = NoWin
  Transfer = {x1, x2}
  NoTransfer = NoTransfer
  NSessions = 1
  PartSize = 1
  MaxParts = 2
  MaxEvents = 3
  MaxBatch = 2
  QueueLimit = 2
  MaxStarts = 2
  Vault = {v1, v2}
  NoVault = NoVault
  Password = {pw1, pw2}
  Credential = {cred}
  Op = {o1, o2}
  MaxRows = 2
  MaxRequests = 3
  MaxCrashes = 1
  colon = colon
  space = space
  Char = {colon, space}
  LoginSequences <- MCSequences
  NoSteps = NoSteps
  Window = 3
  Interval = 2
  MaxReceived = 4
  Run = {r1, r2}
  MaxRuns = 1
  MaxHeld = 1
  MaxPrinted = 2
SPECIFICATION ServicesSpec
CHECK_DEADLOCK FALSE
INVARIANTS
  ServicesTypeOK
  LeasesAreSafe
  
  HistoryIsSound
  
  
  RepliesFindTheirCalls
  DesktopLeavesNothing
  
  QueuedIsSent
  VaultIsSound
  
  
PROPERTIES
  ArchiveSpec
  LockedIsKept
