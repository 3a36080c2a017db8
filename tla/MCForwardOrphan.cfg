CONSTANTS
  Conn = {c1, c2}
  Fwd = {f1}
  Terminal = {s1, s2}
  Tunnel = {}
  NoConn = NoConn
  NoTunnel = NoTunnel
  MaxRequests = 2
  ShellsRefused = TRUE
  MayShutDown = FALSE
SPECIFICATION Spec
SYMMETRY Symmetry
CHECK_DEADLOCK FALSE
INVARIANTS
  NoOrphanedForward
