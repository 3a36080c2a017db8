CONSTANTS
  Conn = {c1, c2}
  Fwd = {f1, f2}
  Terminal = {s1, s2}
  Tunnel = {t1}
  NoConn = NoConn
  NoTunnel = NoTunnel
  MaxRequests = 2
  ShellsRefused = TRUE
  MayShutDown = TRUE
SPECIFICATION Spec
SYMMETRY Symmetry
CHECK_DEADLOCK FALSE
INVARIANTS
  FwdTypeOK
  LeasesMatchListeners
  OneWantedDriver
  ConfigForwardsFollow
