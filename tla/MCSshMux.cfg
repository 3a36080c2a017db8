CONSTANTS
  Conn = {c1, c2}
  Holder = {h1, h2, h3}
  NoHandle = NoHandle
  MaxLeaseId = 4
  r1 = r1
  r2 = r2
  Route = {r1}
  Routes <- OneRoute
  Token = {t1}
  NoToken = NoToken
  NoConn = NoConn
  MayShutDown = TRUE
SPECIFICATION Spec
SYMMETRY Symmetry
CHECK_DEADLOCK FALSE
INVARIANTS
  MuxTypeOK
  GesturesDialTogether
  NoLeaseWithoutSession
