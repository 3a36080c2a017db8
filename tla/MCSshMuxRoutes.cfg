CONSTANTS
  Conn = {c1, c2}
  Holder = {h1, h2}
  NoHandle = NoHandle
  MaxLeaseId = 3
  r1 = r1
  r2 = r2
  Route = {r1, r2}
  Routes <- TwoRoutes
  Token = {t1}
  NoToken = NoToken
  NoConn = NoConn
  MayShutDown = FALSE
SPECIFICATION Spec
CHECK_DEADLOCK FALSE
PROPERTIES
  ReplacedNotHandedOut
  
  LifetimeSpec
