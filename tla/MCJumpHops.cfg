CONSTANTS
  Hop = {x1, x2, x3}
  Chain = {d1, d2}
  Depth = 2
  Token = {t1}
  NoHop = NoHop
  NoToken = NoToken
  MayShutDown = TRUE
SPECIFICATION Spec
CHECK_DEADLOCK FALSE
INVARIANTS
  HopTypeOK
  RoutesAreHeld
  ReplacementsAreFresh
PROPERTIES
  UnusedHopEnds
