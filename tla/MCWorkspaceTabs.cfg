CONSTANTS
  Tab = {t1, t2, t3}
  Pane = {pane1, pane2, pane3}
  Nobody = Nobody
  MaxSize = 5
SPECIFICATION TabsSpec
SYMMETRY Symmetry
CHECK_DEADLOCK FALSE
INVARIANTS
  TabsTypeOK
  CanvasIsConsistent
