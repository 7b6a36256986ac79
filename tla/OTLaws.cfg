SPECIFICATION Spec
CONSTANTS
  Layer = {l1, l2, l3}
  Order = {0, 1, 2}
  MaxWindow = 2
INVARIANTS
  ClientMirrorsServer
  CancelledExactly
  ErasuresCommute
CHECK_DEADLOCK FALSE
