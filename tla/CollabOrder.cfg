SPECIFICATION SpecH
CONSTANTS
  c1 = c1
  c2 = c2
  Client <- Clients
  Project = {p}
  Layer = {l1}
  LayersOf <- Common
  Kinds = {"STROKE_END"}
  MaxSend <- TwoAndOne
  MaxConn = 1
  EmitZero = TRUE
  Events = {}
INVARIANTS
  PaintedInOrder
  NothingMissed
CHECK_DEADLOCK FALSE
