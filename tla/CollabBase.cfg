SPECIFICATION Spec
CONSTANTS
  c1 = c1
  c2 = c2
  Client <- Alone
  Project = {p, q}
  Layer <- Clients
  LayersOf <- Own
  Kinds = {"STROKE_END"}
  MaxSend <- Two
  MaxConn = 2
  EmitZero = FALSE
  Events = {"disconnect"}
INVARIANT
  BaseWithinLog
CHECK_DEADLOCK FALSE
