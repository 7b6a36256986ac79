SPECIFICATION Spec
CONSTANTS
  c1 = c1
  c2 = c2
  Client <- Alone
  Project = {p, q}
  Layer <- Clients
  LayersOf <- Own
  Kinds = {"STROKE_END", "CURSOR_MOVE"}
  MaxSend <- Two
  MaxConn = 2
  EmitZero = FALSE
  Events = {"disconnect", "session", "subscribe", "refused", "redis", "crash"}
SYMMETRY ProjectsSymmetric
INVARIANT
  LoggedOnce
CHECK_DEADLOCK FALSE
