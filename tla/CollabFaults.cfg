SPECIFICATION SpecH
CONSTANTS
  c1 = c1
  c2 = c2
  Client <- Clients
  Project = {p}
  Layer = {l1}
  LayersOf <- Common
  Kinds = {"STROKE_END", "LAYER_DELETE", "CANVAS_CLEAR"}
  MaxSend <- OneEach
  MaxConn = 1
  EmitZero = TRUE
  Events = {"refused", "redis", "crash"}
SYMMETRY ClientsSymmetric
INVARIANTS
  TypeOK
  StampedFromLog
PROPERTIES
  ImplementsSequencer
CHECK_DEADLOCK FALSE
