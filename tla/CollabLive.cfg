SPECIFICATION FairSpecH
CONSTANTS
  c1 = c1
  c2 = c2
  Client <- Clients
  Project = {p}
  Layer <- Clients
  LayersOf <- Own
  Kinds = {"STROKE_END"}
  MaxSend <- OneEach
  MaxConn = 1
  EmitZero = FALSE
  Events = {}
PROPERTIES
  EveryoneLearns
  EverySendIsLogged
CHECK_DEADLOCK FALSE
