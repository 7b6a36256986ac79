SPECIFICATION ServerSpec
CONSTANTS
  s1 = s1
  s2 = s2
  Stream <- Streams
  Takers <- Threads
  Project = {p, q}
  MaxSignals = 2
INVARIANTS
  ServerTypeOK
  NoGhosts
  NoCallOutlivesService
PROPERTIES
  ShutsDown
  GetsThrough
  RoomsAreSwept
CHECK_DEADLOCK FALSE
