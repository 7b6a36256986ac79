SPECIFICATION Spec
CONSTANTS
  t1 = t1
  t2 = t2
  s1 = s1
  s2 = s2
  Thread <- Threads
  Server <- Servers
  Token = {k1}
  TTL = 2
  MaxSkew = 1
  MaxTime = 5
INVARIANTS
  TypeOK
PROPERTIES
  HonouredWhileFresh
  RefusedWhenStale
  ImplementsTable
SYMMETRY Symmetry
