SPECIFICATION Spec
CONSTANTS
  Id = {k1, k2}
  None = none
  Document <- Documents
INVARIANTS
  TypeOK
  CleansUp
  ExportInHull
  ExportCovers
PROPERTIES
  EndedIsInert
CHECK_DEADLOCK FALSE
