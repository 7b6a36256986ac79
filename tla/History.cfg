SPECIFICATION Spec
CONSTANTS
  Tool <- Tools
  MaxUndo = 2
  MaxPoints = 2
  MaxMarks = 2
  MaxLayers = 3
INVARIANTS
  TypeOK
  ActiveExists
CHECK_DEADLOCK FALSE
