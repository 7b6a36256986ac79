SPECIFICATION SpecC
CONSTANTS
  Tool = {"pen", "fill"}
  MaxUndo = 2
  MaxPoints = 2
  MaxMarks = 2
  MaxLayers = 3
PROPERTY UndoRestores
CHECK_DEADLOCK FALSE
