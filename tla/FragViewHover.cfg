SPECIFICATION Spec
CONSTANTS
  NBlocks = 11
  MinSpan = 5
  Width = 2
  MapRows = 2
  CellW = 2
  CellH = 1
  MinRedraw = 1
  CatchUp = 2
  Settle = 3
  MaxTimers = 2
PROPERTY LandsOnDrawn
