SPECIFICATION SpecOfOne
CONSTANTS
  NBlocks = 11
  MinSpan = 5
  Width = 2
  MapRows = 2
  CellW = 2
  CellH = 1
  MinRedraw = 1
  CatchUp = 2
  Settle = 3
  MaxTimers = 2
  c1 = c1 c2 = c2 c3 = c3 t1 = t1 r1 = r1 r2 = r2
  Cache = {c1, c2, c3}
  Mobile = {c1, c2}
  Tag = {t1}
  Zones <- TwoZones
  Holes = {5}
  BlockPages = 3
  Subsection = 1
  HostageMax = 2
  MaxCaches = 2
  MaxSites = 2
  MaxHostage = 2
  MaxSeen = 2
  Slots = 4
  Hash <- Colliding
  FirstWalks <- AnyWalks
  Walks <- TwoWalks
  Bytes = 8
  Sizes = {3, 8, 11}
  Reader = {r1, r2}
  File <- Files
  None = None
CONSTRAINT Bound
INVARIANTS ViewRight WalksRight LineForEachRow
PROPERTY PointsAtDrawn
