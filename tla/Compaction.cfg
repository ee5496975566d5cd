SPECIFICATION SpecOfOne
CONSTANTS
  Cache = {k1, k2}
  Eligible = {k1}
  Node = {n1}
  Pass = {t1}
  Direct = {d1}
  Hotplug = hotplug
  Defer = 1
  MaxPartial = 1
  FreeBlocks = 2
  BlockOrder = 3
  Layouts <- SomeLayouts
  ClusterOrder = 2
  FreeLimit = 4
  Folios <- Orders
  None = None
INVARIANTS CachesStay ScannedWell
PROPERTIES Revisited NobodyStuck SearchEnds
CHECK_DEADLOCK FALSE
