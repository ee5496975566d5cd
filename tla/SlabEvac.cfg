SPECIFICATION FairSpec
CONSTANTS
  s1 = s1 s2 = s2 s3 = s3
  Slab <- Slabs
  Obj <- Objects
  SlabOf <- SlabOfObject
  Handle = {h1, h2, h3}
  None = None
  MinPartial = 1
  Occupancies = {50, 100}
  GiveUp = 2
INVARIANTS
  OneHolder
  NoSlabLost
  PageStays
  PassTidy
PROPERTIES
  PassEnds
  Implements
