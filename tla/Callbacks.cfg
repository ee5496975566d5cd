SPECIFICATION SpecOfOne
CONSTANTS
  i1 = i1 i2 = i2 i3 = i3 l1 = l1 l2 = l2
  Id <- ThreeIds
  Lock = {l1, l2}
  LockOf <- SharedLock
  Slot = {m,s1,s2,s3}
  Mark = m
  Thread = {t1}
  Mover = mover
  Evictor = evictor
  Place = {p1, p2, p3}
  Task = {u1, u2}
  DnodeMover = mover
  MaxDbufs = 1
  None = None
INVARIANTS
  HeldInPlace
  Findable
  ChargedOnce
  MovedUnderNobody
PROPERTIES
  OrderKept
  ContractKept
  Answered
