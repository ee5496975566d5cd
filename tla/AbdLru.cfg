SPECIFICATION Spec
CONSTANTS
  c1 = c1 c2 = c2 p = p r = r
  Abd = {p,r}
  Chunk <- Chunk2
  AbdOf <- TwoBuffers
  Folio = {f1,f2,f3}
  Pages = 2
  Hdr = {hA, hB}
  Reclaimer = {r1}
  Owner = owner
  Migrator = migrator
  User = user
  Uses = {"touch","read","write","migrate"}
  Marker = marker
  None = None
SYMMETRY BufferSymmetry
INVARIANTS
  RefsExact
  ChunksKept
  BindingAlive
  NothingLeft
