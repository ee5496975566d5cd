SPECIFICATION Spec
CONSTANTS
  c1 = c1 c2 = c2 p = p r = r
  Abd = {p}
  Chunk <- Chunk1
  AbdOf <- OneChunk
  Folio = {f1,f2}
  Pages = 2
  Hdr = {hA, hB}
  Reclaimer = {r1}
  Owner = owner
  Migrator = migrator
  User = user
  Uses = {"read"}
  Marker = marker
  None = None
INVARIANT MoveNeverWaits
