SPECIFICATION Lively
CONSTANTS
  c1 = c1 c2 = c2 p = p r = r
  Abd = {p}
  Chunk <- Chunk2
  AbdOf <- OneBuffer
  Folio = {f1,f2}
  Pages = 2
  Hdr = {hA}
  Reclaimer = {r1}
  Owner = owner
  Migrator = migrator
  User = user
  Uses = {"write","migrate"}
  Marker = marker
  None = None
PROPERTY LetGo
