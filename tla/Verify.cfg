SPECIFICATION Spec
CONSTANTS
  Programs = {"verify"}
  Jobs = 2
  Files = 3
  Size = 4
  Passes = 2
  Chunk = 2
  Span = 3
  Step = 2
  Share = 3
  Arena = 5
  PinPart = 4
  Rounds = 2
  None = None
INVARIANT VerifyReports
