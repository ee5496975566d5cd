SPECIFICATION SpecOfOne
CONSTANTS
  Programs = {"write", "read", "store", "load", "verify", "map", "clone", "hot", "hog", "shm", "direct"}
  Jobs = 2
  Files = 3
  Size = 4
  Passes = 2
  Chunk = 2
  Span = 3
  Step = 2
  Share = 3
  Arena = 5
  PinPart = 4
  Rounds = 2
  NBlocks = 4
  MaxShare = 2
  Scanner = {s1, s2}
  First = s1
  Nothing = nothing
  PagesPerBlock = 18
  Ranges <- HoledRAM
  Guests <- SomeMachines
  Buffer = 60
  EndPFN = 81
  Changes <- SomeChanges
  Assertions <- SomeAssertions
  Value <- Hundredths
  Checks = {"deadlock", "subpage", "zeropage"}
  Seconds = 6
  Stall = 2
  Pages = 2
  Parts = 2
  Ahead = {ra}
  Filler = {f}
  Writer = {w}
  Piece = 1
  None = None
INVARIANTS SaidTrue CountsOfTheirBlock CountsAreCensus HostagesSeen MeasuredAsDumped JudgedFairly CapSaysNothing ToldTrue PageShowsFile BatchOfOneState
PROPERTIES Returned Rescanned AllEnd
CHECK_DEADLOCK FALSE
