SPECIFICATION AllSpec
CONSTANTS
  Parts = {"files", "cache", "ids", "session", "cookies", "bytes", "letters", "sizes", "threads"}
  None = None
  Locations = 2
  MaxSize = 2
  LengthRange = 2
  MaxVersion = 3
  MaxTime = 2
  NameMarks <- OneName
  Texts = {"a", "b", "c"}
  TextSize <- EmptyToLarge
  CacheSize = 3
  ItemSize = 1
  MaxGets = 4
  MaxDepth = 4
  Clients = {c1, c2}
  Threads = {t1, t2}
  CharRange = 3
  LostTails = {1}
  PlainTails = {2}
  MaxRequests = 4
  MaxRestarts = 1
  Values = {"v1", "v2"}
  Attributes = {"Max-Age"}
  Colons = {"c", "v2"}
  MaxResponses = 4
  MaxLength = 6
  Resources = {"a", "b"}
  FrameSizes = {0, 125, 126, 65535, 65536, 2147483647}
  MaxFrames = 1
SYMMETRY HelpersSymmetry
INVARIANTS
  PartsTypeOK
  FilesAnswered
  CacheKept
  BrowsersKept
  TextsKept
  FramesSent
