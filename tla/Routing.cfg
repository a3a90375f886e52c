SPECIFICATION AllSpec
CONSTANTS
  Parts = {"observable", "router", "template", "sockets"}
  None = None
  Threads = {t1, t2}
  Calls = 3
  Routes = {o1, o2, o3}
  Makers = {m1, m2}
  Handlers = {w1}
  Methods = {"GET"}
  Resources = {"/a", "/[x]"}
  Paths = {"/a", "/b"}
  TemplateLetters = {47, 91, 93, 97}
  ResourceLetters = {47, 63, 65, 97}
  TemplateLength = 5
  ResourceLength = 4
  Clients = {c1, c2, c3}
  Senders = {s1}
  MaxSends = 2
SYMMETRY RoutingSymmetry
INVARIANTS
  PartsTypeOK
  RoutesKept
  BySegments
  SocketsReached
  ReturnsOwnNumber
  ForeachCallsAll
