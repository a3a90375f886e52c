SPECIFICATION AllSpec
CONSTANTS
  Parts = {"router"}
  None = None
  Threads = {t1, t2}
  Calls = 3
  Routes = {o1}
  Makers = {m1}
  Handlers = {w1}
  Methods = {"GET"}
  Resources = {"/a"}
  Paths = {"/a"}
  TemplateLetters = {47, 91, 93, 97}
  ResourceLetters = {47, 63, 65, 97}
  TemplateLength = 5
  ResourceLength = 4
  Clients = {c1}
  Senders = {s1}
  MaxSends = 2
INVARIANTS
  RequestReachesRoutes
