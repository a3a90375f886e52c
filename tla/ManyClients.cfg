SPECIFICATION ManySpec
CONSTANTS
  Parts = {{c1, c2}, {c3, c4}, {c5}}
  c1 = c1
  c2 = c2
  c3 = c3
  c4 = c4
  c5 = c5
  k1 = k1
  k2 = k2
  k3 = k3
  k4 = k4
  Clients = {c1, c2, c3, c4, c5}
  Sockets = {k1, k2, k3, k4}
  SocketOf <- ManySockets
  Workers = {w1, w2}
  Sessions = {s1, s2, s3, s4, s5, s6}
  MaxBytes <- ManyBytes
  MaxChunk = 2
  None = None
  Null = Null
SYMMETRY WorkerSymmetry
INVARIANTS
  TypeOK
  PopSafe
  OneTaskPerSession
  ExclusiveUnlessMixed
  StrandedOnlyIfLate
  CalledInOrder
  AnswerNotErased
  SessionWhileConnected
  OwnClientOnly
