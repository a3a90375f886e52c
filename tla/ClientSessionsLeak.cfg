SPECIFICATION Spec
CONSTANTS
  c1 = c1
  k1 = k1
  Clients = {c1}
  Sockets = {k1}
  SocketOf <- OneSocket
  Workers = {w1, w2}
  Sessions = {s1, s2, s3}
  MaxBytes <- OneByte
  MaxChunk = 2
  None = None
  Null = Null
INVARIANT
  NoSessionLeftBehind
