SPECIFICATION OneSpec
CONSTANTS
  Parts = {"frames", "sessions"}
  Frames <- WholeMessage
  Fillers <- PlainFillers
  MaxFrames = 2
  NoKey = NoKey
  Garbage = Garbage
  Clients = {c1}
  Sockets = {k1}
  SocketOf <- OneSocket
  Workers = {w1, w2}
  Sessions = {s1, s2, s3, s4, s5}
  MaxBytes <- ThreeBytes
  MaxChunk = 2
  None = None
  Null = Null
PROPERTIES
  StreamSpec
  EverythingDelivered
  TasksTaken
  RequestAnswered
  ClientFinalized
