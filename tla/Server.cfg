SPECIFICATION AllSpec
CONSTANTS
  Parts = {"waiting", "pipelined", "store", "run"}
  Requests <- AnyRequests
  MaxRequests = 3
  Pipelines = TRUE
  UIntRange = 8
  VerbLimit = 3
  Answers <- AppAnswers
  Threads = {t1, t2}
  MaxTimeout = 2
  None = None
  Updates = {u1, u2}
  MaxCrashes = 1
  NoList = NoList
INVARIANTS
  PartsTypeOK
  BodyInBounds
  AnswersEnd
  HeldOnce
  OwnListing
  AcknowledgedKept
PROPERTIES
  AnswersPromised
  WholeAnswered
  StoreAtomic
  CallsReturn
