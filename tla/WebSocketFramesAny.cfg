SPECIFICATION Spec
CONSTANTS
  Frames <- AllFrames
  Fillers <- AnyFillers
  MaxFrames = 3
  NoKey = NoKey
  Garbage = Garbage
INVARIANTS
  TypeOK
  IndexInBounds
  ExtendedLengthUnreachable
  BytesInOrder
