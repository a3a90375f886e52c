SPECIFICATION Spec
CONSTANTS
  Frames <- LongFrames
  Fillers <- PlainFillers
  MaxFrames = 1
  NoKey = NoKey
  Garbage = Garbage
INVARIANT NoInternalError
