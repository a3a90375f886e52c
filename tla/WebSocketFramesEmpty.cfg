SPECIFICATION Spec
CONSTANTS
  Frames <- EmptyFrames
  Fillers <- PlainFillers
  MaxFrames = 2
  NoKey = NoKey
  Garbage = Garbage
INVARIANT CompleteWithItsLastByte
