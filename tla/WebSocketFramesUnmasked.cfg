SPECIFICATION Spec
CONSTANTS
  Frames <- UnmaskedFrames
  Fillers <- PlainFillers
  MaxFrames = 2
  NoKey = NoKey
  Garbage = Garbage
INVARIANT UnmaskedIsClosed
