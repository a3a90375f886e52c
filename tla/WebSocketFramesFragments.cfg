SPECIFICATION Spec
CONSTANTS
  Frames <- FragmentFrames
  Fillers <- PlainFillers
  MaxFrames = 2
  NoKey = NoKey
  Garbage = Garbage
INVARIANT WholeMessages
