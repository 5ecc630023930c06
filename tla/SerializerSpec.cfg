\* HeadUnits = W: the head fills the output buffer exactly, the early return.
CONSTANTS
  HeadUnits = 2
  W = 2
  MaxBody = 6
  MaxChunk = 3
SPECIFICATION Spec
INVARIANTS
  Conservation
  DoneIsComplete
  EmptyPullIsHonest
