\* Three buffer pairs, two buffer sizes, two access sizes.
SPECIFICATION Spec
CONSTANTS
  Buffers <- MCBuffers
  Values <- MCValues
  Size = 1
  MayFail = TRUE
  None = None
  Slots = 3
  Numbers = 4
  FirstBuffer = 0
  LastBuffer = 1
  MaxAccess = 1
INVARIANTS NeverFails
PROPERTIES SourceStable LoopGoesOn
CHECK_DEADLOCK FALSE
