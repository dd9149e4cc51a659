SPECIFICATION Spec
CONSTANTS
  MaxFrames = 2
  MaxLen = 1
  MaxLines = 1
INVARIANTS ReturnsFrameCount
