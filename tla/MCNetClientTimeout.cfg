SPECIFICATION FairSpec
CONSTANTS
  MaxFrames = 1
  MaxLen = 2
  MaxLines = 1
PROPERTIES ReceiveReturns
