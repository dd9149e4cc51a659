SPECIFICATION SysFairSpec
CONSTANTS
  MaxFrames = 2
  MaxLen = 2
  MaxLines = 1
  LastFrame = 2
  SpscCapacity = 1
  SockBuffer = 2
PROPERTIES
  DeliveredAtLast
  WritesReturn
INVARIANTS
  EndToEnd
