SPECIFICATION Spec
CONSTANTS
  Rate = 2
  Epoch = 100
  MaxDelay = 1
  Sleep = 5
  MinTm = 1
  MinTick = 2
  UpdateTicks = 6
  UpdateTm = 2
  Word = 1024
  Steps <- ClockSteps
  MaxTime = 24
INVARIANTS
  TickTypeOK
  StampAccurate
