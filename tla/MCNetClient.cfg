SPECIFICATION Spec
CONSTANTS
  MaxFrames = 3
  MaxLen = 2
  MaxLines = 2
INVARIANTS NetTypeOK ConnectedIsUsable BufferNotOverrun NothingLeftToPost NoFrameLost GotInOrder OkMeansSent TornOnlyAfterTransmit
PROPERTIES
  ImplementsNetPort
