SPECIFICATION Spec
CONSTANTS
  s1 = s1
  s2 = s2
  s3 = s3
  Session = {s1, s2, s3}
  NoSession = NoSession
  MaxFrames = 2
  MaxBatch = 2
  SpscCapacity = 1
  TxBatch = 1
SYMMETRY SessionSymmetry
INVARIANTS
  TypeOK
  OneHandlerInFlight
  StreamConservation
  FanoutContiguous
  BacklogBounded
PROPERTIES
  ImplementsStream
