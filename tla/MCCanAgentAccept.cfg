SPECIFICATION Spec
CONSTANTS
  s1 = s1
  s2 = s2
  Session = {s1, s2}
  NoSession = NoSession
  MaxFrames = 1
  MaxBatch = 1
  SpscCapacity = 1
  TxBatch = 1
INVARIANT
  ServerKeepsAccepting
