SPECIFICATION FairSpec
CONSTANTS
  s1 = s1
  s2 = s2
  s3 = s3
  Session = {s1, s2, s3}
  NoSession = NoSession
  MaxFrames = 1
  MaxBatch = 1
  SpscCapacity = 1
  TxBatch = 1
PROPERTIES
  ReclaimedAfterReset
  ShutdownCompletes
  DeliveredUnlessStalled
