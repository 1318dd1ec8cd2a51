SPECIFICATION Spec
CONSTANTS
  MTU = 18
  SequenceSpace = 16
  LowSeq = 2
  HighSeq = 3
  Setups <- MCSetups
  Bitrates = {0}
  Fps = 30
  MinFrame = 4
  MaxFrame = 11
  MaxTicks <- MCMaxTicks
  Buffer = 30
  MaxConnections = 2
  StreamRoom = 1
  DownRoom = 1
INVARIANT TypeOK
INVARIANT Accounted
INVARIANT WholeFrames
INVARIANT RelayNeverMixes
INVARIANT LossEstimateSound
PROPERTY RelayRecovers
\* The participant may be stopped, and the relay out of connections, for good.
CHECK_DEADLOCK FALSE
