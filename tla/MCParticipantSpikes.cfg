CONSTANTS
  UdpIds = {1001, 1002}
  WebrtcIds = {1001, 1002}
  Events <- MCEvents
  InitialBitrate = 2500
  MaxInjects = 2
  MaxJoins = 2
SPECIFICATION FairSpec
INVARIANTS TypeOK RemovalArmed JustTargets
PROPERTY UdpSpikeEnds
\* Everything may be over.
CHECK_DEADLOCK FALSE
