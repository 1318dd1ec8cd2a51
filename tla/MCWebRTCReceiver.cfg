SPECIFICATION Spec
CONSTANTS
  Ids <- MCIds
  Setups <- MCSetups
  Tries = 2
  FirstId = 1001
  Concurrency = 2
  DefaultPartitions = 10
  SearchLimit = 5
  GiveUpAfter = 3
  MaxSampled = 2
  MaxFaults = 2
INVARIANT TypeOK
INVARIANT NothingLeaks
INVARIANT ReturnedIsAnswered
INVARIANT RetryHeals
INVARIANT DiscoveryFinds
PROPERTY ReceiverEnds
\* The receiver comes to an end.
CHECK_DEADLOCK FALSE
