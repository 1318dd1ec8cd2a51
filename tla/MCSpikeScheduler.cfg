CONSTANTS
  Events <- MCEvents
  StartOffset <- MCStartOffset
  TestDuration = 3
  MinSpacing = 1
  JitterPercent = 15
  MaxTime = 2
  MaxSpikes = 2
  MaxRunners = 3
  MaxStops = 1
SPECIFICATION FairSpec
INVARIANTS TypeOK OncePerStart NeverEarly
PROPERTIES StopNeedsNoTime EverySpikeRuns
\* The clock stops at its bound.
CHECK_DEADLOCK FALSE
