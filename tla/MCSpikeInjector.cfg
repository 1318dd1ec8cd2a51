\* Safety and liveness of the spike registry and the kernel rules it owns.
CONSTANTS
  Platforms = {"linux", "darwin", "other"}
  FaultSets <- MCFaultSets
  SpikeIds = {s1, s2}
  MaxInjects = 3

SPECIFICATION FairSpec

INVARIANTS TypeOK CleanupArmed RuleOwned
PROPERTIES TimedSpikeExpires RuleLifted
