SPECIFICATION Spec
CONSTANTS
  Total = 1
  NumParticipants = 2
  Base = 0
  MaxTroubles = 0
  Kubernetes = {FALSE}
  Count = 2
  FailureLog = 2
INVARIANT CountedSpikesArrive
CHECK_DEADLOCK FALSE
