SPECIFICATION Spec
CONSTANTS
  Total = 3
  NumParticipants = 2
  Base = 0
  MaxTroubles = 3
  Kubernetes = {TRUE, FALSE}
  Count = 2
  FailureLog = 2
INVARIANT TypeOK
INVARIANT PodsFollow
\* The driver comes to an end.
CHECK_DEADLOCK FALSE
