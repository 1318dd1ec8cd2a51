CONSTANTS
  TotalItems = 4
  MaxConcurrent = 2
  Buffers = {0, 1}
SPECIFICATION FairSpec
INVARIANTS TypeOK TokensMatch NilMeansAllRan NeverStuck
PROPERTIES ImplementsPool ExecuteReturns CancelEndsSchedule
\* The call is over.
CHECK_DEADLOCK FALSE
