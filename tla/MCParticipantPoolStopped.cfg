CONSTANTS
  Ids = {p1}
  Starters = {s1, s2}
  Stoppers = {t1}
  MaxRequests = 1
SPECIFICATION FairSpec
INVARIANT StoppedTestIsSilent
\* Everybody may be through.
CHECK_DEADLOCK FALSE
