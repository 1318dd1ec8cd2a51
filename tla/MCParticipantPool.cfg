CONSTANTS
  Ids = {p1}
  Starters = {s1, s2}
  Stoppers = {t1}
  MaxRequests = 2
SPECIFICATION FairSpec
INVARIANTS TypeOK NoMemberMissed StopSilences LoopsBounded
PROPERTY StoppedLoopsEnd
\* Everybody may be through.
CHECK_DEADLOCK FALSE
