SPECIFICATION FairSpec
CONSTANTS
  Window = 6
  Poll = 0
  Consecutive = 3
  MaxTime = 8
INVARIANT VerdictIsEarned
PROPERTY WatchEnds
CHECK_DEADLOCK FALSE
