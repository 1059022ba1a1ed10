SPECIFICATION FairSpec
CONSTANTS
  q1 = q1
  q2 = q2
  p1 = p1
  p2 = p2
  NoProc = NoProc
  Proc = {q1, q2}
  Live = {q1, q2}
  Proposal = {p1, p2}
  Allowed = {p1}
  MaxRecords = 3
INVARIANT ChainVerifies
INVARIANT ExecutedIsTrue
INVARIANT ChangeIsDue
PROPERTY KeepsPromise
PROPERTY EveryCallEnds
CHECK_DEADLOCK FALSE
