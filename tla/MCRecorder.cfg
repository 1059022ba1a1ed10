SPECIFICATION ReleaseSpec
CONSTANTS
  f1 = f1
  f2 = f2
  double = double
  healthy = healthy
  Flag = {f1, f2}
  Scenario = {double, healthy}
  NoFlag = NoFlag
  Fault <- MCFault
  Distractors <- MCDistractors
  Forced = {healthy}
  NFiles = 2
  MaxAttempts = 2
  MaxTakes = 2
  MaxReleases = 1
INVARIANT BundleShowsItsFault
INVARIANT LibraryIsSound
INVARIANT ReleaseIsSound
PROPERTY NothingIsLost
PROPERTY BatchEnds
CHECK_DEADLOCK FALSE
