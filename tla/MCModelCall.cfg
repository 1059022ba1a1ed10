CONSTANTS
  fast = fast
  spare = spare
  strong = strong
  Models = {fast, spare, strong}
  Candidates <- MCCandidates
  Price <- MCPrice
  MaxTokens = 8
  MaxUsd = 9
  MaxClock = 3
  MaxAttempts = 2
  BaseDelay = 1
  MaxDelay = 2
  MaxRepairs = 2
  Retryable = {"timeout", "busy"}
  OutputLimit = 1
  PromptSize = 1
  Lapse = 1
  MaxCalls = 2
  Modes = {"stub", "replay", "local", "api"}
SPECIFICATION Spec
INVARIANT SpendIsAccounted
PROPERTY WaitsFitTheClock
PROPERTY EveryCallEnds
PROPERTY KeepsPromise
CHECK_DEADLOCK FALSE
