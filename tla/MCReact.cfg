CONSTANTS
  cart = cart
  flag = flag
  unlisted = unlisted
  KnownServices = {cart}
  Allowlist <- MCAllowlist
  NoVariant = NoVariant
  Broken = {"topology"}
  MaxCallsPerTool = 2
  Calls <- MCCalls
  Reports <- MCReports
  MaxRounds = 4
  MaxToolCalls = 40
  MaxIdenticalCalls = 2
  StallRounds = 2
  Metered = {"budget_tokens", "budget_wall_clock"}
SPECIFICATION ReactSpec
INVARIANT ReactTypeOK
INVARIANT EvidenceStands
PROPERTY OnlyUnaskableEscapes
PROPERTY EveryRunEnds
CHECK_DEADLOCK FALSE
