SPECIFICATION FairSpec
CONSTANTS
  NServices = 2
  MaxHypotheses = 1
  MaxMemoryHypotheses = 1
  MinSupport = 2
  MaxRounds = 3
  MaxToolCalls = 6
  MaxIdenticalCalls = 2
  StallRounds = 1
  MaxAssignments = 2
  Assignable = {"change_analyst"}
  Metered = {"budget_usd", "budget_wall_clock"}
  Configurations = {{"critic", "graph", "memory"}, {}}
INVARIANT NamedIsConfirmed
INVARIANT EarlyStopIsTold
INVARIANT CompleteIsEarned
PROPERTY InvestigationEnds
