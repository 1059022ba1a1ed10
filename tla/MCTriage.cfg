CONSTANTS
  ServiceOrder <- MCServiceOrder
  Directions <- MCDirections
  CallsTotal = "calls"
  MaxRows = 14
  MaxSeriesPoints = 30
  MinBaselinePoints = 4
  GuardSeconds = 1
  BaselineThirds <- MCThird
  OnsetThreshold = 300
  Tiny = 1
  Never = Never
  Damping <- MCDamping
  OnsetBonus <- MCBonus
  BackwardRatio <- MCZero
  SelfLoopRatio <- MCZero
  Inputs <- MCInputs
  SamplesOf <- MCSamplesOf
  Excluded = {"gen"}
  MaxWindow = 12
  MinimumTopAnomaly = 500
  Tolerance <- MCTolerance
  MaxIterations = 5
  MaxPathSpans = 2
  ErrorSeverities = {"ERROR", "FATAL"}
  TopSignatures = 2
  TopTraces = 2
SPECIFICATION TriageSpec
INVARIANT AnswerIsEarned
INVARIANT ReadingsAreExact
INVARIANT SearchesAreExact
CHECK_DEADLOCK FALSE
