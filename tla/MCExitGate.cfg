SPECIFICATION MCSpec
CONSTANTS
  metrics = metrics
  logs = logs
  trace = trace
  gone = gone
  graph = graph
  Ref = {metrics, logs, trace, gone, graph}
  Kind = {"metrics", "logs", "traces", "topology"}
  Service = {cart, payment}
  NoService = NoService
  Evidence <- MCEvidence
  MinSupport = 2
  Rerun = TRUE
  Repairs = TRUE
  MaxClaims = 3
INVARIANT PublishedStands
INVARIANT OnlyTakesAway
INVARIANT NoticeIsTrue
INVARIANT ConflictSilences
CHECK_DEADLOCK FALSE
