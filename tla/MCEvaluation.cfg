CONSTANTS
  NoService = NoService
  Nothing = Nothing
  Unbound = Unbound
  Torn = Torn
  fault = fault
  calm = calm
  drill = drill
  live = live
  cart = cart
  ad = ad
  Library <- MCLibrary
  Live = {live}
  AfterPromoted = {calm}
  Answers <- MCAnswers
  Decisions <- MCDecisions
  Learners = {1, 2}
  Shelf <- MCShelf
  Scripts <- MCScripts
  Starts <- MCStarts
  Outcomes <- MCOutcomes
  Fragile = {"b1"}
  Allowed = {"revert-flag"}
  Rules <- MCRules
  CalibrationMargin = 2
  CostIncrease = 20
  IgnoreBelow = 1
  MinimumTasks = 2
SPECIFICATION Spec
INVARIANT TypeOK
INVARIANT FiguresCanBeQuoted
INVARIANT LearningIsClean
PROPERTY LabelsAreFinal
INVARIANT StatisticsAreRight
CHECK_DEADLOCK FALSE
