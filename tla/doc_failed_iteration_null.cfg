SPECIFICATION Spec
CONSTANTS
  r0 = r0
  r1 = r1
  Rows <- MCRows
  EmptyRows = r0
  Times = {1}
  Predictions <- MCPredictions
  Configs <- MCShortConfigs
CHECK_DEADLOCK FALSE
INVARIANT
  FailedIterationIsNull
