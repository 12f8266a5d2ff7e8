SPECIFICATION FairSpec
CONSTANTS
  r0 = r0
  r1 = r1
  Rows <- MCRows
  EmptyRows = r0
  Times = {1, 3}
  Predictions <- MCPredictions
  Configs <- MCConfigs
CHECK_DEADLOCK FALSE
INVARIANTS
  TypeOK
  Alternation
  VerdictOnLastAnswers
  SampleIsMeasuredIterations
  ErrorsAreTheFailures
PROPERTIES
  ImplementsPairedMeasurement
  Terminates
