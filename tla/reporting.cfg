SPECIFICATION Spec
CONSTANTS
  None = None
  MongoTimes = {2, 12, 100}
  OracleTimes = {2, 100}
  MaxIterations = 3
  KeptRuns <- MCKeptRuns
  MaxRecords = 3
  TopSize = 1
INVARIANTS
  PercentilesAreOrdered
  MedianIsRobust
  SlowerMongoStillPasses
  PredictionsAreFalsifiable
  ReportsAgree
  ExtremesAreExtreme
CHECK_DEADLOCK FALSE
