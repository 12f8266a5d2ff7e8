SPECIFICATION FairSpecRun
CONSTANTS
  Connections = {c1, c2}
  None = None
  MaxCalls = 4
  MaxStreams = 1
  MaxRounds = 2
INVARIANTS
  TypeOK
  NoConnectionIsLost
  NothingOutlivesItsCall
  ReportIsOfOwnExecution
PROPERTIES
  CallsReturn
CHECK_DEADLOCK FALSE
