SPECIFICATION SpecFaultless
CONSTANTS
  Connections = {c1, c2}
  None = None
  MaxCalls = 2
  MaxStreams = 0
  MaxRounds = 2
INVARIANT MatchComparesTheTargets
CHECK_DEADLOCK FALSE
