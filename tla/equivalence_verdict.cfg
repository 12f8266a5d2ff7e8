SPECIFICATION Verification
CONSTANTS
  SigFigs = 2
  MaxNumber = 996
  Fields <- MCFields
  TextOf <- MCTextOf
  Cases <- MCCases
INVARIANTS
  MatchedRowsAreClose
  EqualRowsMatch
  DivergenceIsFirst
  DivergenceNamesField
CHECK_DEADLOCK FALSE
