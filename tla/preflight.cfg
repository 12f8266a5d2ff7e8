SPECIFICATION Spec
CONSTANTS
  None = None
INVARIANTS
  ExitZeroIsEarned
  GoodEnginesPass
