SPECIFICATION Spec
CONSTANTS
  Counts <- MCCounts
  ReferralTail = 1
  ReferralShare = 2
  Depths = {1, 2, 3, 4}
INVARIANTS
  RowsLoadInFileOrder
  CyclesAreInjected
  AssembliesEndInLeaves
  EnginesAgree
