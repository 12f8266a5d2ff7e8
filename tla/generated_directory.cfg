SPECIFICATION FairSpec
CONSTANTS
  Args <- MCArgs
  Nothing = Nothing
  MaxCrashes = 2
INVARIANTS
  TypeOK
  ManifestHoldsUntilOtherArguments
PROPERTIES
  RegenerationHeals
