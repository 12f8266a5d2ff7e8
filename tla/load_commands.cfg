SPECIFICATION FairSpec
CONSTANTS
  Files <- MCFiles
  BatchSize = 2
  Absent = Absent
  MaxFaults = 2
INVARIANTS
  TypeOK
  LoadedOracleIsDirectory
  LoadedMongoIsDirectory
  FailureHasACause
PROPERTIES
  ImplementsWholeTables
  RetryLoads
