CONSTANTS
  Topologies <- MCTopologies
  LegacyGroups <- MCLegacyGroups
  MaxRuns = 4
CHECK_DEADLOCK FALSE
SPECIFICATION Spec
INVARIANTS
  TypeOK
  SuccessIsComplete
  DevicesHaveAccounts
  MigrationKeepsGroups
  WrongCountMeansLeftovers
