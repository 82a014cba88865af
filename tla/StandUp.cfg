CONSTANTS
  Services <- MCServices
  MaxNumber = 3
  MaxMishaps = 1
  MaxRuns = 2
  MaxAgents = 2
  Project = "liderahenk-test"
  StableSuccessCount = 2
SPECIFICATION Spec
CHECK_DEADLOCK FALSE
INVARIANTS
  TypeOK
  SuccessIsThisRuns
  ReportAgreesWithBootstrap
  AgentRunsBehindTheGate
  IdentitiesAreDistinct
  AgentPoolIsNumbered
