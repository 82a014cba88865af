CONSTANTS
  Absent = Absent
  Torn = Torn
  NoFile = NoFile
  Placeholder = Placeholder
  Truncated = Truncated
  Captures = {c1, c2}
  Tracked <- MCTracked
  Pictures <- MCPictures
  MaxAbandoned = 1
  Topology = "dev-fidelity"
  PackChoices <- MCPackChoices
  MaxGates = 2
  MaxSessions = 1
  MaxChowns = 1
SYMMETRY MCSymmetry
SPECIFICATION Spec
CHECK_DEADLOCK FALSE
INVARIANTS
  TypeOK
  RoundtripRestsOnFreshEvidence
  SupportAgreesWithChecks
  PassShownIsLatest
  ValidBaselineIsOneCapture
  PassedDiffIsOfOneCapture
PROPERTIES
  AcceptanceIsEarned
