CONSTANTS
  ahenk1 = ahenk1
  Absent = Absent
  Torn = Torn
  Agent <- MCAgent
  Expected = 1
  Readings <- MCReadings
  Timeout = 0
  MinBackoff = 1
  MaxBackoff = 1
  MaxRuns = 2
  MaxAttempts = 1
CHECK_DEADLOCK FALSE
SPECIFICATION ESpec
INVARIANTS
  AcceptedBundleIsConsistent
