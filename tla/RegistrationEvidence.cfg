CONSTANTS
  ahenk2 = ahenk2
  ahenk1 = ahenk1
  Absent = Absent
  Torn = Torn
  Agent <- MCAgent
  Expected = 1
  Readings <- MCReadings
  Timeout = 4
  MinBackoff = 1
  MaxBackoff = 2
  MaxRuns = 2
  MaxAttempts = 3
CHECK_DEADLOCK FALSE
SPECIFICATION FairSpec
INVARIANTS
  TypeOK
  CompletedBundleIsValid
  EventsAreOfTheManifestsRun
  SettlingIsPaced
PROPERTIES
  ImplementsLog
  SettlingEnds
