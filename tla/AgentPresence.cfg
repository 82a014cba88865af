CONSTANTS
  t1 = t1
  t2 = t2
  ahenk1 = ahenk1
  NoThread = NoThread
  Thread <- MCThread
  Agent <- MCAgent
  Ttl = 1
  Stale = 2
  MaxClock = 7
SYMMETRY Symmetry
CHECK_DEADLOCK FALSE
SPECIFICATION Spec
INVARIANTS
  TypeOK
  DisconnectedAgentsExpire
  LastingSessionsAreSeen
  AnswersDoNotGoBack
