SPECIFICATION FairSpec
CONSTANTS
  MaxStreams = 2
  MaxConns = 2
  Workloads <- MCWorkloads
CONSTRAINT
  StreamsGoOn
INVARIANTS
  TypeOK
  SessionKnowsItsFlows
  WindowRespected
PROPERTIES
  WindowRefills
  EndReachesServer
  DeathEndsWaiting
CHECK_DEADLOCK FALSE
