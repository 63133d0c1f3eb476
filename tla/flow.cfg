SPECIFICATION FairSpec
CONSTANTS
  Kinds <- MCKinds
  MaxConns = 2
  MaxFrames = 3
  FrameCap = 1
  FlushAt = 2
CHECK_DEADLOCK FALSE
INVARIANTS TypeOK NoHoleWhileOpen OrderPerConnection CompleteMeansAll CreditAccounting
PROPERTIES EndReachesReader ReadLoopGoesOn
