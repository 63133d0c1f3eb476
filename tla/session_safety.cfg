SPECIFICATION Spec
CONSTANTS
  c1 = c1  c2 = c2  c3 = c3  reply = reply  topic = topic  Nil = Nil
  Conns <- MCConns3
  Streams <- MCStreams
  CtxStreams <- MCTopic
  FrameBytes <- MCFrameBytes
  SendCap = 1
  RetentionBytes = 3
  Retain = TRUE
  MaxFrames <- MCMaxFrames
  ConnackMayFail = TRUE
  ServerMayClose = FALSE
SYMMETRY Symmetry
CONSTRAINT Bounded
CHECK_DEADLOCK FALSE
INVARIANTS TypeOK SupersededAreDead AddressableOnceAcknowledged
  RetainedOnlyWhileUnbound RetainedAccounting OrderAcrossConnections
PROPERTIES DropsBeginUnbound LostOnlyWithConnection DetachedOnlyDead
