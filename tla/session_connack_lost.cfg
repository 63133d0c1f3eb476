SPECIFICATION FairSpec
CONSTANTS
  c1 = c1  c2 = c2  c3 = c3  reply = reply  topic = topic  Nil = Nil
  Conns <- MCConns2
  Streams <- MCTopic
  CtxStreams <- MCTopic
  FrameBytes <- MCFrameBytes
  SendCap = 1
  RetentionBytes = 3
  Retain = TRUE
  MaxFrames <- MCMaxFrames
  ConnackMayFail = TRUE
  ServerMayClose = FALSE
CHECK_DEADLOCK FALSE
PROPERTY ClosedIsUnbound
