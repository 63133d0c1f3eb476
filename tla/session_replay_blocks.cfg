SPECIFICATION FairSpec
CONSTANTS
  c1 = c1  c2 = c2  c3 = c3  reply = reply  topic = topic  Nil = Nil
  Conns <- MCConns2
  Streams <- MCTopic
  CtxStreams <- MCTopic
  FrameBytes <- MCFrameBytes
  SendCap = 1
  RetentionBytes = 2
  Retain = TRUE
  MaxFrames <- MCMaxFrames
  ConnackMayFail = FALSE
  ServerMayClose = FALSE
CHECK_DEADLOCK FALSE
PROPERTY BindCompletes
