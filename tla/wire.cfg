SPECIFICATION Spec
CONSTANTS
  Configs <- MCConfigs
  Frames <- MCFrames
  MaxFrames = 2
  Second = 4
  Millisecond = 2
  DefaultHeartbeat = 20
  MetaLenBits = 2
  MaxPayloadSize = 7
  MinCompressSize = 2
  SealSize = 2
INVARIANTS
  EndsAgree
  DeliveredIsSent
  GoodFramesPass
CHECK_DEADLOCK FALSE
