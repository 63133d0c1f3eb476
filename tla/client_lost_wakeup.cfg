SPECIFICATION FairCallsSpec
CONSTANTS
  r1 = r1  r2 = r2  s1 = s1
  Requests <- MCRequests
  Subscriptions <- MCNone
  MaxConns = 2
  Reconnect = TRUE
CHECK_DEADLOCK FALSE
PROPERTY WaitersGetConnection
