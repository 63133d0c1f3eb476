SPECIFICATION Spec
CONSTANTS
  r1 = r1  r2 = r2  s1 = s1
  Requests <- MCNone
  Subscriptions <- MCSubscriptions
  MaxConns = 2
  Reconnect = TRUE
CHECK_DEADLOCK FALSE
INVARIANT CallbacksAreSerial
