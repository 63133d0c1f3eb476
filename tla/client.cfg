SPECIFICATION FairSpec
CONSTANTS
  r1 = r1  r2 = r2  s1 = s1
  Requests <- MCRequest
  Subscriptions <- MCSubscriptions
  MaxConns = 2
  Reconnect = TRUE
CHECK_DEADLOCK FALSE
INVARIANTS TypeOK AnswersGoHome WaitingIsAddressable PendingBelongsToSession CloseEndsPending
PROPERTIES DialEnds CloseStopsIdleLoop
