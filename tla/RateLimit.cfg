SPECIFICATION Spec
CONSTANTS
  k1 = k1
  k2 = k2
  status = status
  status1 = status1
  health = health
  Keys <- MCKeys
  Valid = {k1}
  Paths = {status1, health}
  Route <- MCRoute
  Exempt = {health}
  Limit = 2
  Window = 4
  TicksPerSecond = 2
  MaxTime = 9
  MaxRequests = 5
CHECK_DEADLOCK FALSE
INVARIANTS GatewayTypeOK LimitIsExact RetryAfterIsEnough EveryRequestAccounted
