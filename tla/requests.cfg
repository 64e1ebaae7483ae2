\* A Renew and another call of one service, over three connections
CONSTANTS
  Callers = {renew, call}
  Renewers = {renew}
  Conns = {k1, k2, k3}
  KeepAlive = 1
  Backoff = 2
  Attempts = 2
  Posts = 2
  Warm = {k1, k2, k3}
  Budget = 1
  None = None
SPECIFICATION FairSpec
CHECK_DEADLOCK FALSE
INVARIANTS TypeOK LoneCallSurvives RenewSurvives
PROPERTIES NoRuntimeAfterClose CallsEnd
