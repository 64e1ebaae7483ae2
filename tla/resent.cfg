\* One fault is enough
CONSTANTS
  Callers = {renew, call}
  Renewers = {renew}
  Conns = {k1, k2}
  KeepAlive = 1
  Backoff = 2
  Attempts = 2
  Posts = 2
  Warm = {}
  Budget = 1
  None = None
SPECIFICATION Spec
INVARIANTS PostedOnce
