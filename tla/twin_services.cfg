\* Two coroutines create a service for the first time, then the camera is closed
CONSTANTS
  Callers = {c1, c2}
  Svc = {1, 2, 3, 4}
  Dev = dev
  Others = {media}
  DevAddr = home
  Addr = {a1}
  Skews = {d1}
  None = None
  Ops = {"create", "close"}
  AdjustTime = FALSE
  Loaded = {}
  Cancels = FALSE
  Rounds = 4
  Budget = 0
SPECIFICATION Spec
SYMMETRY Symmetric
CHECK_DEADLOCK FALSE
INVARIANT ClosesAll
