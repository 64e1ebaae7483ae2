\* Documents loaded, clock not adjusted, addresses stable; callers may be cancelled
CONSTANTS
  Callers = {c1, c2, c3}
  Svc = {1, 2, 3, 4, 5}
  Dev = dev
  Others = {media, ptz}
  DevAddr = home
  Addr = {a1}
  Skews = {d1}
  None = None
  Ops = {"create", "discover", "capabilities", "close"}
  AdjustTime = FALSE
  Loaded = {dev, media, ptz}
  Cancels = TRUE
  Rounds = 6
  Budget = 1
SPECIFICATION Spec
SYMMETRY Symmetric
CHECK_DEADLOCK FALSE
INVARIANTS NoLeak ClosesAll
