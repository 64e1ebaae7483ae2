\* stop() beside a renewal in flight
CONSTANTS
  Kind = "PullPoint"
  Consumers = {c1}
  Tasks = {1, 2}
  Timers = {1, 2}
  Svc = {1, 2, 3, 4}
  Addr = {a1, a2}
  None = None
  Budget = 1
  Calls = {"stop"}
  Factory = TRUE
  Rediscovery = FALSE
SPECIFICATION Spec
SYMMETRY Symmetric
INVARIANT StopDisarms
