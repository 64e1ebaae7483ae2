\* A pull-point manager used as create_pullpoint_manager() gives it out, and
\* update_xaddrs() of the same camera beside it
CONSTANTS
  Kind = "PullPoint"
  Consumers = {c1}
  Tasks = {1, 2}
  Timers = {1, 2}
  Svc = {1, 2, 3, 4}
  Addr = {a1, a2}
  None = None
  Budget = 1
  Calls = {"pause", "resume", "stop", "shutdown", "close"}
  Factory = TRUE
  Rediscovery = TRUE
SPECIFICATION Spec
SYMMETRY Symmetric
INVARIANTS TypeOK LoopAlive ShutdownDisarms HeldSessionsOpen NoSessionLeak
PROPERTY LoopKept
