\* A manager the program built itself: start() beside a background task
CONSTANTS
  Kind = "PullPoint"
  Consumers = {c1}
  Tasks = {1, 2}
  Timers = {1, 2}
  Svc = {1, 2, 3, 4, 5, 6}
  Addr = {a1, a2}
  None = None
  Budget = 1
  Calls = {"pause", "resume", "stop", "shutdown"}
  Factory = FALSE
  Rediscovery = FALSE
SPECIFICATION Spec
SYMMETRY Symmetric
INVARIANTS SingleTimer SingleTask
PROPERTIES ShutdownQuiet
