\* A notification manager, which builds its two services in the other order:
\* recovery from faults and rest after shutdown() under fairness
CONSTANTS
  Kind = "Notification"
  Consumers = {c1}
  Tasks = {1, 2}
  Timers = {1, 2}
  Svc = {1, 2, 3, 4}
  Addr = {a1, a2}
  None = None
  Budget = 2
  Calls = {"pause", "resume", "stop", "shutdown"}
  Factory = TRUE
  Rediscovery = FALSE
SPECIFICATION FairSpec
INVARIANT HeldServicesCurrent
PROPERTIES Recovers ShutdownQuiesces LoopServes
