\* Coroutines that discover and create, one after the other or at the same time,
\* and may be cancelled; devicemgmt's document is loaded, media's is not
CONSTANTS
  Callers = {c1, c2, c3}
  Svc = {1, 2, 3, 4, 5, 6, 7, 8}
  Dev = dev
  Others = {media}
  DevAddr = home
  Addr = {a1, a2}
  Skews = {d1, d2}
  None = None
  Ops = {"create", "discover", "capabilities"}
  AdjustTime = TRUE
  Loaded = {dev}
  Cancels = TRUE
  Rounds = 5
  Budget = 2
SPECIFICATION Spec
SYMMETRY Symmetric
CHECK_DEADLOCK FALSE
INVARIANTS TypeOK EntryToRemove OffsetServed
PROPERTIES SendsOpen Compensated
