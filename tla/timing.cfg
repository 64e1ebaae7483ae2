\* Supported cameras that may reboot, connection errors and timeouts
CONSTANTS
  Interval = 40
  Minimum = 10
  Rest = 7
  Attempts = 2
  Backoff = 1
  Latency = 1
  Cameras <- GoodCameras
  Errs <- SkewErrs
  Losses = 3
  Budget = 2
  None = None
  Refused = Refused
SPECIFICATION Spec
INVARIANTS TypeOK NeverLapses BrieflyDark
PROPERTIES NeverResubscribes
