SPECIFICATION Spec
CONSTANTS
  N = 2
  Required = {1}
  Always = {}
  Disabled = {}
  Remote = {1}
  Idempotent = {}
  Retries <- FirstRetried
  Providers <- One
  Drivers = 2
  CrashBound = 0
  CancelBound = 0
  ResumeBound = 0
  StoreFaults = FALSE
  Churn = FALSE
  Careful = {"sweep", "single", "idle"}
PROPERTIES UnknownWaits
CHECK_DEADLOCK FALSE
