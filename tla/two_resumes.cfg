SPECIFICATION Spec
CONSTANTS
  N = 2
  Required = {1}
  Always = {}
  Disabled = {}
  Remote = {}
  Idempotent = {}
  Retries <- FirstRetried
  Providers <- One
  Drivers = 2
  CrashBound = 1
  CancelBound = 0
  ResumeBound = 2
  StoreFaults = FALSE
  Churn = FALSE
  Careful = {"sweep", "single"}
INVARIANTS OneDriver
CHECK_DEADLOCK FALSE
