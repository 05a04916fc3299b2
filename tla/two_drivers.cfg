SPECIFICATION Spec
CONSTANTS
  N = 3
  Required = {1, 3}
  Always = {3}
  Disabled = {}
  Remote = {}
  Idempotent = {1}
  Retries <- FirstRetried
  Providers <- One
  Drivers = 2
  CrashBound = 0
  CancelBound = 0
  ResumeBound = 0
  StoreFaults = FALSE
  Churn = FALSE
  Careful = {"single", "idle"}
INVARIANTS OneDriver
CHECK_DEADLOCK FALSE
