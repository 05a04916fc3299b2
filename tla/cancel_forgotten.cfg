SPECIFICATION Spec
CONSTANTS
  N = 2
  Required = {1}
  Always = {}
  Disabled = {}
  Remote = {}
  Idempotent = {1}
  Retries <- Never
  Providers <- One
  Drivers = 2
  CrashBound = 1
  CancelBound = 1
  ResumeBound = 0
  StoreFaults = FALSE
  Churn = FALSE
  Careful = {"sweep", "single", "idle"}
INVARIANTS SucceededMeansDone
CHECK_DEADLOCK FALSE
