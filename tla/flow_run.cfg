SPECIFICATION Spec
CONSTANTS
  N = 3
  Required = {1, 3}
  Always = {3}
  Disabled = {}
  Remote = {2}
  Idempotent = {1}
  Retries <- FirstRetried
  Providers <- SecondTwice
  Drivers = 2
  CrashBound = 0
  CancelBound = 1
  ResumeBound = 1
  StoreFaults = TRUE
  Churn = TRUE
  Careful = {"sweep", "single", "idle"}
INVARIANTS TypeOK SucceededMeansDone
PROPERTIES EndsOnce KeepsLife
CHECK_DEADLOCK FALSE
