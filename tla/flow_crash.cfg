SPECIFICATION FairSpec
CONSTANTS
  N = 4
  Required = {1, 4}
  Always = {4}
  Disabled = {2}
  Remote = {}
  Idempotent = {1}
  Retries <- FirstRetried
  Providers <- One
  Drivers = 2
  CrashBound = 2
  CancelBound = 0
  ResumeBound = 2
  StoreFaults = FALSE
  Churn = FALSE
  Careful = {"sweep", "single", "idle"}
INVARIANTS OneDriver WroteFirst SucceededMeansDone
PROPERTIES HumanDecides RunEnds KeepsLife
CHECK_DEADLOCK FALSE
