SPECIFICATION Spec
CONSTANTS
  JobCount = 2
  Workers = {1, 2}
  Capacity <- One
  Idempotent = {1}
  Calls <- TwoCalls
  RetryMax = 1
  MaxParallel = 2
  LeaseTimeout = 0
  PlaceWait = 1
  Timeout = 2
  Memory = 2
  Outcomes = {"succeeded", "retryable"}
  Frail = {1}
  FaultBound = 1
  LeaseBound = 1
INVARIANTS SuccessIsReal AttemptsBounded ExecutedOnce DeadlineEnds
PROPERTIES KeepsCall
CHECK_DEADLOCK FALSE
