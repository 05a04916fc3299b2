SPECIFICATION FairSpec
CONSTANTS
  q1 = q1
  Requests = {q1}
  Reported = {"error", "warn"}
  BufferMax = 2
  QueueMax = 1
  RowsMax = 2
  LineBound = 2
  FaultBound = 0
PROPERTIES SendReturns
