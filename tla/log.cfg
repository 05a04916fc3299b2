SPECIFICATION Spec
CONSTANTS
  q1 = q1
  Requests = {q1}
  Reported = {"error"}
  BufferMax = 3
  QueueMax = 1
  RowsMax = 2
  LineBound = 4
  FaultBound = 1
INVARIANTS LostIsCounted
PROPERTIES ReadsOwnWrites
