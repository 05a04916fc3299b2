SPECIFICATION FairSpec
CONSTANTS
  u1 = u1  l1 = l1  d1 = d1  d2 = d2  n1 = n1  n2 = n2
  Msg = {u1, l1}
  Grp = {u1, l1}
  Nodes = {n1}
  Calls <- OneEach
  GroupOf <- OwnGroup
  Scope <- SlaveScope
  Dest <- AnyDest
  MinSuccess <- SlaveMin
  MaxAttempts <- Unlimited
  Immediate = {}
  Mortal = {}
  QueueMax = 1
  BatchSize = 2
  PollMax = 2
  CountBound = 2
  CrashBound = 1
  StopBound = 1
  DiskFaults = TRUE
INVARIANTS DurableInv DoneMeansEnough
PROPERTIES SavedBeforeSent AtLeastOnce
