SPECIFICATION FairSpec
CONSTANTS
  u1 = u1  l1 = l1  d1 = d1  d2 = d2  n1 = n1  n2 = n2
  Msg = {d1, d2, l1}
  Grp = {d1, d2, l1}
  Nodes = {n1, n2}
  Calls <- HubCalls
  GroupOf <- HubGroup
  Scope <- HubScope
  Dest <- HubDest
  MinSuccess <- HubMin
  MaxAttempts <- HubMax
  Immediate = {d1, d2, l1}
  Mortal = {d1}
  QueueMax = 4
  BatchSize = 2
  PollMax = 2
  CountBound = 3
  CrashBound = 0
  StopBound = 0
  DiskFaults = FALSE
INVARIANTS TypeOK HardCap FailedGroupsLeave
PROPERTIES SettledIsFinal KeepsPromise TtlSettles
