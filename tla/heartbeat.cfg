SPECIFICATION FairSpec
CONSTANTS
  Interval = 2
  OfflineTimeout = 2
  LostTimeout = 3
  Buckets <- SomeBuckets
  SeqMax = 4
  SweepInterval = 1
  QueueMax = 1
  OutboxMax = 2
  FaultBound = 1
  ProcessBound = 2
INVARIANTS OnlineIsFresh ArchiveIsTrue
PROPERTIES TwoBeatsSettle RestartIsReal Settles
CHECK_DEADLOCK FALSE
