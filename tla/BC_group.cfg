SPECIFICATION FairSpec
CONSTANTS
  Pod = {c1, c2}
  None = None
  Partition = {p1}
  LogLen = 2
  MaxBatch = 2
  WorkersNumber = 2
  Unlimited = Unlimited
  Targets = {0, 1, Unlimited}
  Benchmarks = {FALSE, TRUE}
  Faults = {"poll", "process", "commit"}
  MaxCrash = 1
  MaxRevoke = 1
INVARIANTS
  CommittedIsSettled
  ReportedOnce
PROPERTIES
  QueueKept
  CommitsAdvance
  RepeatsNeedRebalance
  EveryRecordSettled
CHECK_DEADLOCK FALSE
