SPECIFICATION Spec
CONSTANTS
  Pod = {c1, c2}
  None = None
  Partition = {p1}
  LogLen = 3
  MaxBatch = 2
  WorkersNumber = 2
  Unlimited = Unlimited
  Targets = {Unlimited}
  Benchmarks = {FALSE}
  Faults = {"process"}
  MaxCrash = 0
  MaxRevoke = 0
SYMMETRY GroupSymmetry
INVARIANTS
  CommittedIsSaved
CHECK_DEADLOCK FALSE
