SPECIFICATION FairSpec
CONSTANTS
  Node = {n1, n2}
  None = None
  LeaderTTL = 7
  ElectionTimeout = 3
  RenewalPeriod = 2
  NumCallbacks = 2
  CallDelay = 1
  CallbackDelay = 1
  FaultSets = {{}, {"setnx", "get"}, {"setnx", "get", "expire"}, {"slow"}, {"slow", "setnx", "get", "expire"}}
INVARIANTS
  CallbacksFollowLeadership
  ConfirmedLeaderOwnsLock
  OneLeaderUnlessExpireFails
PROPERTIES
  StaleLeaderStepsDown
  LeaderEmerges
  StableLeader
