SPECIFICATION Spec
CONSTANTS
  Node = {n1, n2}
  None = None
  LeaderTTL = 10
  ElectionTimeout = 5
  RenewalPeriod = 2
  NumCallbacks = 2
  CallDelay = 0
  CallbackDelay = 12
  FaultSets = {{"slow"}}
SYMMETRY NodeSymmetry
INVARIANTS
  AtMostOneLeader
