SPECIFICATION Spec
CONSTANTS
  a1 = a1
  a2 = a2
  c1 = c1
  Saver = {s1, s2}
  NumBlocks = 2
  Account = {a1, a2}
  Touches <- MCTouches
  Code = {c1}
  CodeOf <- MCCodeOf
  NumMessages = 3
  Source <- MCSource
  Destination <- MCDestination
  External = {3}
  Masterchain = {2}
  MaxTries = 2
  FaultSets = {{}, {"write", "tx"}, {"again"}, {"apart", "again"}, {"apart", "write"}}
SYMMETRY SaverSymmetry
INVARIANTS
  MasterRowIsLast
  DoneIsWhole
  StoredHasSource
  EndsKeptInOrder
  CodeKeptWithoutRetry
PROPERTIES
  LatestAdvances
CHECK_DEADLOCK FALSE
