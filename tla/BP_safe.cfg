SPECIFICATION LossSpec
CONSTANTS
  Worker = {w1, w2}
  FromBlock = 2
  FirstHead = 2
  MaxHead = 6
  MaxTerm = 2
  MaxLost = 1
  Targets = {0, 3}
CONSTRAINT FewBlocks
SYMMETRY WorkerSymmetry
INVARIANTS
  TokensConserved
  LossIsExplained
CHECK_DEADLOCK FALSE
