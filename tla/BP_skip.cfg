SPECIFICATION Spec
CONSTANTS
  Worker = {w1, w2}
  FromBlock = 2
  FirstHead = 2
  MaxHead = 5
  MaxTerm = 1
  MaxLost = 0
  Targets = {0}
INVARIANTS
  NoBlockSkipped
CHECK_DEADLOCK FALSE
