SPECIFICATION CallbacksSpec
CONSTANTS
  Worker = {w1, w2}
  FromBlock = 2
  FirstHead = 2
  MaxHead = 5
  MaxTerm = 1
  MaxLost = 0
  Targets = {0, 4}
  Group = {g1}
  PollInterval = 2
  TimeLimit = 3
  MaxPurges = 2
  MaxFaults = 1
PROPERTIES
  LoopEnds
  TokenEventuallyProduced
  PurgeFollowsLead
CHECK_DEADLOCK FALSE
