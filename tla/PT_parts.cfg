SPECIFICATION PartsSpec
CONSTANTS
    Finder = {f1}
    MaxMaster = 2
    MaxNew = 2
    ChainBlock = {"master", "shard"}
    TxsOf <- MCTxsOf
    AccountOf <- MCAccountOf
    KindOf <- MCKindOf
    PageSize = 2
    MaxFaults = 1
    t1 = t1  t2 = t2  t3 = t3  t4 = t4  t5 = t5
    a1 = a1  b1 = b1  c1 = c1
    Account = {a1, b1, c1}
    Skipped = {elector}
    Old <- MCOld
    NewRows <- MCNewRows
    MaxLt = 5
    PageLimits = {1, 2}
    State <- MCState
    HashOf <- MCHashOf
    OldStates <- MCOldStates
    Saves <- MCSaves
    BatchLimits = {1, 2}
    MaxFail = 1
    Operator = {p1, p2}
    Versions = {1, 2}
    MaxCommands = 3
    Asked = {a1, b1}
    Worker = {w1, w2}
    Version = {"x", "y"}
    Contract = {pk, ql}
    MaxStates = 3
    StateLimit = 2
    AddressLimit = 1
INVARIANTS
  FoundOnce
  WholeAnswer
  WalkComplete
  EachOnce
  CodeReadable
  AnswersFitPast
PROPERTIES
  FetchEnds
  CommandEnds
  UpBringsBoth
CHECK_DEADLOCK FALSE
