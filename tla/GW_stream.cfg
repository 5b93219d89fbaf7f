SPECIFICATION FairSpec
CONSTANTS
  Handler = {h1, h2}
  Id = {i1, i2}
  NoId = NoId
  Nobody = Nobody
  ChannelSize = 2
  MaxEvents = 3
  FaultSets = {{"stall", "poll", "decode"}, {"rejoin"}}
INVARIANTS
  StreamInOrder
  SubsAreServed
  NoneMissedUntilFull
PROPERTIES
  GatewayGoesOn
CHECK_DEADLOCK FALSE
