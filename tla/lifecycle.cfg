CONSTANTS
  NoChannel = NoChannel
  Channels = {c1, c2, c3}
  FifoDepth = 1
  MaxLen = 2
  BoardId = 511
  ResetShar = {0, 256}
SPECIFICATION FairSpec
INVARIANTS TypeOK ChannelsHeld ChannelsAccounted TransferComplete StaysInBounds BurstCanMove DriverContextLive OwnContextHeld MacAgrees
PROPERTIES TransferEnds AppContextKept
CHECK_DEADLOCK FALSE
