SPECIFICATION MemorySpec
CONSTANTS
  NumPages = 3
  NumPhysPages = 2
  TLBSets = 1
  TLBWays = 2
  Pid = 0
  Value = {0, 1}
  Initial <- Zeros
  Tid = {0, 1}
  Size = {1, 3}
  SharedFrames = 3
  NULL = NULL
  MaxVirtPages = 7
  MaxTicks = 5
INVARIANTS TLBCoherent
CHECK_DEADLOCK FALSE
