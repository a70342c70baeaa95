SPECIFICATION MemorySpec
CONSTANTS
  NumPages = 4
  NumPhysPages = 2
  TLBSets = 2
  TLBWays = 2
  Pid = 0
  Value = {0, 1}
  Initial <- Zeros
  Tid = {0, 1}
  Size = {1, 3}
  SharedFrames = 3
  NULL = NULL
  MaxVirtPages = 7
  MaxTicks = 4
INVARIANTS TLBConsistent CorrectUntilSwapping
INVARIANTS FramesBelongToPages
 
CHECK_DEADLOCK FALSE
