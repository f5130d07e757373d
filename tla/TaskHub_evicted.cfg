SPECIFICATION FairSpec
CONSTANTS
  Viewers = {v1}
  BufferCap = 2
  MaxFrames = 3
  Straggling = FALSE
PROPERTIES
  EvictedCatchUp
CHECK_DEADLOCK FALSE
