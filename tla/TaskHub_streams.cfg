\* A buffer of two: viewers are evicted, join late, break off and are
\* torn down; stragglers publish after the end.
SPECIFICATION FairSpec
CONSTANTS
  Viewers = {v1, v2}
  BufferCap = 2
  MaxFrames = 3
  Straggling = TRUE
INVARIANTS
  TypeOK
  OpenIffListed
  
PROPERTIES
  OutcomeSticks
  ListedLearnOutcome
  StreamsEnd
CHECK_DEADLOCK FALSE
