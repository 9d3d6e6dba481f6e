SPECIFICATION FairSpec
CONSTANTS
  FramesPerSegment = 2
  HeaderUnits = 2
  StartTime = 1
  StuckLimit = 2
  Setups <- MCTornHeaders
CHECK_DEADLOCK FALSE
PROPERTIES
  Resynchronises
