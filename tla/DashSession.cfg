SPECIFICATION FairSpec
CONSTANTS
  FramesPerSegment = 2
  HeaderUnits = 1
  StartTime = 1
  StuckLimit = 2
  Setups <- MCSetups
CHECK_DEADLOCK FALSE
INVARIANTS
  TypeOK
  PendingGuarded
  SinglePlayChain
  CapOverrunBounded
PROPERTIES
  WholeSegments
  Recovers
