SPECIFICATION FairSpec
CONSTANTS
  Total = 6
  WriteSizes = {2, 4}
  SegSize = 5
  Windows = {10, 12}
  MaxData = 8
  ReorderingThreshold = 2
  MaxTLPs = 2
  MaxTrackedGaps = 1
  RxMax = 2
  MaxTroubles = 2
  MaxPackets = 7
CHECK_DEADLOCK FALSE
INVARIANTS
  TypeOK
  NothingForgotten
  SingleCopy
  NeverStalled
  WithinCredit
PROPERTIES
  InOrder
  Delivers
