SPECIFICATION Spec
CONSTANTS
  Total = 8
  WriteSizes = {2, 4}
  SegSize = 5
  Windows = {10, 12}
  MaxData = 12
  ReorderingThreshold = 2
  MaxTLPs = 2
  MaxTrackedGaps = 1
  RxMax = 2
  MaxTroubles = 2
  MaxPackets = 6
CHECK_DEADLOCK FALSE
PROPERTIES
  OlderRetransmitted
