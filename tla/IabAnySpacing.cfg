SPECIFICATION FairSpec
CONSTANTS
  NumDonors = 4
  RntiOf <- MCRntiOf
  Descendants = {"iab2", "ue1"}
  NestedIabs = {"iab2"}
  Flows = {1, 2}
  Owner <- MCOwner
  MT = "iab1"
  MtFlow = 0
  ExecDelay = TRUE
  RaMayFail = TRUE
  Spacing = "any"
CHECK_DEADLOCK FALSE
INVARIANTS
  TypeOK
  RelayExactlyOnce
PROPERTIES
  RelayRefined
  DownlinkRestored
  HandoverCompletes
