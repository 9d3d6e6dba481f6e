SPECIFICATION Spec
CONSTANTS
  NumDonors = 4
  RntiOf <- MCRntiOf
  Descendants = {"iab2", "ue1"}
  NestedIabs = {"iab2"}
  Flows = {1, 2}
  Owner <- MCOwner
  MT = "iab1"
  MtFlow = 0
  ExecDelay = FALSE
  RaMayFail = TRUE
  Spacing = "settled"
CHECK_DEADLOCK FALSE
INVARIANTS
  NoProtocolAbort
  UplinkNotGarbled
  SettledService
  ReleaseAfterRepoint
