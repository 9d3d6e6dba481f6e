SPECIFICATION Spec
CONSTANTS
  NumDonors = 2
  RntiOf <- MCRntiOf
  Descendants = {"iab2", "ue1"}
  NestedIabs = {"iab2"}
  Flows = {1, 2}
  Owner <- MCOwner
  MT = "iab1"
  MtFlow = 0
  ExecDelay = TRUE
  RaMayFail = FALSE
  Spacing = "settled"
CHECK_DEADLOCK FALSE
INVARIANTS
  ResumesAfterPathSwitch
