SPECIFICATION FairSpec
CONSTANTS
  Donors = {"sat1", "sat2"}
  IABs = {"iab1", "iab2"}
  UEs = {"ue1", "ue2"}
  Parent <- MCParent
  None = "none"
CHECK_DEADLOCK FALSE
PROPERTIES
  SentLater
