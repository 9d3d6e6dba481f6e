SPECIFICATION FairSpec
CONSTANTS
  Periods = {1, 2}
  MaxClicks = 4
CHECK_DEADLOCK FALSE
INVARIANTS
  TypeOK
  OnePeriodAhead
  PlayHasTimer
PROPERTIES
  Closes
  PlayAdvances
  PauseStops
