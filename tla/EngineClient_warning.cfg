SPECIFICATION FairSpec
CONSTANTS
  MaxRestarts = 1
  MaxAppears = 1
  MaxTries = 2
  Pauses = {FALSE, TRUE}
PROPERTIES
  PauseIsShown
CHECK_DEADLOCK FALSE
