SPECIFICATION FairSpec
CONSTANTS
  MaxRestarts = 2
  MaxAppears = 1
  MaxTries = 1
  Pauses = {FALSE}
INVARIANTS
  TypeOK
PROPERTIES
  RestartsReleaseThePorts
  LastRestartWins
  ShownSettles
CHECK_DEADLOCK FALSE
