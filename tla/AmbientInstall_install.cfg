SPECIFICATION FairSpec
CONSTANTS
  Lines = {l1, l2}
  MaxCommands = 3
  MaxFaults = 1
INVARIANTS
  TypeOK
  ProfileIsKept
  UninstallIsComplete
PROPERTIES
  InstallComesUp
CHECK_DEADLOCK FALSE
