SPECIFICATION FairSpec
CONSTANTS
  Flows = {f1}
  PeekMax = 2
  MaxChunks = 3
INVARIANTS
  TypeOK
  OnePath
  NoConnectionLeaks
  OnlyProviderFlowsReachProxy
PROPERTIES
  ImplementsTransparentFlow
  RaceIsDecided
  FinishReachesAgent
CHECK_DEADLOCK FALSE
