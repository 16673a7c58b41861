SPECIFICATION FairSpec
CONSTANTS
  Conns = {c1}
  MaxRequests = 3
INVARIANTS
  AnswersMatchRequests
  NeverReplayed
  EvidenceIsComplete
  NoUpstreamLeaks
PROPERTIES
  NobodyIsLeftWaiting
CHECK_DEADLOCK FALSE
