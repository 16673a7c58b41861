SPECIFICATION FairSpec
CONSTANTS
  Recorders = {r1, r2}
  Subs = {s1}
  Pollers = {p1}
  RingMax = 2
  ChanCap = 2
  MaxEntries = 3
INVARIANTS
  TypeOK
  RingIsLatest
  OneFate
  PendingSendsAreSafe
  ArrivalOrder
  IdsNameConsecutiveCaptures
PROPERTIES
  RecorderReturns
CHECK_DEADLOCK FALSE
