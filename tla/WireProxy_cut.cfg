SPECIFICATION Spec
CONSTANTS
  Conns = {c1}
  MaxRequests = 1
INVARIANT ForwardedIsIdentical
CHECK_DEADLOCK FALSE
