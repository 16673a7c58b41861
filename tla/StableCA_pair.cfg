SPECIFICATION Spec
CONSTANTS
  Agents = {a1}
  Hosts = {h1}
  CALife = 3
  LeafLife = 2
  MaxTime = 4
  MaxCAs = 2
INVARIANT LoadedCACanSign
CHECK_DEADLOCK FALSE
