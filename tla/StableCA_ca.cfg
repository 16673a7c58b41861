SPECIFICATION FairSpec
CONSTANTS
  Agents = {a1, a2}
  Hosts = {h1}
  CALife = 3
  LeafLife = 2
  MaxTime = 4
  MaxCAs = 2
INVARIANTS
  NoLeafOutlivesCA
  ServesFileOnDisk
  TrustSurvivesRestarts
PROPERTY RejectionTripsBreaker
CHECK_DEADLOCK FALSE
