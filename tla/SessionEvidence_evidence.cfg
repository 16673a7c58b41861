SPECIFICATION Spec
CONSTANTS
  s1 = s1
  s2 = s2
  l1 = l1
  t1 = t1
  d1 = d1
  Sessions = {s1, s2}
  RuntimeOf <- Runtimes
  Cwds = {d1}
  CwdOf <- OneCwd
  LayersOf <- AllLayers
  Layers = {l1}
  Tools = {t1}
  RingMax = 2
  MaxRequests = 2
  MaxVersion = 2
  MaxTexts = 1
  LayerNames <- ThreeLayers
  Disks <- SmallDisks
  Paths <- Dirs
  Listings <- FewFiles
  Limit = 1
  MinBudget = 1
INVARIANTS
  VerdictsAreGrounded
  VerdictIgnoresOrder
  ItemsAreExplained
  LayersComeOnce
  RecentAreFound
