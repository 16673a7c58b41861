SPECIFICATION FairSpec
CONSTANTS
  Tasks = {t1, t2}
  MaxClicks = 3
INVARIANTS
  TypeOK
  CaptureIsTrusted
  OffMeansOff
PROPERTIES
  DisableIsDecided
