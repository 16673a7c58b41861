SPECIFICATION Spec
CONSTANTS
  Tasks = {t1}
  MaxClicks = 2
PROPERTIES
  UntrustsStoppedTunnel
