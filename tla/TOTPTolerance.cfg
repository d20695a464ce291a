SPECIFICATION Spec
CONSTANTS
  INTERVAL = 4
  Late = 1
  Transit = 1
  Tolerance = 1
  MaxTime = 13
  MaxWire = 1
PROPERTIES ToleranceWindow
