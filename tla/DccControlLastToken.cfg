SPECIFICATION Spec
CONSTANTS
  Loads = {0, 1, 2}
  MinLoad = 1
  MaxLoad = 2
  UpSize = 2
  DownSize = 3
  Tm = 2
  Sampling = 3
  RelaxedInterval = 1
  RestrictedInterval = 4
  ActiveInterval = 2
  ActiveIsRef = TRUE
  MaxTime = 20
INVARIANTS
  LastTokenInThePast
CHECK_DEADLOCK FALSE
