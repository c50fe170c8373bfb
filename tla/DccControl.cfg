SPECIFICATION Spec
CONSTANTS
  Loads = {0, 1, 2}
  MinLoad = 1
  MaxLoad = 2
  UpSize = 2
  DownSize = 3
  Tm = 2
  Sampling = 2
  RelaxedInterval = 1
  RestrictedInterval = 4
  ActiveInterval = 2
  ActiveIsRef = TRUE
  MaxTime = 20
INVARIANTS
  TypeOK
  TimersStayArmed
  TokenTimerFollowsState
  NeverJudgesEmptyWindow
  LongRunRate
  ActiveKeepsReference
PROPERTIES
  DwellsTimeDown
CHECK_DEADLOCK FALSE
