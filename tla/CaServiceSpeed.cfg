SPECIFICATION Spec
CONSTANTS
  RoadLength = 3
  Positions <- Road
  Speeds <- RoadSpeeds
  Origin = 0
  Distance <- RoadDistance
  Bearing <- RoadBearing
  NextFix <- AlongRoad
  HeadingRadius = 1
  MaxGpsAge = 3
  MaxObd2Age = 3
  MaxCamInterval = 3
  AlarmPeriod = 2
  IsRSU = FALSE
  MaxTime = 8
INVARIANTS
  FreshSpeed
CHECK_DEADLOCK FALSE
