SPECIFICATION Spec
CONSTANTS
  NumWorkers = 3
  MaxTriggers = 3
  MaxOthers = 2
  MaxRestarts = 1
INVARIANTS
  TypeOK
  TriggersAccounted
  AlignedUnlessTorn
PROPERTIES
  TriggersFire
  DenmsStored
CHECK_DEADLOCK FALSE
