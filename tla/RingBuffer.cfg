SPECIFICATION Spec
CONSTANTS
  Value = {0, 1, 2, 3}
  MaxSize = 3
INVARIANTS
  TypeOK
PROPERTIES
  HoldsLastMeasurements
