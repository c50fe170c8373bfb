SPECIFICATION Spec
CONSTANTS
  MaxCreated = 3
  MaxMoves = 1
  MaxLeft = 1
INVARIANTS
  LayoutTypeOK
  UnlockedAllMovable
PROPERTIES
  LoadRestores
  EventuallyFilled
