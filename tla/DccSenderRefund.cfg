SPECIFICATION Spec
CONSTANTS
  Message = {1, 2}
  Time = {0, 1, 2}
  MaxTime = 2
  MaxBucketSize = 1
  QueueSize = 2
  Receivers = {ca}
  Io = io
  NoData = NoData
PROPERTIES
  RefundUndoesDecrement
