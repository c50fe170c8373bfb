SPECIFICATION LiveSpec
CONSTANTS
  Message = {1, 2, 3, 4}
  Time = {0, 1, 2}
  MaxTime = 2
  MaxBucketSize = 2
  QueueSize = 2
  Receivers = {ca}
  Io = io
  NoData = NoData
INVARIANTS
  TypeOK
  TokenAccounting
  SingleOwner
  NoPacketLeftBehind
  FlushedBeforeEnqueue
PROPERTIES
  LimitsRate
  QueuedPacketLeaves
