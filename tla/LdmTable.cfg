SPECIFICATION Spec
CONSTANTS
  NumKeys = 2
  MaxMessages = 3
  MaxCrashes = 2
  MaxErrors = 1
INVARIANTS
  TypeOK
  CacheKeepsUp
  CompleteOnceFilled
  NoSilentLoss
PROPERTIES
  RepliesNeverRegress
  NobodyBlocked
