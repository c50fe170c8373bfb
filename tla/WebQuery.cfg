SPECIFICATION WebSpec
CONSTANTS
  NumKeys = 2
  MaxMessages = 2
  MaxCrashes = 1
  MaxErrors = 0
  MaxRequests = 2
  NumWorkers = 2
INVARIANTS
  WebTypeOK
  AnswersItsRequest
PROPERTIES
  BackOnlyIfOvertaken
  MutexReleased
