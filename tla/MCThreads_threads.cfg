SPECIFICATION ThreadsSpec
CONSTANTS
  HeaderLen = 2
  RecvMax = 5
  DataLens = {0, 1, 3}
  WholeSegments = FALSE
  MaxSent = 3
  MaxRequests = 3
  MaxThreads = 3
INVARIANTS
  StreamTypeOK
  DamageStartsWithTruncation
  FewTpDuringRequest
  OneTpThread
  NotMutedBetweenRequests
  OwnResponse
PROPERTIES
  ImplementsChannel
  DrainsAfterClose
  KeepsAlive
  StoppedForGood
CHECK_DEADLOCK FALSE
